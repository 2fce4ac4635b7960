------------------------------- MODULE Delivery -------------------------------
(***************************************************************************)
(* One message on its way to a provider: Msg91SmsSender.send_passcode       *)
(* (app/services/sms.py) and ResendEmailSender._post (app/services/         *)
(* email.py), the same loop twice.  A post is a sequence of waits, each     *)
(* with a time limit of its own: to connect, to shake hands, to write, to   *)
(* read.  Time is counted in quarters of a second.                          *)
(***************************************************************************)
EXTENDS Integers, Sequences

CONSTANTS
  MaxRetries,   \* sms_max_retries, email_max_retries
  Timeout,      \* sms_timeout_seconds, email_timeout_seconds
  Durations,    \* bound: how long a wait may take, when it takes any time
  SlowWaits,    \* bound: waits of one post that take any time
  Budget        \* the time the documentation allows a send

ASSUME DeliveryAssumption ==
  /\ MaxRetries \in Nat /\ Timeout \in Nat \ {0}
  /\ Durations \subseteq 1..Timeout
  /\ SlowWaits \in Nat /\ Budget \in Nat

\* How a post ended: an answer of the provider (2xx, 5xx, anything else), a timeout
\* or transport error, or an exception the loop does not catch (an answer that
\* cannot be decoded).
Endings == {"success", "server_error", "refused", "transport", "garbled"}

VARIABLES
  sending,     \* "idle", "posting", or what the sender returned
  answers,     \* how each post so far ended; its length is the attempt number
  accepted,    \* posts after which the provider had the message
  taken,       \* whether the post under way is one of them
  slow,        \* slow waits of the post under way
  elapsed      \* quarters of a second since the send began

sendVars == <<sending, answers, accepted, taken, slow, elapsed>>

Results == {"sent", "failed", "raised"}

SendIdle ==
  /\ sending = "idle" /\ answers = <<>> /\ accepted = 0
  /\ taken = FALSE /\ slow = 0 /\ elapsed = 0

StartSend ==
  /\ sending = "idle"
  /\ sending' = "posting"
  /\ UNCHANGED <<answers, accepted, taken, slow, elapsed>>

\* A wait that takes d, within its limit.
Wait(d) ==
  /\ sending = "posting" /\ slow < SlowWaits
  /\ slow' = slow + 1
  /\ elapsed' = elapsed + d
  /\ UNCHANGED <<sending, answers, accepted, taken>>

\* The provider takes the message in; its answer may still be lost.
Accept ==
  /\ sending = "posting" /\ ~taken
  /\ taken' = TRUE
  /\ accepted' = accepted + 1
  /\ UNCHANGED <<sending, answers, slow, elapsed>>

\* A timeout, a transport error or a 5xx.
WorthRetrying(ending) == ending \in {"transport", "server_error"}

\* Mutant: range(max_retries + 2).
AttemptsLeftOver == Len(answers) <= MaxRetries

\* attempt < self._max_retries
AttemptsLeft == Len(answers) < MaxRetries

\* Mutant: every post that ended without an error is a success.
ResultOptimistic(ending) ==
  CASE ending = "garbled" -> "raised" [] ending = "transport" -> "failed" [] OTHER -> "sent"

\* Mutant: the loop ends without a return.
ResultMissing(ending) ==
  CASE ending = "success" -> "sent" [] ending = "garbled" -> "raised" [] OTHER -> "nothing"

Result(ending) ==
  CASE ending = "success" -> "sent"
    [] ending = "garbled" -> "raised"
    [] OTHER -> "failed"

\* A refused message was not taken; an acknowledged one was.
CanEnd(ending) ==
  /\ ending = "success" => taken
  /\ ending = "refused" => ~taken

\* The post ends: back off and try again, or return.
EndPost(ending) ==
  /\ sending = "posting" /\ CanEnd(ending)
  /\ answers' = Append(answers, ending)
  /\ taken' = FALSE /\ slow' = 0
  /\ IF WorthRetrying(ending) /\ AttemptsLeft
     THEN sending' = sending /\ elapsed' = elapsed + Len(answers) + 1
     ELSE sending' = Result(ending) /\ elapsed' = elapsed
  /\ UNCHANGED accepted

\* The caller goes on, or its request is gone, whatever the send was at.
ForgetSend ==
  /\ sending # "idle"
  /\ sending' = "idle" /\ answers' = <<>> /\ accepted' = 0
  /\ taken' = FALSE /\ slow' = 0 /\ elapsed' = 0

SendStep ==
  \/ \E d \in Durations : Wait(d)
  \/ \E ending \in Endings : EndPost(ending)

SendNext == StartSend \/ SendStep \/ Accept \/ ForgetSend

SendSpec == SendIdle /\ [][SendNext]_sendVars
-----------------------------------------------------------------------------
(* Properties *)

\* The types of the send.
SendTypeOK ==
  /\ sending \in {"idle", "posting"} \cup Results
  /\ answers \in Seq(Endings)
  /\ accepted \in Nat /\ taken \in BOOLEAN
  /\ slow \in 0..SlowWaits /\ elapsed \in Nat

\* The sender says sent only of a message the provider has, and failed only after
\* a refusal or after the last attempt; it goes on only after failures worth
\* retrying, and posts no message more often than it may (sms.py:110-162,
\* email.py:123-190).
VerdictJustified ==
  /\ Len(answers) <= MaxRetries + 1
  /\ \A i \in 1..Len(answers) :
       i < Len(answers) \/ sending = "posting" => answers[i] \in {"transport", "server_error"}
  /\ sending = "sent" => accepted > 0
  /\ sending = "failed" =>
       answers[Len(answers)] = "refused" \/ Len(answers) = MaxRetries + 1
  /\ accepted <= Len(answers) + 1

\* "One retry at a three second timeout is a worst case of about 6.5 seconds"
\* (config.py:47), inside the ten seconds the platform waits.
SendWithinBudget == elapsed <= Budget
=============================================================================
