----------------------------- MODULE ToolService -----------------------------
(***************************************************************************)
(* The tool endpoints of the voice onboarding service: app/routers/tools.py *)
(* and the services it calls (sessions, kyc, otp, leads, links, handoff).   *)
(*                                                                         *)
(* Every handler runs on a thread of its own with a database transaction   *)
(* of its own.  It loads the session, looks for a stored answer, guards    *)
(* the state, reads and stages its writes, may flush them and send a       *)
(* message, and then records the call and commits.  Other handlers run     *)
(* between any two of these steps, see only committed rows, and overwrite  *)
(* columns with the absolute values they computed from what they read.     *)
(***************************************************************************)
EXTENDS Integers, Sequences, FiniteSets, SessionStates

CONSTANTS
  Sessions,             \* calls, one row of onboarding_sessions each
  Customers,            \* rows of customers
  Sanctioned,           \* customers with is_sanctioned
  Addressed,            \* customers the delivery channel has an address for
  Claims,               \* details a caller may state to verify_identity
  Keys,                 \* idempotency keys
  KeysFor,              \* tool -> keys the platform sends with it (None: no key)
  Handlers,             \* threads serving requests
  None,                 \* SQL NULL and absent values
  MaxIdentityAttempts, MaxVerifyAttempts, MaxResends, MaxPerWindow,
  CodeTtl, RateWindow,  \* app/config.py
  Overlap,              \* which requests the platform lets overlap
  MaxRows,              \* bound: tool_calls rows per session
  MaxIssues,            \* bound: passcodes generated
  MaxTime               \* bound: ticks of the clock

SessionRows == [state : States, customer : Customers \cup {None},
                identity_attempts : Nat, otp_resends : Nat]

OverlapPolicies == {"never", "one_issuer", "other_sessions", "retries", "always"}

ASSUME ServiceAssumption ==
  /\ Sanctioned \subseteq Customers /\ Addressed \subseteq Customers
  /\ Claims \subseteq [pan : Customers \cup {None}, dob : BOOLEAN, name : BOOLEAN]
  /\ KeysFor \in [Tools -> SUBSET (Keys \cup {None})]
  /\ None \notin Customers \cup Keys \cup Sessions \cup SessionRows
  /\ {MaxIdentityAttempts, MaxVerifyAttempts, MaxResends, MaxPerWindow,
      CodeTtl, RateWindow, MaxRows, MaxIssues, MaxTime} \subseteq Nat
  /\ Overlap \in OverlapPolicies

VARIABLES
  sessions,    \* onboarding_sessions: committed rows
  challenges,  \* otp_challenges: committed rows by id
  artefacts,   \* rows each session owns in the other tables, counted by kind
  toolCalls,   \* tool_calls: committed rows of each session, in id order
  lastId,      \* the otp_challenges id sequence
  sent,        \* challenge ids whose code was handed to the SMS or email provider
  calls,       \* the request each handler serves, with its open transaction
  now          \* the clock

vars == <<sessions, challenges, artefacts, toolCalls, lastId, sent, calls, now>>
-----------------------------------------------------------------------------
(* Rows, requests and replies *)

\* guesses and proved are history: the codes compared with this challenge and
\* whether one matched, in committed calls.
ChallengeRows == [session : Sessions, customer : Customers, attempts : Nat,
                  created : Nat, expires : Nat, consumed : BOOLEAN,
                  guesses : Nat, proved : BOOLEAN]

Artefacts == {"lead", "link", "assessment", "granted", "refused", "ticket"}

Decisions == {"approved", "referred", "declined"}
Answers   == {"granted", "refused"}

Requests == [session : Sessions, tool : Tools, key : Keys \cup {None},
             claim : Claims \cup {None}, code : Nat,
             choice : Decisions \cup Answers \cup {"none"}]

\* What the platform may ask of session s: code 0 is a wrong passcode, the
\* others are codes that went out.
RequestsFor(s, t) ==
  [session : {s}, tool : {t}, key : KeysFor[t],
   claim  : IF t = "verify_identity" THEN Claims ELSE {None},
   code   : IF t = "verify_otp" THEN {0} \cup sent ELSE {0},
   choice : CASE t = "check_eligibility" -> Decisions
              [] t = "record_consent" -> Answers
              [] OTHER -> {"none"}]

Refusals == {"session_not_found", "session_closed", "invalid_transition",
             "attempts_exhausted"}
Outcomes == {"ok", "otp_sent", "not_registered", "retry", "blocked", "error",
             "declined"} \cup Refusals
Replies  == [outcome : Outcomes, state : States \cup {"none"}]
Reply(o, st) == [outcome |-> o, state |-> st]

Failures == {"pan_not_found", "sanctions_hit", "dob_mismatch", "name_mismatch"}
Verdicts == Failures \cup Decisions \cup Answers \cup
  {"none", "sent", "rate_limited", "resends_exhausted", "delivery_failed",
   "ok", "wrong_code", "expired", "attempts_exhausted", "no_challenge"}

AuditRows == [tool : Tools, key : Keys \cup {None}, verdict : Verdicts,
              reply : Replies]

Phases  == {"idle", "loaded", "staged", "sending", "ready", "answered"}
Guesses == [id : Nat, attempts : Nat, ok : BOOLEAN]
NoGuess == [id |-> 0, attempts |-> 0, ok |-> FALSE]

\* loaded is the session row as read, sess the object the handler modified, and
\* written whether its UPDATE has been executed, and so holds the row.
CallRecords ==
  [phase : Phases, req : Requests \cup {None},
   loaded : SessionRows \cup {None}, sess : SessionRows \cup {None},
   issue : Customers \cup {None}, newId : Nat, newAt : Nat, retires : Nat,
   guess : Guesses, adds : SUBSET Artefacts, written : BOOLEAN,
   verdict : Verdicts, reply : Replies \cup {None}]

IdleCall ==
  [phase |-> "idle", req |-> None, loaded |-> None, sess |-> None,
   issue |-> None, newId |-> 0, newAt |-> 0, retires |-> 0, guess |-> NoGuess,
   adds |-> {}, written |-> FALSE, verdict |-> "none", reply |-> None]

LoadedCall(q, row) ==
  [IdleCall EXCEPT !.phase = "loaded", !.req = q, !.loaded = row, !.sess = row]

AnsweredCall(q, rep) ==
  [IdleCall EXCEPT !.phase = "answered", !.req = q, !.reply = rep]

\* Mutant: the response is built before the transition.
AnsweredTooSoon(c, row, adds, outcome, verdict) ==
  [c EXCEPT !.phase = "ready", !.sess = row, !.adds = adds,
            !.verdict = verdict, !.reply = Reply(outcome, c.loaded.state)]

\* The work is done and the response built; only _finalize is left.
ReadyCall(c, row, adds, outcome, verdict) ==
  [c EXCEPT !.phase = "ready", !.sess = row, !.adds = adds,
            !.verdict = verdict, !.reply = Reply(outcome, row.state)]
-----------------------------------------------------------------------------
(* What a handler reads *)

\* find_replayed_call: the rows a retry of q is answered from.
PriorRows(q) ==
  IF q.key = None THEN {}
  ELSE {i \in DOMAIN toolCalls[q.session] :
          /\ toolCalls[q.session][i].tool = q.tool
          /\ toolCalls[q.session][i].key = q.key}

\* Mutant: no unique constraint.
NeverTaken(q) == FALSE

\* uq_tool_idempotency: one row per session and key, whatever the tool.
KeyTaken(q) ==
  /\ q.key # None
  /\ \E i \in DOMAIN toolCalls[q.session] : toolCalls[q.session][i].key = q.key

\* Mutant: one attempt too many.
RefusalLate(row, t) ==
  IF row = None THEN "session_not_found"
  ELSE IF StateRefusal(row.state, t) # "none" THEN StateRefusal(row.state, t)
  ELSE IF t = "verify_identity" /\ row.identity_attempts > MaxIdentityAttempts
    THEN "attempts_exhausted"
  ELSE "none"

\* load_session, the state guard and the identity attempt limit, in this order.
Refusal(row, t) ==
  IF row = None THEN "session_not_found"
  ELSE IF StateRefusal(row.state, t) # "none" THEN StateRefusal(row.state, t)
  ELSE IF t = "verify_identity" /\ row.identity_attempts >= MaxIdentityAttempts
    THEN "attempts_exhausted"
  ELSE "none"

\* kyc.verify_identity: look up by PAN, then corroborate.
Kyc(claim) ==
  IF claim.pan = None THEN "pan_not_found"
  ELSE IF claim.pan \in Sanctioned THEN "sanctions_hit"
  ELSE IF ~claim.dob THEN "dob_mismatch"
  ELSE IF ~claim.name THEN "name_mismatch"
  ELSE "ok"

\* Mutant: the challenges of other sessions are not left out.
UnconsumedAnywhere(s) == {i \in DOMAIN challenges : ~challenges[i].consumed}

Unconsumed(s) ==
  {i \in DOMAIN challenges : challenges[i].session = s /\ ~challenges[i].consumed}

\* Mutant: any challenge of the session is as good as the newest.
IsAnyOf(s, i) ==
  LET own == {j \in DOMAIN challenges : challenges[j].session = s}
  IN IF own = {} THEN i = 0 ELSE i \in own

\* active_challenge: i is the newest unconsumed challenge of s, 0 when none.
IsActive(s, i) ==
  \/ i = 0 /\ Unconsumed(s) = {}
  \/ i \in Unconsumed(s) /\ \A j \in Unconsumed(s) : j <= i

\* Mutant: the comparison with the clock off by one.
ExpiredLate(i) == challenges[i].expires + 1 < now

\* A passcode read back in the tick it expires is still good.
Expired(i) == challenges[i].expires < now

\* Mutant: one guess too many.
GuessesSpentLate(i) == challenges[i].attempts > MaxVerifyAttempts

GuessesSpent(i) == challenges[i].attempts >= MaxVerifyAttempts

\* Mutant: the first moment of the window is left out.
RecentCountOpen(cust) ==
  Cardinality({i \in DOMAIN challenges :
                 /\ challenges[i].customer = cust
                 /\ challenges[i].created > now - RateWindow})

\* _recent_challenge_count
RecentCount(cust) ==
  Cardinality({i \in DOMAIN challenges :
                 /\ challenges[i].customer = cust
                 /\ challenges[i].created >= now - RateWindow})
-----------------------------------------------------------------------------
(* Row locks.  An UPDATE locks its row until the transaction ends.  A flush *)
(* executes the one of onboarding_sessions before the one of otp_challenges *)
(* (the unit of work orders them by table), and waits at either of them for *)
(* whoever holds the row.                                                   *)

Flushed(c) == c.phase \in {"sending", "ready"} /\ (c.newId # 0 \/ "link" \in c.adds)

WritesSession(c) == c.sess # c.loaded

HoldsSession(c, s) == c.written /\ c.req.session = s

HoldsChallenge(c, i) == Flushed(c) /\ c.retires = i /\ i # 0

\* The UPDATEs that are still to be executed.
SessionToWrite(c) == WritesSession(c) /\ ~c.written

ChallengesToWrite(c) == IF Flushed(c) THEN {} ELSE {c.retires, c.guess.id} \ {0}

\* The flush of p has come to an UPDATE of a row that r holds.
WaitsFor(p, r) ==
  /\ p # r /\ calls[p].phase \in {"staged", "ready"}
  /\ IF SessionToWrite(calls[p])
     THEN HoldsSession(calls[r], calls[p].req.session)
     ELSE \E i \in ChallengesToWrite(calls[p]) : HoldsChallenge(calls[r], i)

\* A flush with an UPDATE of each table: another request may come between them.
TwoUpdates(c) == SessionToWrite(c) /\ ChallengesToWrite(c) # {}

\* Nothing keeps p from the end of its flush.
CanWrite(p) == ~TwoUpdates(calls[p]) /\ \A r \in Handlers : ~WaitsFor(p, r)

\* Two requests wait for each other (no larger circle can form: WaitingEnds).
Deadlocked(p) == \E r \in Handlers : WaitsFor(p, r) /\ WaitsFor(r, p)
-----------------------------------------------------------------------------
(* A request arrives *)

InFlight == {p \in Handlers : calls[p].phase \notin {"idle", "answered"}}

Issues(q) == q.tool \in {"verify_identity", "resend_otp"}

Admissible(q) ==
  LET same == {p \in InFlight : calls[p].req.session = q.session}
  IN CASE Overlap = "never" -> InFlight = {}
       [] Overlap = "one_issuer" ->
            same = {} /\ ~(Issues(q) /\ \E p \in InFlight : Issues(calls[p].req))
       [] Overlap = "other_sessions" -> same = {}
       [] Overlap = "retries" -> \A p \in same : calls[p].req = q /\ q.key # None
       [] OTHER -> TRUE

Arrives(p, q) == calls[p].phase = "idle" /\ Admissible(q)

WithinBounds(q) ==
  /\ Len(toolCalls[q.session])
       + Cardinality({p \in InFlight : calls[p].req.session = q.session}) < MaxRows
  /\ Issues(q) =>
       lastId + Cardinality({p \in InFlight : calls[p].newId = 0}) < MaxIssues

\* start_session: the row is committed before the reply.
StartSession(s) ==
  /\ sessions[s] = None
  /\ sessions' = [sessions EXCEPT ![s] =
                    [state |-> "started", customer |-> None,
                     identity_attempts |-> 0, otp_resends |-> 0]]
  /\ UNCHANGED <<challenges, artefacts, toolCalls, lastId, sent, calls, now>>

\* The retry is answered from the stored row, whatever state the session is in.
ReplayCall(p, q) ==
  /\ Arrives(p, q)
  /\ sessions[q.session] # None
  /\ \E i \in PriorRows(q) :
       calls' = [calls EXCEPT ![p] = AnsweredCall(q, toolCalls[q.session][i].reply)]
  /\ UNCHANGED <<sessions, challenges, artefacts, toolCalls, lastId, sent, now>>

\* A ToolError: rolled back, no audit row.
RefuseCall(p, q) ==
  /\ Arrives(p, q)
  /\ PriorRows(q) = {}
  /\ Refusal(sessions[q.session], q.tool) # "none"
  /\ calls' = [calls EXCEPT ![p] =
                 AnsweredCall(q, Reply(Refusal(sessions[q.session], q.tool),
                    IF sessions[q.session] = None THEN "none"
                    ELSE sessions[q.session].state))]
  /\ UNCHANGED <<sessions, challenges, artefacts, toolCalls, lastId, sent, now>>

LoadCall(p, q) ==
  /\ Arrives(p, q)
  /\ PriorRows(q) = {}
  /\ Refusal(sessions[q.session], q.tool) = "none"
  /\ WithinBounds(q)
  /\ calls' = [calls EXCEPT ![p] = LoadedCall(q, sessions[q.session])]
  /\ UNCHANGED <<sessions, challenges, artefacts, toolCalls, lastId, sent, now>>
-----------------------------------------------------------------------------
(* The work of each handler, on the session it loaded *)

Working(p, t) == calls[p].phase = "loaded" /\ calls[p].req.tool = t

\* The handler goes on with the call record c if transition() allows the move
\* to target, and is refused with InvalidTransition otherwise.
Proceed(p, target, c) ==
  /\ calls' = [calls EXCEPT ![p] =
       IF CanMove(calls[p].sess.state, target) THEN c
       ELSE AnsweredCall(calls[p].req,
                         Reply("invalid_transition", calls[p].sess.state))]
  /\ UNCHANGED <<sessions, challenges, artefacts, toolCalls, lastId, sent, now>>

\* The same, for a handler that leaves the state as it is.
Stay(p, c) ==
  /\ calls' = [calls EXCEPT ![p] = c]
  /\ UNCHANGED <<sessions, challenges, artefacts, toolCalls, lastId, sent, now>>

\* issue_challenge up to its flush: the limits, then the challenge to retire.
IssueLimit(row, cust, isResend) ==
  IF isResend /\ row.otp_resends >= MaxResends THEN "resends_exhausted"
  ELSE IF RecentCount(cust) >= MaxPerWindow THEN "rate_limited"
  ELSE "none"

Issuing(p, row, cust, prev) ==
  [calls[p] EXCEPT !.phase = "staged", !.sess = row, !.issue = cust, !.retires = prev]

VerifyIdentityMatched(p) ==
  LET c    == calls[p]
      cust == c.req.claim.pan
      row  == [c.sess EXCEPT !.customer = cust, !.state = "identity_matched"]
      stop == IssueLimit(row, cust, FALSE)
  IN /\ Working(p, "verify_identity")
     /\ Kyc(c.req.claim) = "ok"
     /\ IF stop # "none"
        THEN Proceed(p, row.state, ReadyCall(c, row, {}, "blocked", stop))
        ELSE \E prev \in {0} \cup DOMAIN challenges :
               /\ IsActive(c.req.session, prev)
               /\ Proceed(p, row.state, Issuing(p, row, cust, prev))

\* No account: the caller becomes a prospect and no attempt is consumed.
VerifyIdentityUnknown(p) ==
  LET row == [calls[p].sess EXCEPT !.state = "prospect"]
  IN /\ Working(p, "verify_identity")
     /\ Kyc(calls[p].req.claim) = "pan_not_found"
     /\ Proceed(p, row.state,
                ReadyCall(calls[p], row, {}, "not_registered", "pan_not_found"))

\* Mutant: the session keeps the customer whose details did not match.
MismatchRemembered(p) ==
  LET row == [calls[p].sess EXCEPT !.identity_attempts = @ + 1,
                                   !.customer = calls[p].req.claim.pan]
  IN /\ Working(p, "verify_identity")
     /\ Kyc(calls[p].req.claim) \notin {"ok", "pan_not_found"}
     /\ Stay(p, ReadyCall(calls[p], row, {}, "retry", Kyc(calls[p].req.claim)))

VerifyIdentityFailed(p) ==
  LET verdict == Kyc(calls[p].req.claim)
      row     == [calls[p].sess EXCEPT !.identity_attempts = @ + 1]
      final   == verdict = "sanctions_hit" \/ row.identity_attempts >= MaxIdentityAttempts
  IN /\ Working(p, "verify_identity")
     /\ verdict \notin {"ok", "pan_not_found"}
     /\ Stay(p, ReadyCall(calls[p], row, {}, IF final THEN "blocked" ELSE "retry", verdict))

\* verify_challenge finds nothing it may compare the code with.
VerifyOtpUnchecked(p) ==
  LET c == calls[p]
  IN /\ Working(p, "verify_otp")
     /\ \E i \in {0} \cup DOMAIN challenges :
          /\ IsActive(c.req.session, i)
          /\ \/ /\ i = 0
                /\ Stay(p, ReadyCall(c, c.sess, {}, "blocked", "no_challenge"))
             \/ /\ i # 0
                /\ Expired(i)
                /\ Stay(p, ReadyCall(c, c.sess, {}, "retry", "expired"))
             \/ /\ i # 0
                /\ ~Expired(i)
                /\ GuessesSpent(i)
                /\ Stay(p, ReadyCall(c, c.sess, {}, "blocked", "attempts_exhausted"))

\* verify_challenge counts the attempt and compares the code.
VerifyOtpChecked(p) ==
  LET c == calls[p]
  IN /\ Working(p, "verify_otp")
     /\ \E i \in DOMAIN challenges :
          LET tries == challenges[i].attempts + 1
              hit   == c.req.code = i
              row   == [c.sess EXCEPT !.state = "identity_verified"]
              try   == [c EXCEPT !.guess = [id |-> i, attempts |-> tries, ok |-> hit]]
          IN /\ IsActive(c.req.session, i)
             /\ ~Expired(i)
             /\ ~GuessesSpent(i)
             /\ IF hit
                THEN Proceed(p, row.state, ReadyCall(try, row, {}, "ok", "ok"))
                ELSE IF tries >= MaxVerifyAttempts
                THEN Stay(p, ReadyCall(try, c.sess, {}, "blocked", "attempts_exhausted"))
                ELSE Stay(p, ReadyCall(try, c.sess, {}, "retry", "wrong_code"))

ResendOtp(p) ==
  LET c    == calls[p]
      stop == IssueLimit(c.sess, c.sess.customer, TRUE)
  IN /\ Working(p, "resend_otp")
     /\ IF stop # "none"
        THEN Stay(p, ReadyCall(c, c.sess, {}, "blocked", stop))
        ELSE \E prev \in {0} \cup DOMAIN challenges :
               /\ IsActive(c.req.session, prev)
               /\ Stay(p, Issuing(p, c.sess, c.sess.customer, prev))

\* create_lead and issue_link.
CaptureLead(p) ==
  LET row == [calls[p].sess EXCEPT !.state = "lead_captured"]
  IN /\ Working(p, "capture_lead")
     /\ Proceed(p, row.state, [calls[p] EXCEPT !.phase = "staged", !.sess = row,
                                               !.adds = {"lead", "link"}])

\* Mutant: a decline closes the call without asking the state machine.
DeclineCloses(p) ==
  LET decision == calls[p].req.choice
      row == [calls[p].sess EXCEPT
                !.state = IF decision = "declined" THEN "blocked"
                          ELSE "eligibility_assessed"]
  IN /\ Working(p, "check_eligibility")
     /\ Stay(p, ReadyCall(calls[p], row, {"assessment"}, "ok", decision))

\* A decline moves the session on like any other decision.
CheckEligibility(p) ==
  LET row      == [calls[p].sess EXCEPT !.state = "eligibility_assessed"]
      decision == calls[p].req.choice
  IN /\ Working(p, "check_eligibility")
     /\ Proceed(p, row.state,
                ReadyCall(calls[p], row, {"assessment"},
                          IF decision = "declined" THEN "declined" ELSE "ok", decision))

\* Granted consent passes through consent_recorded to completed in one handler.
RecordConsent(p) ==
  LET c    == calls[p]
      row  == [c.sess EXCEPT !.state = "completed"]
  IN /\ Working(p, "record_consent")
     /\ IF c.req.choice = "granted"
        THEN /\ CanMove("consent_recorded", "completed")
             /\ Proceed(p, "consent_recorded",
                        ReadyCall(c, row, {"granted"}, "ok", "granted"))
        ELSE Stay(p, ReadyCall(c, c.sess, {"refused"}, "declined", "refused"))

\* Mutant: a ticket is written and the call goes on.
EscalateInPlace(p) ==
  /\ Working(p, "escalate")
  /\ Stay(p, ReadyCall(calls[p], calls[p].sess, {"ticket"}, "ok", "none"))

Escalate(p) ==
  LET row == [calls[p].sess EXCEPT !.state = "escalated"]
  IN /\ Working(p, "escalate")
     /\ Proceed(p, row.state, ReadyCall(calls[p], row, {"ticket"}, "ok", "none"))
-----------------------------------------------------------------------------
(* The message goes out before anything is committed *)

Written(c) == [c EXCEPT !.written = TRUE]

\* The first UPDATE of a flush that has two.
WriteSession(p) ==
  /\ calls[p].phase \in {"staged", "ready"}
  /\ TwoUpdates(calls[p])
  /\ \A r \in Handlers : ~WaitsFor(p, r)
  /\ Stay(p, Written(calls[p]))

\* The flush in issue_challenge, to its end: the challenge gets its id, the rows
\* written so far are locked.  A customer without an address is not sent anything.
FlushChallenge(p) ==
  LET c == calls[p]
      flushed == [c EXCEPT !.newId = lastId + 1, !.newAt = now,
                           !.written = WritesSession(c)]
  IN /\ c.phase = "staged" /\ c.issue # None
     /\ CanWrite(p)
     /\ lastId' = lastId + 1
     /\ IF c.issue \in Addressed
        THEN /\ calls' = [calls EXCEPT ![p] = [flushed EXCEPT !.phase = "sending"]]
             /\ sent' = sent \cup {lastId + 1}
        ELSE /\ calls' = [calls EXCEPT ![p] =
                  ReadyCall(flushed, c.sess, {}, "error", "delivery_failed")]
             /\ sent' = sent
     /\ UNCHANGED <<sessions, challenges, artefacts, toolCalls, now>>

\* The flush in links.issue_link.
FlushLink(p) ==
  /\ calls[p].phase = "staged" /\ calls[p].issue = None
  /\ CanWrite(p)
  /\ Stay(p, [calls[p] EXCEPT !.phase = "sending", !.written = WritesSession(calls[p])])

\* Mutant: the first passcode counts as a resend.
EveryCodeCounted(p) ==
  LET row == [calls[p].sess EXCEPT !.otp_resends = @ + 1]
  IN /\ calls[p].phase = "sending" /\ calls[p].issue # None
     /\ Stay(p, ReadyCall(calls[p], row, {}, "otp_sent", "sent"))

\* A resend counts only once it is delivered.
PasscodeDelivered(p) ==
  LET c   == calls[p]
      row == IF c.req.tool = "resend_otp"
             THEN [c.sess EXCEPT !.otp_resends = @ + 1] ELSE c.sess
  IN /\ c.phase = "sending" /\ c.issue # None
     /\ Stay(p, ReadyCall(c, row, {}, "otp_sent", "sent"))

\* Reported as failed, although the code may have reached the phone.
PasscodeUndelivered(p) ==
  /\ calls[p].phase = "sending" /\ calls[p].issue # None
  /\ Stay(p, ReadyCall(calls[p], calls[p].sess, {}, "error", "delivery_failed"))

\* The lead stands whether or not the email went out.
LinkEmailed(p) ==
  /\ calls[p].phase = "sending" /\ calls[p].issue = None
  /\ \E verdict \in {"sent", "delivery_failed"} :
       Stay(p, ReadyCall(calls[p], calls[p].sess, calls[p].adds, "ok", verdict))
-----------------------------------------------------------------------------
(* _finalize, and the end of the request *)

\* UPDATE sets the columns the handler changed to the values it computed.
Column(read, written, stored) == IF written = read THEN stored ELSE written

UpdatedRow(stored, read, written) ==
  [state    |-> Column(read.state, written.state, stored.state),
   customer |-> Column(read.customer, written.customer, stored.customer),
   identity_attempts |-> Column(read.identity_attempts, written.identity_attempts,
                                stored.identity_attempts),
   otp_resends |-> Column(read.otp_resends, written.otp_resends, stored.otp_resends)]

UpdatedChallenge(row, i, c) ==
  LET guessed == i = c.guess.id
  IN [row EXCEPT
       !.attempts = IF guessed THEN c.guess.attempts ELSE @,
       !.consumed = @ \/ i = c.retires \/ (guessed /\ c.guess.ok),
       !.guesses  = IF guessed THEN @ + 1 ELSE @,
       !.proved   = @ \/ (guessed /\ c.guess.ok)]

\* Mutant: the customer is taken from the session as it was loaded.
ChallengeOfLoaded(c) ==
  [session |-> c.req.session, customer |-> c.loaded.customer, attempts |-> 0,
   created |-> c.newAt, expires |-> c.newAt + CodeTtl, consumed |-> FALSE,
   guesses |-> 0, proved |-> FALSE]

NewChallenge(c) ==
  [session |-> c.req.session, customer |-> c.issue, attempts |-> 0,
   created |-> c.newAt, expires |-> c.newAt + CodeTtl, consumed |-> FALSE,
   guesses |-> 0, proved |-> FALSE]

\* The audit row and everything the handler staged, in one commit.
RecordCall(p) ==
  LET c == calls[p]
      s == c.req.session
      added == {c.newId} \ {0}
  IN /\ c.phase = "ready"
     /\ CanWrite(p)
     /\ ~KeyTaken(c.req)
     /\ sessions' = [sessions EXCEPT ![s] = UpdatedRow(sessions[s], c.loaded, c.sess)]
     /\ challenges' = [i \in DOMAIN challenges \cup added |->
                         IF i \in added THEN NewChallenge(c)
                         ELSE UpdatedChallenge(challenges[i], i, c)]
     /\ artefacts' = [artefacts EXCEPT ![s] =
                        [k \in Artefacts |-> IF k \in c.adds THEN artefacts[s][k] + 1
                                             ELSE artefacts[s][k]]]
     /\ toolCalls' = [toolCalls EXCEPT ![s] =
                        Append(toolCalls[s], [tool |-> c.req.tool, key |-> c.req.key,
                                              verdict |-> c.verdict, reply |-> c.reply])]
     /\ calls' = [calls EXCEPT ![p] = AnsweredCall(c.req, c.reply)]
     /\ UNCHANGED <<lastId, sent, now>>

\* Mutant: the duplicate is not rolled back, and answered as it was computed.
SuppressWithoutRollback(p) ==
  LET c == calls[p]
      s == c.req.session
  IN /\ c.phase = "ready"
     /\ CanWrite(p)
     /\ KeyTaken(c.req)
     /\ sessions' = [sessions EXCEPT ![s] = UpdatedRow(sessions[s], c.loaded, c.sess)]
     /\ artefacts' = [artefacts EXCEPT ![s] =
                        [k \in Artefacts |-> IF k \in c.adds THEN @[k] + 1 ELSE @[k]]]
     /\ calls' = [calls EXCEPT ![p] = AnsweredCall(c.req, c.reply)]
     /\ UNCHANGED <<challenges, toolCalls, lastId, sent, now>>

\* The unique constraint rejected the row: everything is rolled back and the
\* stored answer served.  A row of another tool is no answer, so the handler
\* falls through and returns its own.
SuppressDuplicate(p) ==
  LET c == calls[p]
      prior == PriorRows(c.req)
  IN /\ c.phase = "ready"
     /\ CanWrite(p)
     /\ KeyTaken(c.req)
     /\ \/ \E i \in prior :
             Stay(p, AnsweredCall(c.req, toolCalls[c.req.session][i].reply))
        \/ /\ prior = {}
           /\ Stay(p, AnsweredCall(c.req, c.reply))

\* The platform has the reply, or has stopped waiting for it.
Return(p) ==
  /\ calls[p].phase = "answered"
  /\ Stay(p, IdleCall)

\* Mutant: an exception leaves the transaction open.
AbortLeavesOpen(p) ==
  /\ p \in InFlight
  /\ Stay(p, [IdleCall EXCEPT !.req = calls[p].req, !.written = calls[p].written])

\* An exception, a deadlock, or a restart of the process: the transaction is
\* rolled back and no audit row is written.
Abort(p) ==
  /\ p \in InFlight
  /\ Stay(p, IdleCall)

\* PostgreSQL finds two transactions waiting for each other and fails one.
BreakDeadlock(p) == Deadlocked(p) /\ Abort(p)

Tick ==
  /\ now < MaxTime
  /\ now' = now + 1
  /\ UNCHANGED <<sessions, challenges, artefacts, toolCalls, lastId, sent, calls>>
-----------------------------------------------------------------------------
Init ==
  /\ sessions = [s \in Sessions |-> None]
  /\ challenges = [i \in {} |-> None]
  /\ artefacts = [s \in Sessions |-> [k \in Artefacts |-> 0]]
  /\ toolCalls = [s \in Sessions |-> <<>>]
  /\ lastId = 0
  /\ sent = {}
  /\ calls = [p \in Handlers |-> IdleCall]
  /\ now = 0

Arrive(p) ==
  \E s \in Sessions, t \in Tools :
    \E q \in RequestsFor(s, t) : ReplayCall(p, q) \/ RefuseCall(p, q) \/ LoadCall(p, q)

Work(p) ==
  \/ VerifyIdentityMatched(p) \/ VerifyIdentityUnknown(p) \/ VerifyIdentityFailed(p)
  \/ VerifyOtpUnchecked(p) \/ VerifyOtpChecked(p) \/ ResendOtp(p)
  \/ CaptureLead(p) \/ CheckEligibility(p) \/ RecordConsent(p) \/ Escalate(p)

Send(p) ==
  \/ WriteSession(p) \/ FlushChallenge(p) \/ FlushLink(p)
  \/ PasscodeDelivered(p) \/ PasscodeUndelivered(p) \/ LinkEmailed(p)

Finalize(p) == RecordCall(p) \/ SuppressDuplicate(p)

Next ==
  \/ \E s \in Sessions : StartSession(s)
  \/ \E p \in Handlers : Arrive(p) \/ Work(p) \/ Send(p) \/ Finalize(p)
                         \/ Return(p) \/ Abort(p)
  \/ Tick

Spec == Init /\ [][Next]_vars

\* A handler's thread goes on running, the database grants row locks in the
\* order they were asked for and breaks deadlocks, and every send returns (its
\* timeout is bounded).  Nothing obliges the platform to call, and nothing else
\* has to fail.
Fairness ==
  /\ \A p \in Handlers : WF_vars(Work(p)) /\ SF_vars(Send(p)) /\ SF_vars(Finalize(p))
  /\ WF_vars(\E p \in Handlers : BreakDeadlock(p))

FairSpec == Spec /\ Fairness
-----------------------------------------------------------------------------
(* Properties *)

Opened == {s \in Sessions : sessions[s] # None}

\* Rows of s whose tool and verdict satisfy the sets given.
AuditCount(s, tools, verdicts) ==
  Cardinality({i \in DOMAIN toolCalls[s] :
                 toolCalls[s][i].tool \in tools /\ toolCalls[s][i].verdict \in verdicts})

\* The types of the variables.
TypeOK ==
  /\ sessions \in [Sessions -> SessionRows \cup {None}]
  /\ DOMAIN challenges \subseteq 1..lastId
  /\ \A i \in DOMAIN challenges : challenges[i] \in ChallengeRows
  /\ artefacts \in [Sessions -> [Artefacts -> Nat]]
  /\ toolCalls \in [Sessions -> Seq(AuditRows)]
  /\ lastId \in Nat
  /\ sent \subseteq 1..lastId
  /\ calls \in [Handlers -> CallRecords]
  /\ now \in Nat

VerifiedStates == {"identity_verified", "eligibility_assessed",
                   "consent_recorded", "completed"}

\* A session is verified, or owns an assessment or a consent, only if a passcode
\* that went out for this session was read back and accepted in a committed
\* call, however requests overlap (tools.py:305-309, models.py:53-55).
SecondFactor ==
  \A s \in Sessions :
    (\/ s \in Opened /\ sessions[s].state \in VerifiedStates
     \/ \E k \in {"assessment", "granted", "refused"} : artefacts[s][k] > 0)
    => \E i \in DOMAIN challenges :
         challenges[i].session = s /\ challenges[i].proved /\ i \in sent

\* The accepted passcode went to the customer the session is about, who is not
\* sanctioned (otp.py:115-151, kyc.py:68-70).
VerifiedOwner ==
  \A s \in Opened :
    sessions[s].state \in VerifiedStates =>
      /\ sessions[s].customer \in Customers \ Sanctioned
      /\ \E i \in DOMAIN challenges :
           /\ challenges[i].session = s /\ challenges[i].proved
           /\ challenges[i].customer = sessions[s].customer

\* The last audit row tells the state the session is in, as the audit endpoint
\* and the evaluations take it to (admin.py:49-144, evals/run_evals.py).
AuditAgrees ==
  \A s \in Opened :
    sessions[s].state = IF toolCalls[s] = <<>> THEN "started"
                        ELSE toolCalls[s][Len(toolCalls[s])].reply.state

\* Every ticket, lead, link, assessment and consent has exactly one audit row
\* that answers for it, however requests overlap: a suppressed duplicate leaves
\* nothing behind (tools.py:152-161).
ArtefactsAudited ==
  \A s \in Sessions :
    /\ artefacts[s]["ticket"] = AuditCount(s, {"escalate"}, Verdicts)
    /\ artefacts[s]["lead"] = AuditCount(s, {"capture_lead"}, Verdicts)
    /\ artefacts[s]["link"] = artefacts[s]["lead"]
    /\ artefacts[s]["assessment"] = AuditCount(s, {"check_eligibility"}, Verdicts)
    /\ artefacts[s]["granted"] = AuditCount(s, {"record_consent"}, {"granted"})
    /\ artefacts[s]["refused"] = AuditCount(s, {"record_consent"}, {"refused"})

\* Each way a call can end left the one artefact that proves it, and no other
\* ending did (tools.py:447-450, 631-633, 691-694).
EndingBacked ==
  \A s \in Opened :
    /\ artefacts[s]["granted"] = IF sessions[s].state = "completed" THEN 1 ELSE 0
    /\ artefacts[s]["lead"] = IF sessions[s].state = "lead_captured" THEN 1 ELSE 0
    /\ artefacts[s]["ticket"] = IF sessions[s].state = "escalated" THEN 1 ELSE 0
    /\ artefacts[s]["assessment"] <= 1

\* A prospect has no customer, no passcode and no credit decision, to the end of
\* the call (tools.py:416-419).
ProspectsApart ==
  \A s \in Opened :
    sessions[s].state \in {"prospect", "lead_captured"} \/ artefacts[s]["lead"] > 0 =>
      /\ sessions[s].customer = None
      /\ \A i \in DOMAIN challenges : challenges[i].session # s
      /\ \A k \in {"assessment", "granted", "refused"} : artefacts[s][k] = 0

\* The identity counter is the number of audited failures and never passes the
\* limit; an unknown PAN is free (tools.py:199-200, 244-248, 261).
AttemptBudget ==
  \A s \in Opened :
    /\ sessions[s].identity_attempts =
         AuditCount(s, {"verify_identity"}, Failures \ {"pan_not_found"})
    /\ sessions[s].identity_attempts <= MaxIdentityAttempts

\* Exactly the resends on record as delivered are counted, and they stop at the
\* limit (otp.py:125-126, 181-182).
ResendBudget ==
  \A s \in Opened :
    /\ sessions[s].otp_resends = AuditCount(s, {"resend_otp"}, {"sent"})
    /\ sessions[s].otp_resends <= MaxResends

\* No guess goes uncounted and none is counted twice when it is retried, and a
\* passcode is compared with at most otp_max_verify_attempts guesses
\* (otp.py:205-208, tools.py:152-161).
GuessBudget ==
  \A i \in DOMAIN challenges :
    /\ challenges[i].attempts = challenges[i].guesses
    /\ challenges[i].guesses <= MaxVerifyAttempts

\* A session has at most one passcode that could still be accepted (otp.py:137-140).
OneLiveCode == \A s \in Sessions : Cardinality(Unconsumed(s)) <= 1

\* In no window of time, wherever it begins, are more passcodes of a customer on
\* record than the limit, over all his sessions.  A code that was sent and whose
\* request was rolled back is on no record, and no limit sees it (otp.py:16-18,
\* 89-94).
RateLimit ==
  \A cust \in Customers, t \in 0..now :
    Cardinality({i \in DOMAIN challenges :
                   /\ challenges[i].customer = cust
                   /\ challenges[i].created \in t..(t + RateWindow)}) <= MaxPerWindow

\* An answer that is no refusal is durable: a committed row holds it
\* (tools.py:134-138, failure-modes.md:39).
AnswerDurable ==
  \A p \in Handlers :
    LET q == calls[p].req
    IN calls[p].phase = "answered" /\ calls[p].reply.outcome \notin Refusals =>
         \E i \in DOMAIN toolCalls[q.session] :
           /\ toolCalls[q.session][i].tool = q.tool
           /\ toolCalls[q.session][i].key = q.key
           /\ toolCalls[q.session][i].reply = calls[p].reply

\* A request for a human is refused only because the call is over (tools.py:673-675).
EscalationAvailable ==
  \A p \in Handlers :
    calls[p].phase = "answered" /\ calls[p].req.tool = "escalate" =>
      calls[p].reply.outcome \in {"ok", "session_closed", "session_not_found"}

\* A session moves only along allowed edges, record_consent along two at once
\* (models.py:64, tools.py:631-633).
MovesAllowed ==
  [][\A s \in Opened :
       \/ sessions'[s].state = sessions[s].state
       \/ CanMove(sessions[s].state, sessions'[s].state)
       \/ \E mid \in States : /\ CanMove(sessions[s].state, mid)
                              /\ CanMove(mid, sessions'[s].state)
                              /\ mid = "consent_recorded"]_vars

\* Nothing is written to a session that has closed: not its row, not its audit
\* trail, no artefact (failure-modes.md:10, sessions.py:68-72).
ClosedIsFrozen ==
  [][\A s \in Opened :
       sessions[s].state \in TerminalStates =>
         /\ sessions'[s] = sessions[s]
         /\ toolCalls'[s] = toolCalls[s]
         /\ artefacts'[s] = artefacts[s]]_vars

\* The passcode a commit accepts is the newest of its session (otp.py:137).
NewestCodeOnly ==
  [][\A i \in DOMAIN challenges :
       challenges'[i].proved /\ ~challenges[i].proved =>
         \A j \in DOMAIN challenges :
           challenges[j].session = challenges[i].session => j <= i]_vars

\* A guess is compared and counted only within the time to live of the passcode
\* it is compared with, however long the request, or a resend before it, took;
\* a later one leaves the passcode and its attempts alone (otp.py:198-208).
CodesExpire ==
  [][\A p \in Handlers :
       LET i == calls'[p].guess.id
       IN i \notin {0, calls[p].guess.id} =>
            now - challenges[i].created \in 0..CodeTtl]_vars

\* No request waits for ever for a row, although rows stay locked while messages
\* are sent and two requests may come to wait for each other: an ended request,
\* committed, answered or failed, leaves nothing locked (otp.py:140-188,
\* sessions.py:171, db.py:81-91).
EveryCallEnds ==
  \A p \in Handlers : p \in InFlight ~> p \notin InFlight

\* A request for a human that got past the guard closes the call, unless it
\* fails as a whole, whatever else is in flight (tools.py:673-675).
EscalationLands ==
  \A p \in Handlers, s \in Sessions :
    p \in InFlight /\ calls[p].req.tool = "escalate" /\ calls[p].req.session = s
      ~> \/ calls[p].phase = "idle"
         \/ sessions[s] # None /\ sessions[s].state \in TerminalStates
=============================================================================
