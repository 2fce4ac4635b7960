----------------------- MODULE ToolServiceLedgerProofs -----------------------
(***************************************************************************)
(* The ledger of ToolService, for all values of the constants and any      *)
(* overlap of requests: every artefact has exactly one audit row           *)
(* (ArtefactsAudited), an answer that is no refusal is in a committed row  *)
(* (AnswerDurable), and a hand-off is never refused on a call in progress  *)
(* (EscalationAvailable).  Requests never wait for rows in a circle        *)
(* (WaitingEnds), and whatever is stored of a session has its audit rows   *)
(* (TablesHaveRows).                                                       *)
(*                                                                         *)
(* The counts agree because what a request is going to add is fixed by its *)
(* tool and its verdict from the moment it stages it, and the commit adds  *)
(* the artefacts and the row together or not at all.  LInv carries that    *)
(* through every phase of a request.  The arguments for the other two      *)
(* precede them below.                                                     *)
(***************************************************************************)
EXTENDS ToolServiceProofs, FiniteSetTheorems

\* What a committed call of tool t with verdict v has written.
Matches(adds, t, v) ==
  /\ "ticket" \in adds <=> t = "escalate"
  /\ "lead" \in adds <=> t = "capture_lead"
  /\ "link" \in adds <=> t = "capture_lead"
  /\ "assessment" \in adds <=> t = "check_eligibility"
  /\ "granted" \in adds <=> t = "record_consent" /\ v = "granted"
  /\ "refused" \in adds <=> t = "record_consent" /\ v = "refused"

HandoffOutcomes == {"ok", "session_closed", "session_not_found"}

Asked(q) == q \in Requests /\ q.key \in KeysFor[q.tool]

\* What holds of a request in every phase.
Books(c) ==
  /\ c.phase # "idle" => Asked(c.req)
  /\ c.phase = "loaded" => c.adds = {} /\ c.issue = None
  /\ c.phase \in {"staged", "sending"} =>
       /\ c.issue # None => c.req.tool \in {"verify_identity", "resend_otp"}
       /\ Matches(c.adds, c.req.tool, "none")
  /\ c.phase = "ready" =>
       /\ Matches(c.adds, c.req.tool, c.verdict)
       /\ c.req.tool = "escalate" => c.reply.outcome = "ok"
  /\ c.phase = "answered" /\ c.req.tool = "escalate" => c.reply.outcome \in HandoffOutcomes

\* The answer is in a committed row.
Stored(q, rep) ==
  \E i \in DOMAIN toolCalls[q.session] :
    /\ toolCalls[q.session][i].tool = q.tool
    /\ toolCalls[q.session][i].key = q.key
    /\ toolCalls[q.session][i].reply = rep

Durable(c) ==
  c.phase = "answered" /\ c.reply.outcome \notin Refusals => Stored(c.req, c.reply)

\* No key is used with two tools.
KeysApart ==
  \A t, u \in Tools : t # u => KeysFor[t] \cap KeysFor[u] \subseteq {None}

GoodRow(row) ==
  /\ row.tool \in Tools /\ row.key \in KeysFor[row.tool]
  /\ row.tool = "escalate" => row.reply.outcome = "ok"

LInv == /\ ArtefactsAudited
        /\ \A p \in Handlers : Books(calls[p])
        /\ \A s \in Sessions : \A i \in DOMAIN toolCalls[s] : GoodRow(toolCalls[s][i])
        /\ KeysApart => \A p \in Handlers : Durable(calls[p])

USE DEF InFlightPhases, HandoffOutcomes
-----------------------------------------------------------------------------
(* Counting audit rows *)

RowCount(rows, T, V) ==
  Cardinality({i \in DOMAIN rows : rows[i].tool \in T /\ rows[i].verdict \in V})

\* Another row adds one to the counts it belongs to.
LEMMA CountAppend ==
  ASSUME NEW rows \in Seq(AuditRows), NEW row \in AuditRows, NEW T, NEW V
  PROVE  /\ RowCount(rows, T, V) \in Nat
         /\ RowCount(Append(rows, row), T, V) =
              IF row.tool \in T /\ row.verdict \in V THEN RowCount(rows, T, V) + 1
              ELSE RowCount(rows, T, V)
<1> DEFINE n == Len(rows)
           I == {i \in DOMAIN rows : rows[i].tool \in T /\ rows[i].verdict \in V}
           more == Append(rows, row)
           J == {i \in DOMAIN more : more[i].tool \in T /\ more[i].verdict \in V}
<1>1. n \in Nat /\ DOMAIN rows = 1..n
  OBVIOUS
<1>2. /\ DOMAIN more = 1..(n + 1) /\ more[n + 1] = row
      /\ \A i \in 1..n : more[i] = rows[i]
  BY <1>1
<1>3. IsFiniteSet(I)
  <2>1. IsFiniteSet(1..n)
    BY <1>1, FS_Interval
  <2>2. I \subseteq 1..n
    BY <1>1
  <2> QED
    BY <2>1, <2>2, FS_Subset
<1>4. Cardinality(I) \in Nat
  BY <1>3, FS_CardinalityType
<1>5. n + 1 \notin I
  BY <1>1
<1>6. CASE row.tool \in T /\ row.verdict \in V
  <2>1. J = I \cup {n + 1}
    BY <1>1, <1>2, <1>6
  <2>2. Cardinality(I \cup {n + 1}) = Cardinality(I) + 1
    BY <1>3, <1>5, FS_AddElement
  <2> QED
    BY <1>4, <1>6, <2>1, <2>2 DEF RowCount
<1>7. CASE ~(row.tool \in T /\ row.verdict \in V)
  <2>1. J = I
    BY <1>1, <1>2, <1>7
  <2> QED
    BY <1>4, <1>7, <2>1 DEF RowCount
<1> QED
  BY <1>6, <1>7

LEMMA CountOf ==
  ASSUME NEW s, NEW T, NEW V
  PROVE  AuditCount(s, T, V) = RowCount(toolCalls[s], T, V)
BY DEF AuditCount, RowCount
-----------------------------------------------------------------------------
(* The initial state, and steps that write neither rows nor artefacts *)

LEMMA InitLInv == Init => LInv
<1> SUFFICES ASSUME Init PROVE LInv
  OBVIOUS
<1>1. \A s \in Sessions : toolCalls[s] = <<>>
  BY DEF Init
<1>2. \A s \in Sessions : \A T, V : AuditCount(s, T, V) = 0
  <2> TAKE s \in Sessions
  <2> TAKE T, V
  <2>1. DOMAIN toolCalls[s] = {}
    BY <1>1
  <2>2. {i \in DOMAIN toolCalls[s] :
           toolCalls[s][i].tool \in T /\ toolCalls[s][i].verdict \in V} = {}
    BY <2>1
  <2> QED
    BY <2>2, FS_EmptySet DEF AuditCount
<1>3. \A s \in Sessions, k \in Artefacts : artefacts[s][k] = 0
  BY DEF Init
<1>4. ArtefactsAudited
  BY <1>2, <1>3 DEF ArtefactsAudited, Artefacts
<1>5. \A p \in Handlers : calls[p].phase = "idle"
  BY DEF Init, IdleCall
<1>6. \A s \in Sessions : DOMAIN toolCalls[s] = {}
  BY <1>1
<1> QED
  BY <1>4, <1>5, <1>6 DEF LInv, Books, Durable

LEMMA SameCounts ==
  ASSUME LInv, UNCHANGED <<artefacts, toolCalls>>
  PROVE  ArtefactsAudited'
<1>1. \A s \in Sessions : \A T, V : AuditCount(s, T, V)' = AuditCount(s, T, V)
  BY DEF AuditCount
<1> QED
  BY <1>1 DEF LInv, ArtefactsAudited

LEMMA LCallStep ==
  ASSUME IInv, LInv, NEW p \in Handlers, NEW c,
         calls' = [calls EXCEPT ![p] = c], UNCHANGED <<artefacts, toolCalls>>,
         Books(c), KeysApart => Durable(c)
  PROVE  LInv'
<1>1. \A r \in Handlers : calls'[r] = IF r = p THEN c ELSE calls[r]
  BY DEF IInv, TypeOK
<1>2. ArtefactsAudited'
  BY SameCounts
<1>3. \A r \in Handlers : Books(calls[r])'
  BY <1>1 DEF LInv, Books
<1>4. KeysApart => \A r \in Handlers : Durable(calls[r])'
  BY <1>1, SMTT(30) DEF LInv, Durable, Stored
<1> QED
  BY <1>2, <1>3, <1>4 DEF LInv, GoodRow, KeysApart

LEMMA LQuietStep ==
  ASSUME LInv, UNCHANGED <<artefacts, toolCalls, calls>>
  PROVE  LInv'
<1>1. ArtefactsAudited'
  BY SameCounts
<1> QED
  BY <1>1 DEF LInv, Books, Durable, Stored, GoodRow, KeysApart

\* An answer given.
LEMMA LAnswerStep ==
  ASSUME IInv, LInv, NEW p \in Handlers, NEW q, NEW rep,
         calls' = [calls EXCEPT ![p] = AnsweredCall(q, rep)],
         UNCHANGED <<artefacts, toolCalls>>, Asked(q),
         q.tool = "escalate" => rep.outcome \in HandoffOutcomes,
         KeysApart => rep.outcome \in Refusals \/ Stored(q, rep)
  PROVE  LInv'
<1> DEFINE c == AnsweredCall(q, rep)
<1>1. c.phase = "answered" /\ c.req = q /\ c.reply = rep
  BY DEF AnsweredCall, IdleCall
<1>2. Books(c) /\ (KeysApart => Durable(c))
  BY <1>1 DEF Books, Durable
<1>3. calls' = [calls EXCEPT ![p] = c]
  OBVIOUS
<1> HIDE DEF c
<1> QED
  BY <1>2, <1>3, LCallStep
-----------------------------------------------------------------------------
(* Requests arrive *)

LEMMA AskedOK ==
  ASSUME TypeOK, NEW s \in Sessions, NEW t \in Tools, NEW q \in RequestsFor(s, t)
  PROVE  Asked(q) /\ q.session \in Sessions /\ q.tool \in Tools
<1>1. q \in Requests /\ q.tool = t
  BY RequestsForOK
<1>2. q.key \in KeysFor[t]
  BY DEF RequestsFor
<1> QED
  BY <1>1, <1>2 DEF Asked, Requests

\* A live session is never refused a hand-off.
LEMMA HandoffRefusals ==
  ASSUME NEW row \in SessionRows \cup {None}, Refusal(row, "escalate") # "none"
  PROVE  Refusal(row, "escalate") \in {"session_closed", "session_not_found"}
<1>1. CASE row = None
  BY <1>1 DEF Refusal
<1>2. CASE row # None
  <2>1. row.state \in States
    BY <1>2 DEF SessionRows
  <2>2. StateRefusal(row.state, "escalate") \in {"none", "session_closed"}
    BY <2>1 DEF StateRefusal, ExpectedStates, LiveStates, Tools
  <2> QED
    BY <1>2, <2>2 DEF Refusal
<1> QED
  BY <1>1, <1>2

LEMMA LArriveStep ==
  ASSUME IInv, LInv, NEW p \in Handlers, Arrive(p)
  PROVE  LInv'
<1>1. PICK s \in Sessions, t \in Tools :
        \E q \in RequestsFor(s, t) : ReplayCall(p, q) \/ RefuseCall(p, q) \/ LoadCall(p, q)
  BY DEF Arrive
<1>2. PICK q \in RequestsFor(s, t) : ReplayCall(p, q) \/ RefuseCall(p, q) \/ LoadCall(p, q)
  BY <1>1
<1>3. Asked(q) /\ q.session \in Sessions /\ q.tool \in Tools
  BY AskedOK DEF IInv
<1>4. CASE ReplayCall(p, q)
  <2>1. PICK i \in PriorRows(q) :
          calls' = [calls EXCEPT ![p] = AnsweredCall(q, toolCalls[q.session][i].reply)]
    BY <1>4 DEF ReplayCall
  <2>2. /\ i \in DOMAIN toolCalls[q.session]
        /\ toolCalls[q.session][i].tool = q.tool /\ toolCalls[q.session][i].key = q.key
    BY <2>1 DEF PriorRows
  <2>3. GoodRow(toolCalls[q.session][i]) /\ Stored(q, toolCalls[q.session][i].reply)
    BY <1>3, <2>2 DEF LInv, Stored
  <2>4. UNCHANGED <<artefacts, toolCalls>>
    BY <1>4 DEF ReplayCall
  <2> QED
    BY <1>3, <2>1, <2>2, <2>3, <2>4, LAnswerStep DEF GoodRow
<1>5. CASE RefuseCall(p, q)
  <2> DEFINE row == sessions[q.session]
             rep == Reply(Refusal(row, q.tool), IF row = None THEN "none" ELSE row.state)
  <2>1. row \in SessionRows \cup {None}
    BY <1>3 DEF IInv, TypeOK
  <2>2. /\ Refusal(row, q.tool) # "none"
        /\ calls' = [calls EXCEPT ![p] = AnsweredCall(q, rep)]
        /\ UNCHANGED <<artefacts, toolCalls>>
    BY <1>5 DEF RefuseCall
  <2>3. rep.outcome = Refusal(row, q.tool)
    BY DEF Reply
  <2>4. rep.outcome \in Refusals
    BY <2>2, <2>3, RefusalOK
  <2>5. q.tool = "escalate" => rep.outcome \in HandoffOutcomes
    BY <2>1, <2>2, <2>3, HandoffRefusals
  <2> HIDE DEF rep
  <2> QED
    BY <1>3, <2>2, <2>4, <2>5, LAnswerStep
<1>6. CASE LoadCall(p, q)
  <2> DEFINE c == LoadedCall(q, sessions[q.session])
  <2>1. calls' = [calls EXCEPT ![p] = c] /\ UNCHANGED <<artefacts, toolCalls>>
    BY <1>6 DEF LoadCall
  <2>2. c.phase = "loaded" /\ c.req = q /\ c.adds = {} /\ c.issue = None
    BY DEF LoadedCall, IdleCall
  <2>3. Books(c) /\ Durable(c)
    BY <1>3, <2>2 DEF Books, Durable
  <2> HIDE DEF c
  <2> QED
    BY <2>1, <2>3, LCallStep
<1> QED
  BY <1>2, <1>4, <1>5, <1>6
-----------------------------------------------------------------------------
(* The handlers at work *)

\* A handler builds its response, from a record b with its own request.
LEMMA LReadyStep ==
  ASSUME IInv, LInv, NEW p \in Handlers, calls[p].phase # "idle",
         NEW b \in CallRecords, b.req = calls[p].req,
         NEW row, NEW adds, NEW outcome, NEW verdict,
         Matches(adds, b.req.tool, verdict),
         b.req.tool = "escalate" => outcome = "ok",
         calls' = [calls EXCEPT ![p] = ReadyCall(b, row, adds, outcome, verdict)],
         UNCHANGED <<artefacts, toolCalls>>
  PROVE  LInv'
<1> DEFINE c == ReadyCall(b, row, adds, outcome, verdict)
<1>1. /\ c.phase = "ready" /\ c.req = b.req /\ c.adds = adds /\ c.verdict = verdict
      /\ c.reply = Reply(outcome, row.state)
  BY DEF ReadyCall, CallRecords
<1>2. c.reply.outcome = outcome
  BY <1>1 DEF Reply
<1>3. Asked(b.req)
  BY DEF LInv, Books
<1>4. Books(c) /\ Durable(c)
  BY <1>1, <1>2, <1>3 DEF Books, Durable
<1>5. calls' = [calls EXCEPT ![p] = c]
  OBVIOUS
<1> HIDE DEF c
<1> QED
  BY <1>4, <1>5, LCallStep

\* A handler stages what it will flush.
LEMMA LStagedStep ==
  ASSUME IInv, LInv, NEW p \in Handlers, calls[p].phase # "idle",
         NEW c, c.phase = "staged", c.req = calls[p].req,
         c.issue # None => c.req.tool \in {"verify_identity", "resend_otp"},
         Matches(c.adds, c.req.tool, "none"),
         calls' = [calls EXCEPT ![p] = c], UNCHANGED <<artefacts, toolCalls>>
  PROVE  LInv'
<1>1. Asked(c.req)
  BY DEF LInv, Books
<1>2. Books(c) /\ Durable(c)
  BY <1>1 DEF Books, Durable
<1> QED
  BY <1>2, LCallStep

\* transition() refuses the move, but never that of a hand-off.
LEMMA LRefusedMoveStep ==
  ASSUME IInv, LInv, NEW p \in Handlers, calls[p].phase # "idle",
         calls[p].req.tool # "escalate",
         calls' = [calls EXCEPT ![p] = AnsweredCall(calls[p].req,
                     Reply("invalid_transition", calls[p].sess.state))],
         UNCHANGED <<artefacts, toolCalls>>
  PROVE  LInv'
<1> DEFINE rep == Reply("invalid_transition", calls[p].sess.state)
<1>1. rep.outcome = "invalid_transition"
  BY DEF Reply
<1>2. Asked(calls[p].req) /\ rep.outcome \in Refusals
  BY <1>1 DEF LInv, Books, Refusals
<1>3. calls' = [calls EXCEPT ![p] = AnsweredCall(calls[p].req, rep)]
  OBVIOUS
<1> HIDE DEF rep
<1> QED
  BY <1>2, <1>3, LAnswerStep

\* The handlers that write nothing but the session and its passcodes.
LEMMA NothingToAdd ==
  ASSUME NEW v, NEW t \in {"verify_identity", "verify_otp", "resend_otp"}
  PROVE  Matches({}, t, v)
BY DEF Matches

\* What LInv and the types tell of a handler at work.
LEMMA LWorking ==
  ASSUME IInv, LInv, NEW p \in Handlers, NEW t \in Tools, Working(p, t)
  PROVE  /\ calls[p].phase = "loaded" /\ calls[p].phase # "idle"
         /\ calls[p].req.tool = t /\ calls[p].adds = {} /\ calls[p].issue = None
         /\ calls[p] \in CallRecords
<1>1. calls[p].phase = "loaded" /\ calls[p].req.tool = t
  BY DEF Working
<1> QED
  BY <1>1 DEF LInv, Books, IInv, TypeOK

LEMMA LVerifyIdentityStep ==
  ASSUME IInv, LInv, NEW p \in Handlers,
         VerifyIdentityMatched(p) \/ VerifyIdentityUnknown(p) \/ VerifyIdentityFailed(p)
  PROVE  LInv'
<1> DEFINE c == calls[p]
<1>0. Working(p, "verify_identity") /\ "verify_identity" \in Tools
  BY DEF VerifyIdentityMatched, VerifyIdentityUnknown, VerifyIdentityFailed, Tools
<1>1. /\ c.phase # "idle" /\ c.req.tool = "verify_identity"
      /\ c.adds = {} /\ c \in CallRecords
  BY <1>0, LWorking
<1>2. \A v : Matches({}, c.req.tool, v)
  BY <1>1, NothingToAdd
<1>3. CASE VerifyIdentityMatched(p)
  <2> DEFINE cust == c.req.claim.pan
             row  == [c.sess EXCEPT !.customer = cust, !.state = "identity_matched"]
             stop == IssueLimit(row, cust, FALSE)
  <2>1. ASSUME ~CanMove(c.sess.state, row.state) PROVE LInv'
    BY <1>1, <1>3, <2>1, LRefusedMoveStep DEF VerifyIdentityMatched, Proceed
  <2>2. ASSUME CanMove(c.sess.state, row.state), stop # "none" PROVE LInv'
    <3>1. /\ calls' = [calls EXCEPT ![p] = ReadyCall(c, row, {}, "blocked", stop)]
          /\ UNCHANGED <<artefacts, toolCalls>>
      BY <1>3, <2>2 DEF VerifyIdentityMatched, Proceed
    <3> HIDE DEF row, stop
    <3> QED
      BY <1>1, <1>2, <3>1, LReadyStep
  <2>3. ASSUME CanMove(c.sess.state, row.state), stop = "none" PROVE LInv'
    <3>1. PICK prev : /\ calls' = [calls EXCEPT ![p] = Issuing(p, row, cust, prev)]
                      /\ UNCHANGED <<artefacts, toolCalls>>
      BY <1>3, <2>3 DEF VerifyIdentityMatched, Proceed
    <3> DEFINE d == Issuing(p, row, cust, prev)
    <3>2. d.phase = "staged" /\ d.req = c.req /\ d.adds = {}
      BY <1>1 DEF Issuing, CallRecords
    <3>3. calls' = [calls EXCEPT ![p] = d] /\ UNCHANGED <<artefacts, toolCalls>>
      BY <3>1
    <3>4. d.req.tool = "verify_identity" /\ Matches(d.adds, d.req.tool, "none")
      BY <1>1, <1>2, <3>2
    <3> HIDE DEF d
    <3> QED
      BY <1>1, <3>2, <3>3, <3>4, LStagedStep
  <2> QED
    BY <2>1, <2>2, <2>3
<1>4. CASE VerifyIdentityUnknown(p)
  <2> DEFINE row == [c.sess EXCEPT !.state = "prospect"]
  <2>1. ASSUME ~CanMove(c.sess.state, row.state) PROVE LInv'
    BY <1>1, <1>4, <2>1, LRefusedMoveStep DEF VerifyIdentityUnknown, Proceed
  <2>2. ASSUME CanMove(c.sess.state, row.state) PROVE LInv'
    <3>1. /\ calls' = [calls EXCEPT ![p] =
                         ReadyCall(c, row, {}, "not_registered", "pan_not_found")]
          /\ UNCHANGED <<artefacts, toolCalls>>
      BY <1>4, <2>2 DEF VerifyIdentityUnknown, Proceed
    <3> HIDE DEF row
    <3> QED
      BY <1>1, <1>2, <3>1, LReadyStep
  <2> QED
    BY <2>1, <2>2
<1>5. CASE VerifyIdentityFailed(p)
  <2>1. PICK row, outcome, verdict :
          /\ calls' = [calls EXCEPT ![p] = ReadyCall(c, row, {}, outcome, verdict)]
          /\ UNCHANGED <<artefacts, toolCalls>>
    BY <1>5 DEF VerifyIdentityFailed, Stay
  <2> QED
    BY <1>1, <1>2, <2>1, LReadyStep
<1> QED
  BY <1>3, <1>4, <1>5

LEMMA LVerifyOtpStep ==
  ASSUME IInv, LInv, NEW p \in Handlers, VerifyOtpUnchecked(p) \/ VerifyOtpChecked(p)
  PROVE  LInv'
<1> DEFINE c == calls[p]
<1>0. Working(p, "verify_otp") /\ "verify_otp" \in Tools
  BY DEF VerifyOtpUnchecked, VerifyOtpChecked, Tools
<1>1. /\ c.phase # "idle" /\ c.req.tool = "verify_otp" /\ c \in CallRecords
  BY <1>0, LWorking
<1>2. \A v : Matches({}, c.req.tool, v)
  BY <1>1, NothingToAdd
<1>3. CASE VerifyOtpUnchecked(p)
  <2>1. PICK outcome, verdict :
          /\ calls' = [calls EXCEPT ![p] = ReadyCall(c, c.sess, {}, outcome, verdict)]
          /\ UNCHANGED <<artefacts, toolCalls>>
    BY <1>3 DEF VerifyOtpUnchecked, Stay
  <2> QED
    BY <1>1, <1>2, <2>1, LReadyStep
<1>4. CASE VerifyOtpChecked(p)
  <2>1. PICK i \in DOMAIN challenges :
          LET tries == challenges[i].attempts + 1
              hit   == c.req.code = i
              row   == [c.sess EXCEPT !.state = "identity_verified"]
              try   == [c EXCEPT !.guess = [id |-> i, attempts |-> tries, ok |-> hit]]
          IN IF hit
             THEN Proceed(p, row.state, ReadyCall(try, row, {}, "ok", "ok"))
             ELSE IF tries >= MaxVerifyAttempts
             THEN Stay(p, ReadyCall(try, c.sess, {}, "blocked", "attempts_exhausted"))
             ELSE Stay(p, ReadyCall(try, c.sess, {}, "retry", "wrong_code"))
    BY <1>4 DEF VerifyOtpChecked
  <2> DEFINE tries == challenges[i].attempts + 1
             hit   == c.req.code = i
             row   == [c.sess EXCEPT !.state = "identity_verified"]
             try   == [c EXCEPT !.guess = [id |-> i, attempts |-> tries, ok |-> hit]]
  <2>2. try \in CallRecords /\ try.req = c.req
    <3>1. challenges[i].attempts \in Nat /\ i \in Nat
      BY DEF IInv, TypeOK, ChallengeRows
    <3>2. [id |-> i, attempts |-> tries, ok |-> hit] \in Guesses
      BY <3>1 DEF Guesses
    <3> HIDE DEF tries, hit
    <3> QED
      BY <1>1, <3>2 DEF CallRecords
  <2>3. /\ UNCHANGED <<artefacts, toolCalls>>
        /\ \/ \E rw, outcome, verdict :
                calls' = [calls EXCEPT ![p] = ReadyCall(try, rw, {}, outcome, verdict)]
           \/ calls' = [calls EXCEPT ![p] = AnsweredCall(c.req,
                          Reply("invalid_transition", c.sess.state))]
    BY <2>1 DEF Proceed, Stay
  <2> HIDE DEF try
  <2> QED
    BY <1>1, <1>2, <2>2, <2>3, LReadyStep, LRefusedMoveStep
<1> QED
  BY <1>3, <1>4

LEMMA LResendOtpStep ==
  ASSUME IInv, LInv, NEW p \in Handlers, ResendOtp(p)
  PROVE  LInv'
<1> DEFINE c == calls[p]
<1>0. Working(p, "resend_otp") /\ "resend_otp" \in Tools
  BY DEF ResendOtp, Tools
<1>1. /\ c.phase # "idle" /\ c.req.tool = "resend_otp" /\ c \in CallRecords /\ c.adds = {}
  BY <1>0, LWorking
<1>2. \A v : Matches({}, c.req.tool, v)
  BY <1>1, NothingToAdd
<1>3. CASE IssueLimit(c.sess, c.sess.customer, TRUE) # "none"
  <2>1. PICK verdict :
          /\ calls' = [calls EXCEPT ![p] = ReadyCall(c, c.sess, {}, "blocked", verdict)]
          /\ UNCHANGED <<artefacts, toolCalls>>
    BY <1>3 DEF ResendOtp, Stay
  <2> QED
    BY <1>1, <1>2, <2>1, LReadyStep
<1>4. CASE IssueLimit(c.sess, c.sess.customer, TRUE) = "none"
  <2>1. PICK prev : /\ calls' = [calls EXCEPT ![p] = Issuing(p, c.sess, c.sess.customer, prev)]
                    /\ UNCHANGED <<artefacts, toolCalls>>
    BY <1>4 DEF ResendOtp, Stay
  <2> DEFINE d == Issuing(p, c.sess, c.sess.customer, prev)
  <2>2. d.phase = "staged" /\ d.req = c.req /\ d.adds = {}
    BY <1>1 DEF Issuing, CallRecords
  <2>3. calls' = [calls EXCEPT ![p] = d] /\ UNCHANGED <<artefacts, toolCalls>>
    BY <2>1
  <2>4. d.req.tool = "resend_otp" /\ Matches(d.adds, d.req.tool, "none")
    BY <1>1, <1>2, <2>2
  <2> HIDE DEF d
  <2> QED
    BY <1>1, <2>2, <2>3, <2>4, LStagedStep
<1> QED
  BY <1>3, <1>4

LEMMA LCaptureLeadStep ==
  ASSUME IInv, LInv, NEW p \in Handlers, CaptureLead(p)
  PROVE  LInv'
<1> DEFINE row == [calls[p].sess EXCEPT !.state = "lead_captured"]
           d == [calls[p] EXCEPT !.phase = "staged", !.sess = row, !.adds = {"lead", "link"}]
<1>0. Working(p, "capture_lead") /\ "capture_lead" \in Tools
  BY DEF CaptureLead, Tools
<1>1. /\ calls[p].phase # "idle" /\ calls[p].req.tool = "capture_lead"
      /\ calls[p].issue = None /\ calls[p] \in CallRecords
  BY <1>0, LWorking
<1>2. CASE ~CanMove(calls[p].sess.state, row.state)
  BY <1>1, <1>2, LRefusedMoveStep DEF CaptureLead, Proceed
<1>3. CASE CanMove(calls[p].sess.state, row.state)
  <2>1. calls' = [calls EXCEPT ![p] = d] /\ UNCHANGED <<artefacts, toolCalls>>
    BY <1>3 DEF CaptureLead, Proceed
  <2>2. /\ d.phase = "staged" /\ d.req = calls[p].req /\ d.issue = None
        /\ d.adds = {"lead", "link"}
    BY <1>1 DEF CallRecords
  <2>3. Matches(d.adds, d.req.tool, "none")
    BY <1>1, <2>2 DEF Matches
  <2> HIDE DEF d
  <2> QED
    BY <1>1, <2>1, <2>2, <2>3, LStagedStep
<1> QED
  BY <1>2, <1>3

LEMMA LCheckEligibilityStep ==
  ASSUME IInv, LInv, NEW p \in Handlers, CheckEligibility(p)
  PROVE  LInv'
<1> DEFINE c == calls[p]
           row == [c.sess EXCEPT !.state = "eligibility_assessed"]
<1>0. Working(p, "check_eligibility") /\ "check_eligibility" \in Tools
  BY DEF CheckEligibility, Tools
<1>1. c.phase # "idle" /\ c.req.tool = "check_eligibility" /\ c \in CallRecords
  BY <1>0, LWorking
<1>2. CASE ~CanMove(c.sess.state, row.state)
  BY <1>1, <1>2, LRefusedMoveStep DEF CheckEligibility, Proceed
<1>3. CASE CanMove(c.sess.state, row.state)
  <2>1. PICK outcome, verdict :
          /\ calls' = [calls EXCEPT ![p] = ReadyCall(c, row, {"assessment"}, outcome, verdict)]
          /\ UNCHANGED <<artefacts, toolCalls>>
    BY <1>3 DEF CheckEligibility, Proceed
  <2>2. Matches({"assessment"}, c.req.tool, verdict)
    BY <1>1 DEF Matches
  <2> HIDE DEF row
  <2> QED
    BY <1>1, <2>1, <2>2, LReadyStep
<1> QED
  BY <1>2, <1>3

LEMMA LRecordConsentStep ==
  ASSUME IInv, LInv, NEW p \in Handlers, RecordConsent(p)
  PROVE  LInv'
<1> DEFINE c == calls[p]
           row == [c.sess EXCEPT !.state = "completed"]
<1>0. Working(p, "record_consent") /\ "record_consent" \in Tools
  BY DEF RecordConsent, Tools
<1>1. c.phase # "idle" /\ c.req.tool = "record_consent" /\ c \in CallRecords
  BY <1>0, LWorking
<1>2. CASE c.req.choice = "granted" /\ ~CanMove(c.sess.state, "consent_recorded")
  BY <1>1, <1>2, LRefusedMoveStep DEF RecordConsent, Proceed
<1>3. CASE c.req.choice = "granted" /\ CanMove(c.sess.state, "consent_recorded")
  <2>1. /\ calls' = [calls EXCEPT ![p] = ReadyCall(c, row, {"granted"}, "ok", "granted")]
        /\ UNCHANGED <<artefacts, toolCalls>>
    BY <1>3 DEF RecordConsent, Proceed
  <2>2. Matches({"granted"}, c.req.tool, "granted")
    BY <1>1 DEF Matches
  <2> HIDE DEF row
  <2> QED
    BY <1>1, <2>1, <2>2, LReadyStep
<1>4. CASE c.req.choice # "granted"
  <2>1. /\ calls' = [calls EXCEPT ![p] =
                       ReadyCall(c, c.sess, {"refused"}, "declined", "refused")]
        /\ UNCHANGED <<artefacts, toolCalls>>
    BY <1>4 DEF RecordConsent, Stay
  <2>2. Matches({"refused"}, c.req.tool, "refused")
    BY <1>1 DEF Matches
  <2> QED
    BY <1>1, <2>1, <2>2, LReadyStep
<1> QED
  BY <1>2, <1>3, <1>4

\* Every live state has an edge to escalated.
LEMMA LiveMayEscalate == \A st \in LiveStates : CanMove(st, "escalated")
BY DEF LiveStates, States, TerminalStates, CanMove, AllowedTransitions

LEMMA LEscalateStep ==
  ASSUME IInv, LInv, NEW p \in Handlers, Escalate(p)
  PROVE  LInv'
<1> DEFINE c == calls[p]
           row == [c.sess EXCEPT !.state = "escalated"]
<1>0. Working(p, "escalate") /\ "escalate" \in Tools
  BY DEF Escalate, Tools
<1>1. c.phase # "idle" /\ c.req.tool = "escalate" /\ c \in CallRecords
  BY <1>0, LWorking
<1>2. c.sess.state \in LiveStates /\ c.sess \in SessionRows
  BY <1>0, LoadedState DEF ExpectedStates
<1>3. row.state = "escalated" /\ CanMove(c.sess.state, row.state)
  BY <1>2, LiveMayEscalate DEF SessionRows
<1>4. /\ calls' = [calls EXCEPT ![p] = ReadyCall(c, row, {"ticket"}, "ok", "none")]
      /\ UNCHANGED <<artefacts, toolCalls>>
  BY <1>3 DEF Escalate, Proceed
<1>5. Matches({"ticket"}, c.req.tool, "none")
  BY <1>1 DEF Matches
<1> HIDE DEF row
<1> QED
  BY <1>1, <1>4, <1>5, LReadyStep
-----------------------------------------------------------------------------
(* Messages *)

\* A request that has staged its writes goes on with the same ones.
LEMMA LFlushStep ==
  ASSUME IInv, LInv, NEW p \in Handlers, calls[p].phase = "staged",
         NEW c, c.phase = "sending", c.req = calls[p].req, c.issue = calls[p].issue,
         c.adds = calls[p].adds,
         calls' = [calls EXCEPT ![p] = c], UNCHANGED <<artefacts, toolCalls>>
  PROVE  LInv'
<1>1. Books(calls[p])
  BY DEF LInv
<1>2. Books(c) /\ Durable(c)
  BY <1>1 DEF Books, Durable
<1> QED
  BY <1>2, LCallStep

LEMMA LSendStep ==
  ASSUME IInv, LInv, NEW p \in Handlers, Send(p)
  PROVE  LInv'
<1> DEFINE c == calls[p]
<1>1. c \in CallRecords /\ Books(c)
  BY DEF IInv, TypeOK, LInv
<1>2. CASE FlushLink(p)
  <2> DEFINE d == [c EXCEPT !.phase = "sending", !.written = WritesSession(c)]
  <2>1. /\ c.phase = "staged" /\ calls' = [calls EXCEPT ![p] = d]
        /\ UNCHANGED <<artefacts, toolCalls>>
    BY <1>2 DEF FlushLink, Stay
  <2>2. d.phase = "sending" /\ d.req = c.req /\ d.issue = c.issue /\ d.adds = c.adds
    BY <1>1 DEF CallRecords
  <2> HIDE DEF d
  <2> QED
    BY <2>1, <2>2, LFlushStep
<1>3. CASE FlushChallenge(p)
  <2> DEFINE f == [c EXCEPT !.newId = lastId + 1, !.newAt = now,
                            !.written = WritesSession(c)]
             d == [f EXCEPT !.phase = "sending"]
  <2>1. c.phase = "staged" /\ c.issue # None /\ UNCHANGED <<artefacts, toolCalls>>
    BY <1>3 DEF FlushChallenge
  <2>2. /\ f \in CallRecords /\ f.req = c.req
        /\ d.phase = "sending" /\ d.req = c.req /\ d.issue = c.issue /\ d.adds = c.adds
    <3>1. lastId + 1 \in Nat /\ now \in Nat
      BY DEF IInv, TypeOK
    <3> QED
      BY <1>1, <3>1 DEF CallRecords, WritesSession
  <2>3. c.req.tool \in {"verify_identity", "resend_otp"}
    BY <1>1, <2>1 DEF Books
  <2>4. CASE c.issue \in Addressed
    <3>1. calls' = [calls EXCEPT ![p] = d]
      BY <1>3, <2>4 DEF FlushChallenge
    <3> HIDE DEF d
    <3> QED
      BY <2>1, <2>2, <3>1, LFlushStep
  <2>5. CASE c.issue \notin Addressed
    <3>1. calls' = [calls EXCEPT ![p] = ReadyCall(f, c.sess, {}, "error", "delivery_failed")]
      BY <1>3, <2>5 DEF FlushChallenge
    <3>2. Matches({}, f.req.tool, "delivery_failed") /\ f.req.tool # "escalate"
      BY <2>2, <2>3, NothingToAdd
    <3> HIDE DEF f
    <3> QED
      BY <2>1, <2>2, <3>1, <3>2, LReadyStep
  <2> QED
    BY <2>4, <2>5
<1>4. CASE PasscodeDelivered(p) \/ PasscodeUndelivered(p)
  <2>1. c.phase = "sending" /\ c.issue # None
    BY <1>4 DEF PasscodeDelivered, PasscodeUndelivered
  <2>2. c.req.tool \in {"verify_identity", "resend_otp"}
    BY <1>1, <2>1 DEF Books
  <2>3. PICK row, outcome, verdict :
          /\ calls' = [calls EXCEPT ![p] = ReadyCall(c, row, {}, outcome, verdict)]
          /\ UNCHANGED <<artefacts, toolCalls>>
    BY <1>4 DEF PasscodeDelivered, PasscodeUndelivered, Stay
  <2>4. Matches({}, c.req.tool, verdict)
    BY <2>2, NothingToAdd
  <2> QED
    BY <1>1, <2>1, <2>2, <2>3, <2>4, LReadyStep
<1>5. CASE LinkEmailed(p)
  <2>1. PICK verdict \in {"sent", "delivery_failed"} :
          /\ calls' = [calls EXCEPT ![p] = ReadyCall(c, c.sess, c.adds, "ok", verdict)]
          /\ UNCHANGED <<artefacts, toolCalls>>
    BY <1>5 DEF LinkEmailed, Stay
  <2>2. c.phase = "sending"
    BY <1>5 DEF LinkEmailed
  <2>3. Matches(c.adds, c.req.tool, verdict)
    BY <1>1, <2>2 DEF Books, Matches
  <2> QED
    BY <1>1, <2>1, <2>2, <2>3, LReadyStep
<1>6. CASE WriteSession(p)
  <2>1. PICK d : d = Written(c) /\ calls' = [calls EXCEPT ![p] = d]
    BY <1>6 DEF WriteSession, Stay
  <2>2. /\ d.phase = c.phase /\ d.req = c.req /\ d.issue = c.issue /\ d.adds = c.adds
        /\ d.verdict = c.verdict /\ d.reply = c.reply
    BY <1>1, <2>1, WrittenOK
  <2>3. c.phase # "answered" /\ UNCHANGED <<artefacts, toolCalls>>
    BY <1>6 DEF WriteSession, Stay
  <2>4. Books(d) /\ Durable(d)
    BY <1>1, <2>2, <2>3 DEF Books, Durable
  <2> QED
    BY <2>1, <2>3, <2>4, LCallStep
<1> QED
  BY <1>2, <1>3, <1>4, <1>5, <1>6 DEF Send
-----------------------------------------------------------------------------
(* The commit, and the duplicate that is not committed *)

\* A committed row and the artefacts that come with it keep the counts equal.
LEMMA CommitBalances ==
  ASSUME IInv, LInv, NEW s \in Sessions, NEW entry \in AuditRows, NEW adds,
         Matches(adds, entry.tool, entry.verdict),
         \A t \in Sessions : toolCalls'[t] = IF t = s THEN Append(toolCalls[s], entry)
                                             ELSE toolCalls[t],
         \A t \in Sessions : \A k \in Artefacts :
           artefacts'[t][k] = IF t = s /\ k \in adds THEN artefacts[t][k] + 1
                              ELSE artefacts[t][k]
  PROVE  ArtefactsAudited'
<1> DEFINE Before(t, T, V) == RowCount(toolCalls[t], T, V)
           After(t, T, V) == RowCount(toolCalls'[t], T, V)
<1>1. ASSUME NEW t \in Sessions, NEW T, NEW V
      PROVE  /\ Before(t, T, V) \in Nat
             /\ After(t, T, V) = IF t = s /\ entry.tool \in T /\ entry.verdict \in V
                                 THEN Before(t, T, V) + 1 ELSE Before(t, T, V)
  <2>1. toolCalls[t] \in Seq(AuditRows)
    BY DEF IInv, TypeOK
  <2>2. CASE t = s
    <3>1. toolCalls'[t] = Append(toolCalls[t], entry)
      BY <2>2
    <3> QED
      BY <2>1, <2>2, <3>1, CountAppend
  <2>3. CASE t # s
    BY <2>1, <2>3, CountAppend
  <2> QED
    BY <2>2, <2>3
<1>2. ASSUME NEW t \in Sessions
      PROVE  /\ artefacts[t]["ticket"] = Before(t, {"escalate"}, Verdicts)
             /\ artefacts[t]["lead"] = Before(t, {"capture_lead"}, Verdicts)
             /\ artefacts[t]["link"] = artefacts[t]["lead"]
             /\ artefacts[t]["assessment"] = Before(t, {"check_eligibility"}, Verdicts)
             /\ artefacts[t]["granted"] = Before(t, {"record_consent"}, {"granted"})
             /\ artefacts[t]["refused"] = Before(t, {"record_consent"}, {"refused"})
  BY CountOf DEF LInv, ArtefactsAudited
<1>3. entry.verdict \in Verdicts
  BY DEF AuditRows
<1> HIDE DEF Before, After
<1>4. ASSUME NEW t \in Sessions
      PROVE  /\ artefacts'[t]["ticket"] = After(t, {"escalate"}, Verdicts)
             /\ artefacts'[t]["lead"] = After(t, {"capture_lead"}, Verdicts)
             /\ artefacts'[t]["link"] = artefacts'[t]["lead"]
             /\ artefacts'[t]["assessment"] = After(t, {"check_eligibility"}, Verdicts)
             /\ artefacts'[t]["granted"] = After(t, {"record_consent"}, {"granted"})
             /\ artefacts'[t]["refused"] = After(t, {"record_consent"}, {"refused"})
  <2>1. \A k \in {"ticket", "lead", "link", "assessment", "granted", "refused"} :
          artefacts'[t][k] = IF t = s /\ k \in adds THEN artefacts[t][k] + 1
                             ELSE artefacts[t][k]
    BY DEF Artefacts
  <2>2. /\ artefacts'[t]["ticket"] = After(t, {"escalate"}, Verdicts)
        /\ artefacts'[t]["lead"] = After(t, {"capture_lead"}, Verdicts)
        /\ artefacts'[t]["link"] = artefacts'[t]["lead"]
    BY <1>1, <1>2, <1>3, <2>1 DEF Matches
  <2>3. /\ artefacts'[t]["assessment"] = After(t, {"check_eligibility"}, Verdicts)
        /\ artefacts'[t]["granted"] = After(t, {"record_consent"}, {"granted"})
        /\ artefacts'[t]["refused"] = After(t, {"record_consent"}, {"refused"})
    BY <1>1, <1>2, <1>3, <2>1 DEF Matches
  <2> QED
    BY <2>2, <2>3
<1> QED
  BY <1>4 DEF ArtefactsAudited, AuditCount, After, RowCount

\* A committed row is on file, and so is every earlier one.
LEMMA CommitKeeps ==
  ASSUME IInv, LInv, NEW s \in Sessions, NEW entry \in AuditRows, GoodRow(entry),
         \A t \in Sessions : toolCalls'[t] = IF t = s THEN Append(toolCalls[s], entry)
                                             ELSE toolCalls[t]
  PROVE  /\ \A t \in Sessions : \A i \in DOMAIN toolCalls[t] :
              i \in DOMAIN toolCalls'[t] /\ toolCalls'[t][i] = toolCalls[t][i]
         /\ \E i \in DOMAIN toolCalls'[s] : toolCalls'[s][i] = entry
         /\ \A t \in Sessions : \A i \in DOMAIN toolCalls'[t] : GoodRow(toolCalls'[t][i])
<1> DEFINE rows == toolCalls[s]
           n == Len(rows)
           more == Append(rows, entry)
<1>1. rows \in Seq(AuditRows) /\ n \in Nat /\ DOMAIN rows = 1..n
  BY DEF IInv, TypeOK
<1>2. /\ DOMAIN more = 1..(n + 1) /\ more[n + 1] = entry
      /\ \A i \in 1..n : more[i] = rows[i]
  BY <1>1
<1>3. toolCalls'[s] = more /\ \A t \in Sessions \ {s} : toolCalls'[t] = toolCalls[t]
  OBVIOUS
<1>4. \A t \in Sessions : \A i \in DOMAIN toolCalls[t] : GoodRow(toolCalls[t][i])
  BY DEF LInv
<1> HIDE DEF more
<1>5. \A i \in DOMAIN rows : i \in DOMAIN more /\ more[i] = rows[i]
  BY <1>1, <1>2
<1>6. \A i \in DOMAIN more : i = n + 1 \/ i \in DOMAIN rows
  BY <1>1, <1>2
<1>7. \A i \in DOMAIN more : GoodRow(more[i])
  BY <1>2, <1>4, <1>5, <1>6
<1>8. n + 1 \in DOMAIN more /\ more[n + 1] = entry
  BY <1>1, <1>2
<1> QED
  BY <1>3, <1>4, <1>5, <1>7, <1>8

LEMMA LRecordCallStep ==
  ASSUME IInv, LInv, NEW p \in Handlers, RecordCall(p)
  PROVE  LInv'
<1> DEFINE c == calls[p]
           s == c.req.session
           entry == [tool |-> c.req.tool, key |-> c.req.key,
                     verdict |-> c.verdict, reply |-> c.reply]
<1>1. /\ c.phase = "ready"
      /\ artefacts' = [artefacts EXCEPT ![s] =
                         [k \in Artefacts |-> IF k \in c.adds THEN artefacts[s][k] + 1
                                              ELSE artefacts[s][k]]]
      /\ toolCalls' = [toolCalls EXCEPT ![s] = Append(toolCalls[s], entry)]
      /\ calls' = [calls EXCEPT ![p] = AnsweredCall(c.req, c.reply)]
  BY DEF RecordCall
<1>2. /\ c \in CallRecords /\ GoodCall(c) /\ c.req \in Requests /\ s \in Sessions
      /\ Books(c) /\ Asked(c.req)
  BY <1>1, InFlightCall DEF LInv, Books
<1>3. entry \in AuditRows
  BY <1>1, <1>2 DEF GoodCall, AuditRows, CallRecords, Requests
<1>4. /\ entry.tool = c.req.tool /\ entry.key = c.req.key /\ entry.verdict = c.verdict
      /\ entry.reply = c.reply
  OBVIOUS
<1>5. \A t \in Sessions : toolCalls'[t] = IF t = s THEN Append(toolCalls[s], entry)
                                          ELSE toolCalls[t]
  BY <1>1, <1>2 DEF IInv, TypeOK
<1>6. \A t \in Sessions : \A k \in Artefacts :
        artefacts'[t][k] = IF t = s /\ k \in c.adds THEN artefacts[t][k] + 1
                           ELSE artefacts[t][k]
  BY <1>1, <1>2 DEF IInv, TypeOK
<1>7. Matches(c.adds, entry.tool, entry.verdict)
  BY <1>1, <1>2, <1>4 DEF Books
<1>8. GoodRow(entry)
  BY <1>1, <1>2, <1>4 DEF GoodRow, Asked, Books, Requests
<1> HIDE DEF entry
<1>9. ArtefactsAudited'
  <2> DEFINE adds == c.adds
             at == s
  <2>1. /\ at \in Sessions /\ entry \in AuditRows
        /\ Matches(adds, entry.tool, entry.verdict)
        /\ \A t \in Sessions : toolCalls'[t] = IF t = at THEN Append(toolCalls[at], entry)
                                                ELSE toolCalls[t]
        /\ \A t \in Sessions : \A k \in Artefacts :
             artefacts'[t][k] = IF t = at /\ k \in adds THEN artefacts[t][k] + 1
                                ELSE artefacts[t][k]
    BY <1>2, <1>3, <1>5, <1>6, <1>7
  <2> HIDE DEF adds, at
  <2> QED
    BY <2>1, CommitBalances
<1>10. /\ \A t \in Sessions : \A i \in DOMAIN toolCalls[t] :
            i \in DOMAIN toolCalls'[t] /\ toolCalls'[t][i] = toolCalls[t][i]
       /\ \E i \in DOMAIN toolCalls'[s] : toolCalls'[s][i] = entry
       /\ \A t \in Sessions : \A i \in DOMAIN toolCalls'[t] : GoodRow(toolCalls'[t][i])
  BY <1>2, <1>3, <1>5, <1>8, CommitKeeps
<1>11. \A r \in Handlers : calls'[r] = IF r = p THEN AnsweredCall(c.req, c.reply) ELSE calls[r]
  BY <1>1 DEF IInv, TypeOK
<1>12. LET d == AnsweredCall(c.req, c.reply)
       IN d.phase = "answered" /\ d.req = c.req /\ d.reply = c.reply
  BY DEF AnsweredCall, IdleCall
<1>13. ASSUME NEW r \in Handlers PROVE Books(calls[r])' /\ (KeysApart => Durable(calls[r])')
  <2>1. CASE r = p
    <3>1. PICK i \in DOMAIN toolCalls'[s] : toolCalls'[s][i] = entry
      BY <1>10
    <3>2. /\ calls'[r].phase = "answered" /\ calls'[r].req = c.req
          /\ calls'[r].reply = c.reply
      BY <1>11, <1>12, <2>1
    <3>3. Durable(calls[r])'
      BY <1>4, <3>1, <3>2 DEF Durable, Stored
    <3>4. Books(calls[r])'
      BY <1>1, <1>2, <3>2 DEF Books, Asked
    <3> QED
      BY <3>3, <3>4
  <2>2. CASE r # p
    <3>1. calls'[r] = calls[r] /\ Books(calls[r])
      BY <1>11, <2>2 DEF LInv
    <3>2. Books(calls[r])'
      BY <3>1 DEF Books, Asked
    <3>3. ASSUME KeysApart, calls[r].phase = "answered", calls[r].reply.outcome \notin Refusals
          PROVE  Stored(calls[r].req, calls[r].reply)'
      <4>1. Durable(calls[r]) /\ calls[r].req.session \in Sessions
        BY <3>1, <3>3 DEF LInv, Books, Asked, Requests
      <4>2. PICK i \in DOMAIN toolCalls[calls[r].req.session] :
              /\ toolCalls[calls[r].req.session][i].tool = calls[r].req.tool
              /\ toolCalls[calls[r].req.session][i].key = calls[r].req.key
              /\ toolCalls[calls[r].req.session][i].reply = calls[r].reply
        BY <3>3, <4>1 DEF Durable, Stored
      <4> QED
        BY <1>10, <3>1, <4>1, <4>2 DEF Stored
    <3> QED
      BY <3>1, <3>2, <3>3 DEF Durable
  <2> QED
    BY <2>1, <2>2
<1> QED
  BY <1>9, <1>10, <1>13 DEF LInv, KeysApart, GoodRow

LEMMA LSuppressDuplicateStep ==
  ASSUME IInv, LInv, NEW p \in Handlers, SuppressDuplicate(p)
  PROVE  LInv'
<1> DEFINE c == calls[p]
           s == c.req.session
<1>1. /\ c.phase = "ready" /\ KeyTaken(c.req) /\ Books(c) /\ Asked(c.req)
      /\ s \in Sessions /\ c.req.tool \in Tools
  BY DEF SuppressDuplicate, LInv, Books, Asked, Requests
<1>2. CASE \E i \in PriorRows(c.req) : Stay(p, AnsweredCall(c.req, toolCalls[s][i].reply))
  <2>1. PICK i \in PriorRows(c.req) : Stay(p, AnsweredCall(c.req, toolCalls[s][i].reply))
    BY <1>2
  <2>2. /\ i \in DOMAIN toolCalls[s]
        /\ toolCalls[s][i].tool = c.req.tool /\ toolCalls[s][i].key = c.req.key
    BY <2>1 DEF PriorRows
  <2>3. GoodRow(toolCalls[s][i]) /\ Stored(c.req, toolCalls[s][i].reply)
    BY <1>1, <2>2 DEF LInv, Stored
  <2> QED
    BY <1>1, <2>1, <2>2, <2>3, LAnswerStep DEF Stay, GoodRow
<1>3. CASE PriorRows(c.req) = {} /\ Stay(p, AnsweredCall(c.req, c.reply))
  <2>1. c.req.tool = "escalate" => c.reply.outcome \in HandoffOutcomes
    BY <1>1 DEF Books
  <2>2. ~KeysApart
    <3>1. PICK i \in DOMAIN toolCalls[s] : toolCalls[s][i].key = c.req.key
      BY <1>1 DEF KeyTaken
    <3>2. /\ toolCalls[s][i].tool # c.req.tool /\ c.req.key # None
          /\ GoodRow(toolCalls[s][i])
      BY <1>1, <1>3, <3>1 DEF PriorRows, KeyTaken, LInv
    <3> QED
      BY <1>1, <3>1, <3>2 DEF GoodRow, Asked, KeysApart
  <2> QED
    BY <1>1, <1>3, <2>1, <2>2, LAnswerStep DEF Stay
<1> QED
  BY <1>2, <1>3 DEF SuppressDuplicate

LEMMA LIdleStep ==
  ASSUME IInv, LInv, NEW p \in Handlers, Return(p) \/ Abort(p)
  PROVE  LInv'
<1>1. Stay(p, IdleCall)
  BY DEF Return, Abort
<1>2. Books(IdleCall) /\ Durable(IdleCall)
  BY DEF Books, Durable, IdleCall
<1> QED
  BY <1>1, <1>2, LCallStep DEF Stay

LEMMA NextLInv == IInv /\ LInv /\ [Next]_vars => LInv'
<1> SUFFICES ASSUME IInv, LInv, [Next]_vars PROVE LInv'
  OBVIOUS
<1>1. ASSUME NEW p \in Handlers, Arrive(p) PROVE LInv'
  BY <1>1, LArriveStep
<1>2. ASSUME NEW p \in Handlers, Work(p) PROVE LInv'
  BY <1>2, LVerifyIdentityStep, LVerifyOtpStep, LResendOtpStep, LCaptureLeadStep,
     LCheckEligibilityStep, LRecordConsentStep, LEscalateStep DEF Work
<1>3. ASSUME NEW p \in Handlers, Send(p) PROVE LInv'
  BY <1>3, LSendStep
<1>4. ASSUME NEW p \in Handlers, Finalize(p) PROVE LInv'
  BY <1>4, LRecordCallStep, LSuppressDuplicateStep DEF Finalize
<1>5. ASSUME NEW p \in Handlers, Return(p) \/ Abort(p) PROVE LInv'
  BY <1>5, LIdleStep
<1>6. CASE Tick \/ (\E s \in Sessions : StartSession(s)) \/ UNCHANGED vars
  BY <1>6, LQuietStep DEF Tick, StartSession, vars
<1> QED
  BY <1>1, <1>2, <1>3, <1>4, <1>5, <1>6 DEF Next
-----------------------------------------------------------------------------
(* The theorems *)

\* LInv holds in every reachable state.
THEOREM LedgerInvariance == Spec => []LInv
<1> QED
  BY InitLInv, NextLInv, Invariance, PTL DEF Spec

\* Every ticket, lead, link, assessment and consent has exactly one audit row,
\* however requests, retries and rollbacks overlap (tools.py:122-165).
THEOREM LedgerBalances == Spec => []ArtefactsAudited
<1>1. LInv => ArtefactsAudited
  BY DEF LInv
<1> QED
  BY <1>1, LedgerInvariance, PTL

\* A hand-off is refused only because the call is over, or unknown, whatever else
\* is in flight (tools.py:669-714).
THEOREM HandoffHolds == Spec => []EscalationAvailable
<1>1. LInv => EscalationAvailable
  BY DEF LInv, Books, EscalationAvailable
<1> QED
  BY <1>1, LedgerInvariance, PTL

\* What the caller was told is on file, as long as no key is used with two tools
\* (tools.py:134-138, 152-161).
THEOREM AnswersAreDurable ==
  ASSUME KeysApart PROVE Spec => []AnswerDurable
<1>1. LInv => AnswerDurable
  BY DEF LInv, Durable, Stored, AnswerDurable
<1> QED
  BY <1>1, LedgerInvariance, PTL
-----------------------------------------------------------------------------
(* Row locks.  Requests keep rows locked while they send, and others come to *)
(* a write and wait, perhaps with a row of their own in hand.  The argument: *)
(* who holds the session row waits for nothing but a challenge, and only a   *)
(* resend of that session keeps a challenge without its session row; a       *)
(* resend waits for nothing but the session row once it has its challenge.   *)
(* So what waits in a circle is a pair of requests of one session, a         *)
(* delivered resend and one that verifies, which is what PostgreSQL breaks.  *)

\* c and d hold no row both.
Apart(c, d) ==
  /\ \A s \in Sessions : ~(HoldsSession(c, s) /\ HoldsSession(d, s))
  /\ \A i \in Nat : ~(HoldsChallenge(c, i) /\ HoldsChallenge(d, i))

LocksApart == \A p, r \in Handlers : p # r => Apart(calls[p], calls[r])

\* In a chain of four waits the request in the middle waits for one that waits for
\* it: a chain is no longer than that, and no circle larger than two, unless two
\* requests are deadlocked (sessions.py:171, otp.py:140-182).
CirclesArePairs ==
  \A p, q, r, u, w \in Handlers :
    WaitsFor(p, q) /\ WaitsFor(q, r) /\ WaitsFor(r, u) /\ WaitsFor(u, w) => Deadlocked(r)

\* p is a resend, and r a check of the same session.
ResendAndCheck(p, r) ==
  /\ calls[p].req.session = calls[r].req.session
  /\ calls[p].req.tool = "resend_otp"
  /\ calls[r].req.tool \in {"verify_otp", "verify_identity"}

\* Requests that wait for each other are a resend and a check of one session.
PairsAreResends ==
  \A p, r \in Handlers :
    WaitsFor(p, r) /\ WaitsFor(r, p) => ResendAndCheck(p, r) \/ ResendAndCheck(r, p)

\* Who guesses locks no challenge before its commit; all but a resend have locked
\* the session row when they hold another, and a resend does not before its commit.
LockForm(c) ==
  /\ c.phase \in {"loaded", "staged", "sending"} \/ Flushed(c) => c.guess.id = 0
  /\ c.phase = "loaded" => c.retires = 0
  /\ c.phase = "sending" /\ c.issue # None => c.newId # 0
  /\ c.written => c.phase \in {"staged", "sending", "ready"} /\ c.req.tool # "resend_otp"
  /\ c.req.tool # "resend_otp" => /\ c.phase = "staged" => WritesSession(c)
                                  /\ Flushed(c) => c.written
  /\ c.req.tool = "resend_otp" /\ c.phase \in InFlightPhases /\ ~Flushed(c) =>
       ~WritesSession(c)
  /\ c.retires # 0 => c.req.tool \in {"verify_identity", "resend_otp"}
  /\ c.guess.id # 0 => c.req.tool = "verify_otp"
  /\ "link" \in c.adds => c.req.tool = "capture_lead"

\* The challenges a request writes are of its session.
OwnPasscodes(c) ==
  \A i \in {c.retires, c.guess.id} \ {0} :
    i \in DOMAIN challenges /\ challenges[i].session = c.req.session

KInv == LocksApart /\ \A p \in Handlers : LockForm(calls[p]) /\ OwnPasscodes(calls[p])

\* No challenge is lost, and none changes its session.
PasscodesKept ==
  \A i \in DOMAIN challenges :
    i \in DOMAIN challenges' /\ challenges'[i].session = challenges[i].session

\* A step of one request after which it holds no row of another.
LEMMA KStep ==
  ASSUME IInv, KInv, PasscodesKept, NEW p \in Handlers, NEW c,
         calls' = [calls EXCEPT ![p] = c], LockForm(c), OwnPasscodes(c),
         \A r \in Handlers \ {p} : Apart(c, calls[r])
  PROVE  KInv'
<1>1. \A r \in Handlers : calls'[r] = IF r = p THEN c ELSE calls[r]
  BY DEF IInv, TypeOK
<1>2. \A d, e : Apart(d, e) => Apart(e, d)
  BY DEF Apart
<1>3. \A q, r \in Handlers : q # r => Apart(calls'[q], calls'[r])
  BY <1>1, <1>2 DEF KInv, LocksApart
<1>4. LocksApart'
  <2>1. \A q, r : Apart(calls[q], calls[r])' <=> Apart(calls'[q], calls'[r])
    BY DEF Apart, HoldsSession, HoldsChallenge, Flushed
  <2> QED
    BY <1>3, <2>1 DEF LocksApart
<1>5. \A r \in Handlers : LockForm(calls[r])'
  <2>1. \A r \in Handlers : LockForm(calls'[r])
    BY <1>1 DEF KInv
  <2> QED
    BY <2>1 DEF LockForm, Flushed, WritesSession
<1>6. \A r \in Handlers : OwnPasscodes(calls[r])'
  <2> TAKE r \in Handlers
  <2>1. PICK d : d = calls'[r] /\ OwnPasscodes(d)
    BY <1>1 DEF KInv
  <2> QED
    BY <2>1 DEF OwnPasscodes, PasscodesKept
<1> QED
  BY <1>4, <1>5, <1>6 DEF KInv

\* A request that is given no new lock.
LEMMA KCallStep ==
  ASSUME IInv, KInv, PasscodesKept, NEW p \in Handlers, NEW c,
         calls' = [calls EXCEPT ![p] = c], LockForm(c), OwnPasscodes(c),
         c.written => calls[p].written /\ c.req = calls[p].req,
         Flushed(c) => Flushed(calls[p]) /\ c.retires = calls[p].retires
  PROVE  KInv'
<1>1. /\ \A s : HoldsSession(c, s) => HoldsSession(calls[p], s)
      /\ \A i : HoldsChallenge(c, i) => HoldsChallenge(calls[p], i)
  BY DEF HoldsSession, HoldsChallenge
<1>2. \A r \in Handlers \ {p} : Apart(c, calls[r])
  BY <1>1 DEF KInv, LocksApart, Apart
<1> QED
  BY <1>2, KStep

\* A request that is given the rows it has written, at the end of its flush.
LEMMA KFlushStep ==
  ASSUME IInv, KInv, UNCHANGED challenges, NEW p \in Handlers, NEW c,
         calls[p].phase = "staged", CanWrite(p),
         calls' = [calls EXCEPT ![p] = c], c.phase \in {"sending", "ready"},
         c.req = calls[p].req, c.retires = calls[p].retires, c.guess = calls[p].guess,
         c.loaded = calls[p].loaded, c.sess = calls[p].sess,
         c.written = WritesSession(calls[p]),
         c.phase = "sending" /\ c.issue # None => c.newId # 0, c.adds \in {calls[p].adds, {}}
  PROVE  KInv'
<1>1. LockForm(calls[p]) /\ OwnPasscodes(calls[p])
  BY DEF KInv
<1>2. LockForm(c)
  BY <1>1 DEF LockForm, Flushed, WritesSession
<1>3. OwnPasscodes(c)
  BY <1>1 DEF OwnPasscodes
<1>4. ASSUME NEW r \in Handlers \ {p}
      PROVE  Apart(c, calls[r])
  <2>1. ~WaitsFor(p, r) /\ ~TwoUpdates(calls[p]) /\ ~Flushed(calls[p])
    BY DEF CanWrite, Flushed
  <2>2. ASSUME NEW s \in Sessions, HoldsSession(c, s)
        PROVE  ~HoldsSession(calls[r], s)
    <3>1. WritesSession(calls[p]) /\ calls[p].req.session = s
      BY <2>2 DEF HoldsSession
    <3>2. CASE calls[p].written
      BY <3>1, <3>2 DEF KInv, LocksApart, Apart, HoldsSession
    <3>3. CASE ~calls[p].written
      BY <2>1, <3>1, <3>3 DEF WaitsFor, SessionToWrite
    <3> QED
      BY <3>2, <3>3
  <2>3. ASSUME NEW i \in Nat, HoldsChallenge(c, i)
        PROVE  ~HoldsChallenge(calls[r], i)
    <3>1. i # 0 /\ i = calls[p].retires
      BY <2>3 DEF HoldsChallenge
    <3>2. i \in ChallengesToWrite(calls[p])
      BY <2>1, <3>1 DEF ChallengesToWrite
    <3>3. ~SessionToWrite(calls[p])
      BY <2>1, <3>2 DEF TwoUpdates
    <3> QED
      BY <2>1, <3>2, <3>3 DEF WaitsFor
  <2> QED
    BY <2>2, <2>3 DEF Apart
<1> QED
  BY <1>2, <1>3, <1>4, KStep DEF PasscodesKept

\* A request that is given the session row, and has a challenge still to write.
LEMMA KWriteSessionStep ==
  ASSUME IInv, KInv, NEW p \in Handlers, WriteSession(p)
  PROVE  KInv'
<1>1. PICK b, c : /\ b = calls[p] /\ b \in CallRecords /\ c = Written(b)
                  /\ calls' = [calls EXCEPT ![p] = c]
  BY DEF WriteSession, Stay, IInv, TypeOK
<1>2. /\ LockForm(b) /\ OwnPasscodes(b) /\ b.phase \in {"staged", "ready"} /\ TwoUpdates(b)
      /\ \A r \in Handlers : ~WaitsFor(p, r)
      /\ UNCHANGED challenges
  BY <1>1 DEF KInv, WriteSession, Stay
<1>3. /\ c.written = TRUE /\ c.phase = b.phase /\ c.req = b.req /\ c.loaded = b.loaded
      /\ c.sess = b.sess /\ c.newId = b.newId /\ c.issue = b.issue
      /\ c.retires = b.retires /\ c.guess = b.guess /\ c.adds = b.adds
  BY <1>1, WrittenOK
<1>4. SessionToWrite(b) /\ ~Flushed(b) /\ ~Flushed(c)
  BY <1>2, <1>3 DEF TwoUpdates, ChallengesToWrite, Flushed
<1>5. b.req.tool # "resend_otp"
  BY <1>2, <1>4 DEF LockForm, SessionToWrite
<1>6. LockForm(c)
  BY <1>2, <1>3, <1>4, <1>5 DEF LockForm, WritesSession
<1>7. OwnPasscodes(c)
  BY <1>2, <1>3 DEF OwnPasscodes
<1>8. ASSUME NEW r \in Handlers \ {p}
      PROVE  Apart(c, calls[r])
  <2>1. ~HoldsSession(calls[r], b.req.session)
    BY <1>1, <1>2, <1>4 DEF WaitsFor
  <2> QED
    BY <1>3, <1>4, <2>1 DEF Apart, HoldsSession, HoldsChallenge
<1> QED
  BY <1>1, <1>2, <1>6, <1>7, <1>8, KStep DEF PasscodesKept

LEMMA UnlockedForms ==
  /\ IdleCall.phase = "idle" /\ IdleCall.guess.id = 0
  /\ IdleCall.retires = 0 /\ IdleCall.written = FALSE /\ IdleCall.adds = {}
  /\ \A q, rep : /\ AnsweredCall(q, rep).phase = "answered"
                 /\ AnsweredCall(q, rep).guess.id = 0
                 /\ AnsweredCall(q, rep).retires = 0
                 /\ AnsweredCall(q, rep).written = FALSE
                 /\ AnsweredCall(q, rep).adds = {}
  /\ \A q, row : /\ LoadedCall(q, row).phase = "loaded"
                 /\ LoadedCall(q, row).guess.id = 0
                 /\ LoadedCall(q, row).retires = 0
                 /\ LoadedCall(q, row).written = FALSE
                 /\ LoadedCall(q, row).adds = {}
                 /\ LoadedCall(q, row).sess = LoadedCall(q, row).loaded
BY DEF IdleCall, AnsweredCall, LoadedCall, NoGuess

\* A request that is over, or begins.
LEMMA KAnswerStep ==
  ASSUME IInv, KInv, PasscodesKept, NEW p \in Handlers, NEW c,
         calls' = [calls EXCEPT ![p] = c],
         \/ c = IdleCall
         \/ \E q, rep : c = AnsweredCall(q, rep)
         \/ \E q, row : c = LoadedCall(q, row)
  PROVE  KInv'
<1>1. /\ c.phase \in {"idle", "answered", "loaded"} /\ c.guess.id = 0 /\ c.retires = 0
      /\ c.adds = {} /\ ~c.written /\ (c.phase = "loaded" => c.sess = c.loaded)
  BY UnlockedForms
<1>2. LockForm(c) /\ OwnPasscodes(c) /\ ~Flushed(c)
  BY <1>1 DEF LockForm, OwnPasscodes, Flushed, WritesSession
<1> QED
  BY <1>1, <1>2, KCallStep

\* A request that builds its response without having flushed.
LEMMA KReadyStep ==
  ASSUME IInv, KInv, UNCHANGED challenges, NEW p \in Handlers, calls[p].phase = "loaded",
         NEW b \in CallRecords, b.newId = 0, b.retires = 0, ~b.written, OwnPasscodes(b),
         b.guess.id # 0 => b.req.tool = "verify_otp",
         NEW row, b.req.tool = "resend_otp" => row = b.loaded,
         NEW adds, NEW outcome, NEW verdict, "link" \notin adds,
         NEW c, c = ReadyCall(b, row, adds, outcome, verdict),
         calls' = [calls EXCEPT ![p] = c]
  PROVE  KInv'
<1>1. /\ c.phase = "ready" /\ c.newId = 0 /\ c.adds = adds /\ c.sess = row
      /\ c.loaded = b.loaded /\ c.req = b.req /\ c.retires = 0 /\ c.guess = b.guess
      /\ ~c.written
  BY DEF ReadyCall, CallRecords
<1>2. ~Flushed(c)
  BY <1>1 DEF Flushed
<1>3. LockForm(c)
  BY <1>1, <1>2 DEF LockForm, WritesSession
<1>4. OwnPasscodes(c)
  BY <1>1 DEF OwnPasscodes
<1> QED
  BY <1>1, <1>2, <1>3, <1>4, KCallStep DEF PasscodesKept

\* The state machine never moves a session to the state it is in.
LEMMA MovesChange ==
  ASSUME NEW st \in States, NEW target, CanMove(st, target)
  PROVE  target # st
BY DEF CanMove, AllowedTransitions, States

\* A handler that may be refused the move it wants.
LEMMA KProceedStep ==
  ASSUME IInv, KInv, NEW p \in Handlers, NEW target, NEW c, Proceed(p, target, c),
         CanMove(calls[p].sess.state, target) /\ calls' = [calls EXCEPT ![p] = c] => KInv'
  PROVE  KInv'
<1>1. CASE CanMove(calls[p].sess.state, target)
  BY <1>1 DEF Proceed
<1>2. CASE ~CanMove(calls[p].sess.state, target)
  BY <1>2, KAnswerStep DEF Proceed, PasscodesKept
<1> QED
  BY <1>1, <1>2

\* A request that stages what it will flush.
LEMMA KStagedStep ==
  ASSUME IInv, KInv, UNCHANGED challenges, NEW p \in Handlers, calls[p].phase = "loaded",
         NEW c, c.phase = "staged", c.guess = calls[p].guess, c.req = calls[p].req,
         c.written = calls[p].written,
         c.req.tool = "resend_otp" <=> ~WritesSession(c),
         c.retires # 0 => c.req.tool \in {"verify_identity", "resend_otp"},
         c.retires = 0 \/ c.retires \in Unconsumed(c.req.session),
         "link" \in c.adds => c.req.tool = "capture_lead",
         calls' = [calls EXCEPT ![p] = c]
  PROVE  KInv'
<1>1. LockForm(calls[p])
  BY DEF KInv
<1>2. ~Flushed(c) /\ ~c.written /\ c.guess.id = 0
  BY <1>1 DEF LockForm, Flushed
<1>3. LockForm(c)
  BY <1>2 DEF LockForm
<1>4. OwnPasscodes(c)
  BY <1>2 DEF OwnPasscodes, Unconsumed
<1> QED
  BY <1>2, <1>3, <1>4, KCallStep DEF PasscodesKept

LEMMA KLoaded ==
  ASSUME IInv, KInv, NEW p \in Handlers, calls[p].phase = "loaded"
  PROVE  /\ calls[p] \in CallRecords /\ calls[p].newId = 0 /\ calls[p].adds = {}
         /\ calls[p].sess = calls[p].loaded /\ calls[p].sess \in SessionRows
         /\ calls[p].sess.state \in States
         /\ calls[p].retires = 0 /\ ~calls[p].written /\ calls[p].guess.id = 0
<1>1. calls[p] \in CallRecords /\ GoodCall(calls[p]) /\ calls[p].sess \in SessionRows
  BY InFlightCall
<1>2. calls[p].newId = 0 /\ calls[p].adds = {} /\ calls[p].sess = calls[p].loaded
  BY <1>1 DEF GoodCall
<1>3. LockForm(calls[p])
  BY DEF KInv
<1>4. calls[p].retires = 0 /\ ~calls[p].written /\ calls[p].guess.id = 0
  BY <1>3 DEF LockForm
<1> QED
  BY <1>1, <1>2, <1>4 DEF SessionRows

\* A request that has done its work without flushing anything.
LEMMA KDoneStep ==
  ASSUME IInv, KInv, NEW p \in Handlers, calls[p].phase = "loaded",
         NEW row, calls[p].req.tool = "resend_otp" => row = calls[p].sess,
         NEW adds, NEW outcome, NEW verdict, "link" \notin adds,
         NEW target,
         \/ Stay(p, ReadyCall(calls[p], row, adds, outcome, verdict))
         \/ Proceed(p, target, ReadyCall(calls[p], row, adds, outcome, verdict))
  PROVE  KInv'
<1>1. PICK b \in CallRecords :
        /\ b = calls[p] /\ b.newId = 0 /\ b.retires = 0 /\ ~b.written /\ b.guess.id = 0
        /\ OwnPasscodes(b) /\ (b.req.tool = "resend_otp" => row = b.loaded)
  BY KLoaded DEF KInv
<1>2. PICK c : c = ReadyCall(b, row, adds, outcome, verdict)
  OBVIOUS
<1>3. UNCHANGED challenges
  BY DEF Stay, Proceed
<1>4. calls' = [calls EXCEPT ![p] = c] => KInv'
  <2>1. HAVE calls' = [calls EXCEPT ![p] = c]
  <2> QED
    BY <1>1, <1>2, <1>3, <2>1, KReadyStep
<1>5. CASE Stay(p, c)
  BY <1>4, <1>5 DEF Stay
<1>6. CASE Proceed(p, target, c)
  BY <1>4, <1>6, KProceedStep
<1> QED
  BY <1>1, <1>2, <1>5, <1>6

\* The handlers at work.
LEMMA KVerifyIdentityStep ==
  ASSUME IInv, KInv, NEW p \in Handlers,
         VerifyIdentityMatched(p) \/ VerifyIdentityUnknown(p) \/ VerifyIdentityFailed(p)
  PROVE  KInv'
<1> PICK c, cust : c = calls[p] /\ cust = c.req.claim.pan
  OBVIOUS
<1> DEFINE row == [c.sess EXCEPT !.customer = cust, !.state = "identity_matched"]
<1>1. c.phase = "loaded" /\ c.req.tool = "verify_identity"
  BY DEF VerifyIdentityMatched, VerifyIdentityUnknown, VerifyIdentityFailed, Working
<1>2. CASE VerifyIdentityUnknown(p)
  BY <1>1, <1>2, KDoneStep DEF VerifyIdentityUnknown
<1>3. CASE VerifyIdentityFailed(p)
  BY <1>1, <1>3, KDoneStep DEF VerifyIdentityFailed
<1>4. CASE VerifyIdentityMatched(p)
  <2>1. PICK r, stop : r = row /\ stop = IssueLimit(row, cust, FALSE)
    OBVIOUS
  <2>2. CASE stop # "none"
    <3>1. Proceed(p, r.state, ReadyCall(calls[p], r, {}, "blocked", stop))
      BY <1>4, <2>1, <2>2 DEF VerifyIdentityMatched
    <3> QED
      BY <1>1, <3>1, KDoneStep
  <2>3. CASE stop = "none"
    <3>1. PICK prev : /\ IsActive(c.req.session, prev)
                      /\ Proceed(p, r.state, Issuing(p, r, cust, prev))
      BY <1>4, <2>1, <2>3 DEF VerifyIdentityMatched
    <3>2. PICK d : d = Issuing(p, r, cust, prev)
      OBVIOUS
    <3>3. c \in CallRecords /\ c.sess = c.loaded /\ c.sess \in SessionRows /\ c.sess.state \in States
      BY <1>1, KLoaded
    <3>4. /\ d.phase = "staged" /\ d.guess = c.guess /\ d.sess = r /\ d.loaded = c.loaded
          /\ d.req = c.req /\ d.written = c.written /\ d.retires = prev /\ d.adds = c.adds
      BY <3>2, <3>3 DEF Issuing, CallRecords
    <3>5. prev = 0 \/ prev \in Unconsumed(c.req.session)
      BY <3>1 DEF IsActive
    <3>6. CanMove(c.sess.state, r.state) => WritesSession(d)
      BY <3>3, <3>4, MovesChange DEF WritesSession
    <3>7. UNCHANGED challenges
      BY <3>1 DEF Proceed
    <3>8. CanMove(c.sess.state, r.state) /\ calls' = [calls EXCEPT ![p] = d] => KInv'
      <4>1. HAVE CanMove(c.sess.state, r.state) /\ calls' = [calls EXCEPT ![p] = d]
      <4>2. /\ d.req.tool = "verify_identity" /\ WritesSession(d) /\ "link" \notin d.adds
            /\ d.retires = 0 \/ d.retires \in Unconsumed(d.req.session)
        BY <1>1, <3>4, <3>5, <3>6, <4>1, KLoaded
      <4> QED
        BY <1>1, <3>4, <3>7, <4>1, <4>2, KStagedStep
    <3> QED
      BY <3>1, <3>2, <3>8, KProceedStep
  <2> QED
    BY <2>2, <2>3
<1> QED
  BY <1>2, <1>3, <1>4

LEMMA KVerifyOtpStep ==
  ASSUME IInv, KInv, NEW p \in Handlers, VerifyOtpUnchecked(p) \/ VerifyOtpChecked(p)
  PROVE  KInv'
<1>1. calls[p].phase = "loaded" /\ calls[p].req.tool = "verify_otp"
  BY DEF VerifyOtpUnchecked, VerifyOtpChecked, Working
<1>2. CASE VerifyOtpUnchecked(p)
  BY <1>1, <1>2, KDoneStep DEF VerifyOtpUnchecked
<1>3. CASE VerifyOtpChecked(p)
  <2>1. /\ calls[p] \in CallRecords /\ calls[p].newId = 0 /\ calls[p].retires = 0
        /\ ~calls[p].written
    BY <1>1, KLoaded
  <2>2. PICK i \in DOMAIN challenges :
          /\ IsActive(calls[p].req.session, i)
          /\ LET c == calls[p]
                 tries == challenges[i].attempts + 1
                 hit   == c.req.code = i
                 row   == [c.sess EXCEPT !.state = "identity_verified"]
                 try   == [c EXCEPT !.guess = [id |-> i, attempts |-> tries, ok |-> hit]]
             IN IF hit
                THEN Proceed(p, row.state, ReadyCall(try, row, {}, "ok", "ok"))
                ELSE IF tries >= MaxVerifyAttempts
                THEN Stay(p, ReadyCall(try, c.sess, {}, "blocked", "attempts_exhausted"))
                ELSE Stay(p, ReadyCall(try, c.sess, {}, "retry", "wrong_code"))
    BY <1>3 DEF VerifyOtpChecked
  <2>3. challenges[i].attempts \in Nat /\ i \in Nat
    BY DEF IInv, TypeOK, ChallengeRows
  <2>4. [id |-> i, attempts |-> challenges[i].attempts + 1, ok |-> calls[p].req.code = i]
          \in Guesses
    BY <2>3 DEF Guesses
  <2>5. PICK b : b = [calls[p] EXCEPT !.guess =
                 [id |-> i, attempts |-> challenges[i].attempts + 1,
                  ok |-> calls[p].req.code = i]]
    OBVIOUS
  <2>6. \E target, row, outcome, verdict :
          \/ Stay(p, ReadyCall(b, row, {}, outcome, verdict))
          \/ Proceed(p, target, ReadyCall(b, row, {}, outcome, verdict))
    BY <2>2, <2>5, Zenon
  <2>7. PICK target, row, outcome, verdict, c :
          /\ c = ReadyCall(b, row, {}, outcome, verdict)
          /\ Stay(p, c) \/ Proceed(p, target, c)
    BY <2>6
  <2>8. /\ b \in CallRecords /\ b.newId = 0 /\ b.retires = 0 /\ ~b.written
        /\ b.req = calls[p].req /\ b.guess.id = i
    BY <2>1, <2>4, <2>5 DEF CallRecords
  <2>9. OwnPasscodes(b)
    <3>1. i = 0 \/ i \in Unconsumed(calls[p].req.session)
      BY <2>2 DEF IsActive
    <3> QED
      BY <2>8, <3>1 DEF OwnPasscodes, Unconsumed
  <2>10. UNCHANGED challenges
    BY <2>7 DEF Stay, Proceed
  <2>11. calls' = [calls EXCEPT ![p] = c] => KInv'
    <3>1. HAVE calls' = [calls EXCEPT ![p] = c]
    <3>2. b.req.tool = "verify_otp" /\ "link" \notin {}
      BY <1>1, <2>8
    <3> QED
      BY <1>1, <2>7, <2>8, <2>9, <2>10, <3>1, <3>2, KReadyStep
  <2> QED
    BY <2>7, <2>11, KProceedStep DEF Stay
<1> QED
  BY <1>2, <1>3

LEMMA KResendOtpStep ==
  ASSUME IInv, KInv, NEW p \in Handlers, ResendOtp(p)
  PROVE  KInv'
<1> PICK c, stop : c = calls[p] /\ stop = IssueLimit(c.sess, c.sess.customer, TRUE)
  OBVIOUS
<1>1. /\ c.phase = "loaded" /\ c.req.tool = "resend_otp" /\ c \in CallRecords
      /\ c.sess = c.loaded
  BY KLoaded DEF ResendOtp, Working
<1>2. CASE stop # "none"
  <2>1. Stay(p, ReadyCall(calls[p], c.sess, {}, "blocked", stop))
    BY <1>2 DEF ResendOtp
  <2> QED
    BY <1>1, <2>1, KDoneStep
<1>3. CASE stop = "none"
  <2>1. PICK prev : /\ IsActive(c.req.session, prev)
                    /\ Stay(p, Issuing(p, c.sess, c.sess.customer, prev))
    BY <1>3 DEF ResendOtp
  <2>2. PICK d : d = Issuing(p, c.sess, c.sess.customer, prev)
    OBVIOUS
  <2>3. /\ d.phase = "staged" /\ d.guess = c.guess /\ d.req = c.req
        /\ d.written = c.written /\ d.retires = prev /\ d.sess = c.sess /\ d.loaded = c.loaded
        /\ d.adds = c.adds
    BY <1>1, <2>2 DEF Issuing, CallRecords
  <2>4. ~WritesSession(d)
    BY <1>1, <2>3 DEF WritesSession
  <2>5. prev = 0 \/ prev \in Unconsumed(c.req.session)
    BY <2>1 DEF IsActive
  <2>6. calls' = [calls EXCEPT ![p] = d] /\ UNCHANGED challenges
    BY <2>1, <2>2 DEF Stay
  <2> QED
    BY <1>1, <2>3, <2>4, <2>5, <2>6, KLoaded, KStagedStep
<1> QED
  BY <1>2, <1>3

LEMMA KCaptureLeadStep ==
  ASSUME IInv, KInv, NEW p \in Handlers, CaptureLead(p)
  PROVE  KInv'
<1> PICK c, row : c = calls[p] /\ row = [c.sess EXCEPT !.state = "lead_captured"]
  OBVIOUS
<1>1. c.phase = "loaded" /\ c.req.tool = "capture_lead"
  BY DEF CaptureLead, Working
<1>2. /\ c \in CallRecords /\ c.sess = c.loaded /\ c.sess \in SessionRows
      /\ c.sess.state \in States /\ c.retires = 0
  BY <1>1, KLoaded
<1>3. PICK d : /\ d = [c EXCEPT !.phase = "staged", !.sess = row, !.adds = {"lead", "link"}]
               /\ Proceed(p, row.state, d)
  BY DEF CaptureLead
<1>4. /\ d.phase = "staged" /\ d.guess = c.guess /\ d.sess = row /\ d.loaded = c.loaded
      /\ d.req = c.req /\ d.written = c.written /\ d.retires = 0
  BY <1>2, <1>3 DEF CallRecords
<1>5. UNCHANGED challenges
  BY <1>3 DEF Proceed
<1>6. CanMove(c.sess.state, row.state) => WritesSession(d)
  <2>1. CanMove(c.sess.state, row.state) => row.state # c.sess.state
    BY <1>2, MovesChange
  <2>2. d.sess = d.loaded => row.state = c.sess.state
    BY <1>2, <1>4, ZenonT(30)
  <2> QED
    BY <2>1, <2>2 DEF WritesSession
<1>7. CanMove(c.sess.state, row.state) /\ calls' = [calls EXCEPT ![p] = d] => KInv'
  <2>1. HAVE CanMove(c.sess.state, row.state) /\ calls' = [calls EXCEPT ![p] = d]
  <2>2. /\ d.req.tool = "capture_lead" /\ WritesSession(d)
        /\ d.phase = "staged" /\ d.guess = calls[p].guess /\ d.req = calls[p].req
        /\ d.written = calls[p].written /\ d.retires = 0
    BY <1>1, <1>4, <1>6, <2>1
  <2> QED
    BY <1>1, <1>5, <2>1, <2>2, KStagedStep
<1> QED
  BY <1>3, <1>7, KProceedStep

LEMMA KOtherWorkStep ==
  ASSUME IInv, KInv, NEW p \in Handlers,
         CheckEligibility(p) \/ RecordConsent(p) \/ Escalate(p)
  PROVE  KInv'
<1>1. calls[p].phase = "loaded" /\ calls[p].req.tool # "resend_otp"
  BY DEF CheckEligibility, RecordConsent, Escalate, Working
<1>2. CASE CheckEligibility(p)
  <2>1. PICK row, outcome, verdict :
          Proceed(p, row.state,
                  ReadyCall(calls[p], row, {"assessment"}, outcome, verdict))
    BY <1>2 DEF CheckEligibility
  <2> QED
    BY <1>1, <2>1, KDoneStep
<1>3. CASE RecordConsent(p)
  BY <1>1, <1>3, KDoneStep DEF RecordConsent
<1>4. CASE Escalate(p)
  BY <1>1, <1>4, KDoneStep DEF Escalate
<1> QED
  BY <1>2, <1>3, <1>4

\* The flush.
LEMMA KFlushChallengeStep ==
  ASSUME IInv, KInv, NEW p \in Handlers, FlushChallenge(p)
  PROVE  KInv'
<1>1. PICK c, m, n : /\ c = calls[p] /\ c \in CallRecords /\ m = lastId + 1 /\ m \in Nat
                     /\ n = now /\ n \in Nat /\ m # 0
  BY DEF IInv, TypeOK
<1>2. PICK f : f = Numbered(c, m, n)
  OBVIOUS
<1>3. f \in CallRecords /\ f.newId = m
  BY <1>1, <1>2, NumberedCallOK, ZenonT(30)
<1>4. PICK d : /\ calls' = [calls EXCEPT ![p] = d]
               /\ \/ d = [f EXCEPT !.phase = "sending"]
                  \/ d = ReadyCall(f, c.sess, {}, "error", "delivery_failed")
  BY <1>1, <1>2 DEF FlushChallenge, Numbered
<1>5. c.phase = "staged" /\ CanWrite(p) /\ UNCHANGED challenges
  BY <1>1 DEF FlushChallenge
<1>6. /\ f.req = c.req /\ f.retires = c.retires /\ f.guess = c.guess /\ f.loaded = c.loaded
      /\ f.sess = c.sess /\ f.written = WritesSession(c) /\ f.adds = c.adds
  BY <1>1, <1>2 DEF Numbered, CallRecords
<1>7. /\ d.phase \in {"sending", "ready"} /\ d.req = f.req /\ d.retires = f.retires
      /\ d.guess = f.guess /\ d.loaded = f.loaded /\ d.sess = f.sess
      /\ d.written = f.written /\ d.newId = f.newId /\ d.adds \in {f.adds, {}}
  BY <1>3, <1>4, <1>6 DEF ReadyCall, CallRecords
<1> QED
  BY <1>1, <1>3, <1>4, <1>5, <1>6, <1>7, KFlushStep

LEMMA KFlushLinkStep ==
  ASSUME IInv, KInv, NEW p \in Handlers, FlushLink(p)
  PROVE  KInv'
<1>1. PICK c, d : /\ c = calls[p] /\ c \in CallRecords
                  /\ d = [c EXCEPT !.phase = "sending", !.written = WritesSession(c)]
                  /\ calls' = [calls EXCEPT ![p] = d]
  BY DEF FlushLink, Stay, IInv, TypeOK
<1>2. c.phase = "staged" /\ c.issue = None /\ CanWrite(p) /\ UNCHANGED challenges
  BY <1>1 DEF FlushLink, Stay
<1>3. /\ d.phase = "sending" /\ d.req = c.req /\ d.retires = c.retires /\ d.guess = c.guess
      /\ d.loaded = c.loaded /\ d.sess = c.sess /\ d.issue = c.issue /\ d.adds = c.adds
      /\ d.written = WritesSession(c)
  BY <1>1 DEF CallRecords
<1> QED
  BY <1>1, <1>2, <1>3, KFlushStep

\* The message is out: the request keeps the rows it has.
LEMMA KMessageStep ==
  ASSUME IInv, KInv, NEW p \in Handlers,
         PasscodeDelivered(p) \/ PasscodeUndelivered(p) \/ LinkEmailed(p)
  PROVE  KInv'
<1>1. PICK c : c = calls[p] /\ c \in CallRecords /\ LockForm(c) /\ OwnPasscodes(c)
  BY DEF IInv, TypeOK, KInv
<1>2. PICK row, adds, outcome, verdict, d :
        /\ c.phase = "sending" /\ adds \in {{}, c.adds}
        /\ row # c.sess => c.issue # None
        /\ d = ReadyCall(c, row, adds, outcome, verdict)
        /\ calls' = [calls EXCEPT ![p] = d]
  BY <1>1 DEF PasscodeDelivered, PasscodeUndelivered, LinkEmailed, Stay
<1>3. /\ d.phase = "ready" /\ d.req = c.req /\ d.retires = c.retires /\ d.guess = c.guess
      /\ d.adds = adds /\ d.newId = c.newId /\ d.written = c.written /\ d.sess = row
      /\ d.loaded = c.loaded
  BY <1>1, <1>2 DEF ReadyCall, CallRecords
<1>4. /\ Flushed(d) => Flushed(c)
      /\ row # c.sess => Flushed(d)
      /\ c.newId # 0 => Flushed(d)
  BY <1>1, <1>2, <1>3 DEF LockForm, Flushed
<1>5. /\ c.guess.id = 0
      /\ c.written => c.req.tool # "resend_otp"
      /\ Flushed(d) /\ c.req.tool # "resend_otp" => c.written
      /\ c.retires # 0 => c.req.tool \in {"verify_identity", "resend_otp"}
      /\ "link" \in d.adds => c.req.tool = "capture_lead"
  BY <1>1, <1>2, <1>3, <1>4 DEF LockForm
<1>6. c.req.tool = "resend_otp" /\ ~Flushed(d) => ~WritesSession(d)
  <2>1. SUFFICES ASSUME c.req.tool = "resend_otp", ~Flushed(d) PROVE ~WritesSession(d)
    OBVIOUS
  <2>2. row = c.sess
    BY <1>4, <2>1
  <2>3. ~Flushed(c)
    <3>1. "link" \notin c.adds /\ c.newId = 0
      BY <1>1, <1>4, <2>1 DEF LockForm
    <3> QED
      BY <3>1 DEF Flushed
  <2> QED
    BY <1>1, <1>2, <1>3, <2>1, <2>2, <2>3 DEF LockForm, WritesSession
<1>7. LockForm(d)
  BY <1>3, <1>5, <1>6 DEF LockForm
<1>8. OwnPasscodes(d) /\ UNCHANGED challenges
  BY <1>1, <1>3 DEF OwnPasscodes, PasscodeDelivered, PasscodeUndelivered, LinkEmailed, Stay
<1> QED
  BY <1>1, <1>2, <1>3, <1>4, <1>7, <1>8, KCallStep DEF PasscodesKept

LEMMA KSendStep ==
  ASSUME IInv, KInv, NEW p \in Handlers, Send(p)
  PROVE  KInv'
BY KWriteSessionStep, KFlushChallengeStep, KFlushLinkStep, KMessageStep DEF Send

\* A commit adds a challenge or updates some, and moves none to another session.
LEMMA CommitKeepsPasscodes ==
  ASSUME IInv, NEW p \in Handlers, RecordCall(p)
  PROVE  PasscodesKept
<1>1. PICK c, added : /\ c \in CallRecords /\ added = {c.newId} \ {0} /\ GoodCall(c)
                      /\ c.phase = "ready"
                      /\ challenges' = [i \in DOMAIN challenges \cup added |->
                           IF i \in added THEN NewChallenge(c)
                           ELSE UpdatedChallenge(challenges[i], i, c)]
  BY DEF RecordCall, IInv, TypeOK
<1>2. added \cap DOMAIN challenges = {}
  BY <1>1 DEF GoodCall
<1>3. ASSUME NEW i \in DOMAIN challenges
      PROVE  i \in DOMAIN challenges' /\ challenges'[i].session = challenges[i].session
  <2>1. challenges[i] \in ChallengeRows
    BY DEF IInv, TypeOK
  <2>2. UpdatedChallenge(challenges[i], i, c).session = challenges[i].session
    BY <1>1, <2>1, UpdatedChallengeOK
  <2> QED
    BY <1>1, <1>2, <2>2
<1> QED
  BY <1>3 DEF PasscodesKept

LEMMA NextKInv == IInv /\ KInv /\ [Next]_vars => KInv'
<1> SUFFICES ASSUME IInv, KInv, [Next]_vars PROVE KInv'
  OBVIOUS
<1> UNCHANGED challenges => PasscodesKept
  BY DEF PasscodesKept
<1>1. ASSUME NEW p \in Handlers, Arrive(p) PROVE KInv'
  BY <1>1, KAnswerStep DEF Arrive, ReplayCall, RefuseCall, LoadCall
<1>2. ASSUME NEW p \in Handlers, Work(p) PROVE KInv'
  BY <1>2, KVerifyIdentityStep, KVerifyOtpStep, KResendOtpStep, KCaptureLeadStep,
     KOtherWorkStep DEF Work
<1>3. ASSUME NEW p \in Handlers, Send(p) PROVE KInv'
  BY <1>3, KSendStep
<1>4. ASSUME NEW p \in Handlers, Finalize(p) PROVE KInv'
  <2>1. CASE RecordCall(p)
    BY <2>1, CommitKeepsPasscodes, KAnswerStep DEF RecordCall
  <2>2. CASE SuppressDuplicate(p)
    BY <2>2, KAnswerStep DEF SuppressDuplicate, Stay
  <2> QED
    BY <1>4, <2>1, <2>2 DEF Finalize
<1>5. ASSUME NEW p \in Handlers, Return(p) \/ Abort(p) PROVE KInv'
  BY <1>5, KAnswerStep DEF Return, Abort, Stay
<1>6. CASE Tick \/ (\E s \in Sessions : StartSession(s)) \/ UNCHANGED vars
  <2>1. UNCHANGED <<calls, challenges>>
    BY <1>6 DEF Tick, StartSession, vars
  <2> QED
    BY <2>1 DEF KInv, LocksApart, Apart, LockForm, OwnPasscodes, HoldsSession,
                HoldsChallenge, Flushed, WritesSession
<1> QED
  BY <1>1, <1>2, <1>3, <1>4, <1>5, <1>6 DEF Next

LEMMA InitKInv == Init => KInv
<1> SUFFICES ASSUME Init PROVE KInv
  OBVIOUS
<1>1. \A p \in Handlers : calls[p] = IdleCall
  BY DEF Init
<1>2. ~Flushed(IdleCall) /\ LockForm(IdleCall) /\ OwnPasscodes(IdleCall)
  BY UnlockedForms DEF LockForm, OwnPasscodes, Flushed
<1> QED
  BY <1>1, <1>2, UnlockedForms DEF KInv, LocksApart, Apart, HoldsSession, HoldsChallenge

\* Who holds a row and waits for another: either it has the session row and waits
\* for a resend, or it is a resend and waits for who has the session row.
LEMMA HoldersWait ==
  ASSUME IInv, KInv, NEW p \in Handlers, NEW q \in Handlers, NEW r \in Handlers,
         WaitsFor(p, q), WaitsFor(q, r)
  PROVE  /\ calls[q].req.session = calls[r].req.session /\ calls[q].req.session \in Sessions
         /\ \/ /\ calls[q].written /\ calls[r].req.tool = "resend_otp"
               /\ calls[q].req.tool \in {"verify_otp", "verify_identity"}
            \/ calls[q].req.tool = "resend_otp" /\ calls[r].written
<1> DEFINE c == calls[q]
           d == calls[r]
<1>1. c.written \/ (Flushed(c) /\ c.retires # 0)
  BY DEF WaitsFor, HoldsSession, HoldsChallenge
<1>2. LockForm(c) /\ LockForm(d) /\ OwnPasscodes(c) /\ OwnPasscodes(d)
  BY DEF KInv
<1>3. q # r /\ c.req.session \in Sessions
  <2>1. c.phase \in InFlightPhases /\ q # r
    BY DEF WaitsFor
  <2> QED
    BY <2>1, InFlightCall DEF Requests
<1>4. CASE SessionToWrite(c)
  <2>1. HoldsSession(d, c.req.session) /\ ~c.written
    BY <1>4 DEF WaitsFor, SessionToWrite
  <2>2. Flushed(c) /\ d.written /\ d.req.session = c.req.session
    BY <1>1, <2>1 DEF HoldsSession
  <2> QED
    BY <1>2, <1>3, <2>1, <2>2 DEF LockForm
<1>5. CASE ~SessionToWrite(c)
  <2>1. PICK i \in ChallengesToWrite(c) : HoldsChallenge(d, i)
    BY <1>5 DEF WaitsFor
  <2>2. ~Flushed(c) /\ i \in {c.retires, c.guess.id} \ {0}
    BY <2>1 DEF ChallengesToWrite
  <2>3. Flushed(d) /\ d.retires = i
    BY <2>1 DEF HoldsChallenge
  <2>4. c.written
    BY <1>1, <2>2
  <2>5. c.req.session = d.req.session
    <3>1. challenges[i].session = c.req.session
      BY <1>2, <2>2 DEF OwnPasscodes
    <3>2. challenges[i].session = d.req.session
      BY <1>2, <2>2, <2>3 DEF OwnPasscodes
    <3> QED
      BY <3>1, <3>2
  <2>6. ~d.written
    <3>1. ~(HoldsSession(c, c.req.session) /\ HoldsSession(d, c.req.session))
      BY <1>3 DEF KInv, LocksApart, Apart
    <3> QED
      BY <2>4, <2>5, <3>1 DEF HoldsSession
  <2>7. d.req.tool = "resend_otp"
    BY <1>2, <2>3, <2>6 DEF LockForm
  <2>8. c.req.tool \in {"verify_otp", "verify_identity"}
    BY <1>2, <2>2, <2>4 DEF LockForm
  <2> QED
    BY <1>3, <2>4, <2>5, <2>7, <2>8
<1> QED
  BY <1>4, <1>5

\* One request at a time has the row of a session.
LEMMA OneWriter ==
  ASSUME KInv, NEW p \in Handlers, NEW r \in Handlers,
         calls[p].written, calls[r].written,
         calls[p].req.session = calls[r].req.session, calls[p].req.session \in Sessions
  PROVE  p = r
BY DEF KInv, LocksApart, Apart, HoldsSession

\* However requests overlap, no row is held twice, and all that can stand in the
\* way of a request for ever is a resend and a check of one session that wait for
\* each other, of which PostgreSQL fails one: no request waits in a larger circle.
THEOREM WaitingEnds == Spec => [](LocksApart /\ CirclesArePairs /\ PairsAreResends)
<1>1. IInv /\ KInv => CirclesArePairs
  <2> SUFFICES ASSUME IInv, KInv, NEW p \in Handlers, NEW q \in Handlers,
                      NEW r \in Handlers, NEW u \in Handlers, NEW w \in Handlers,
                      WaitsFor(p, q), WaitsFor(q, r), WaitsFor(r, u), WaitsFor(u, w)
               PROVE  Deadlocked(r)
    BY DEF CirclesArePairs
  <2>1. /\ calls[q].req.session = calls[r].req.session
        /\ \/ calls[q].written /\ calls[r].req.tool = "resend_otp"
           \/ calls[q].req.tool = "resend_otp" /\ calls[r].written
    BY HoldersWait
  <2>2. /\ calls[r].req.session = calls[u].req.session /\ calls[r].req.session \in Sessions
        /\ \/ calls[r].written /\ calls[u].req.tool = "resend_otp"
           \/ calls[r].req.tool = "resend_otp" /\ calls[u].written
    BY HoldersWait
  <2>3. /\ calls[u].req.session = calls[w].req.session
        /\ \/ calls[u].written /\ calls[w].req.tool = "resend_otp"
           \/ calls[u].req.tool = "resend_otp" /\ calls[w].written
    BY HoldersWait
  <2>4. \A v \in Handlers : ~(calls[v].written /\ calls[v].req.tool = "resend_otp")
    BY DEF KInv, LockForm
  <2>5. CASE calls[r].written
    <3>1. calls[w].written
      BY <2>2, <2>3, <2>4, <2>5
    <3>2. w = r
      BY <2>2, <2>3, <2>5, <3>1, OneWriter
    <3> QED
      BY <3>2 DEF Deadlocked
  <2>6. CASE ~calls[r].written
    <3>1. calls[q].written /\ calls[u].written
      BY <2>1, <2>2, <2>6
    <3>2. q = u
      BY <2>1, <2>2, <3>1, OneWriter
    <3> QED
      BY <3>2 DEF Deadlocked
  <2> QED
    BY <2>5, <2>6
<1>2. IInv /\ KInv => PairsAreResends
  <2> SUFFICES ASSUME IInv, KInv, NEW p \in Handlers, NEW r \in Handlers,
                      WaitsFor(p, r), WaitsFor(r, p)
               PROVE  ResendAndCheck(p, r) \/ ResendAndCheck(r, p)
    BY DEF PairsAreResends
  <2>1. /\ calls[p].req.session = calls[r].req.session
        /\ \/ /\ calls[p].written /\ calls[r].req.tool = "resend_otp"
              /\ calls[p].req.tool \in {"verify_otp", "verify_identity"}
           \/ calls[p].req.tool = "resend_otp" /\ calls[r].written
    BY HoldersWait
  <2>2. \/ /\ calls[r].written /\ calls[p].req.tool = "resend_otp"
           /\ calls[r].req.tool \in {"verify_otp", "verify_identity"}
        \/ calls[r].req.tool = "resend_otp" /\ calls[p].written
    BY HoldersWait
  <2>3. ~(calls[r].written /\ calls[r].req.tool = "resend_otp")
    BY DEF KInv, LockForm
  <2> QED
    BY <2>1, <2>2, <2>3 DEF ResendAndCheck
<1>3. Spec => []KInv
  BY InitKInv, NextKInv, Invariance, PTL DEF Spec
<1>4. KInv => LocksApart
  BY DEF KInv
<1> QED
  BY <1>1, <1>2, <1>3, <1>4, Invariance, PTL
-----------------------------------------------------------------------------
(* What is stored has its rows.  Overlapping requests lose counts, but never *)
(* make one up: what a request has counted is at most one more than the rows *)
(* that were there when it read the counter, the one more is its own row, a  *)
(* state it writes is the one it answers with, and rows are never taken      *)
(* back.                                                                     *)

CodeSent == {"sent", "delivery_failed"}
Compares == {"ok", "wrong_code", "attempts_exhausted"}
Issuers  == {"verify_identity", "resend_otp"}

USE DEF CodeSent, Compares, Issuers

\* The passcodes of a session.
Own(s) == {i \in DOMAIN challenges : challenges[i].session = s}

\* The state of a session and its counters are covered by the rows given.
CoversRow(row, rows) ==
  /\ row.state \in {"started"} \cup {rows[i].reply.state : i \in DOMAIN rows}
  /\ row.identity_attempts <= RowCount(rows, {"verify_identity"}, Failures)
  /\ row.otp_resends <= RowCount(rows, {"resend_otp"}, {"sent"})

FailedRows(s) == RowCount(toolCalls[s], {"verify_identity"}, Failures)
ResentRows(s) == RowCount(toolCalls[s], {"resend_otp"}, {"sent"})

\* One if the row the request is about to add is of that tool and verdict.
OwnRow(c, t, V) == IF c.phase = "ready" /\ c.req.tool = t /\ c.verdict \in V THEN 1 ELSE 0

\* What a request in flight is about to write has its rows, its own among them.
Accounted(c) ==
  c.phase \in InFlightPhases =>
    /\ c.sess.identity_attempts <=
         FailedRows(c.req.session) + OwnRow(c, "verify_identity", Failures)
    /\ c.sess.otp_resends <=
         ResentRows(c.req.session) + OwnRow(c, "resend_otp", {"sent"})
    /\ c.req.tool = "check_eligibility" =>
         c.req.choice \in Decisions /\ c.phase \notin {"staged", "sending"}
    /\ c.phase # "ready" => c.guess.id = 0
    /\ c.phase = "ready" =>
         /\ c.reply.state = c.sess.state
         /\ c.newId # 0 => c.req.tool \in Issuers /\ c.verdict \in CodeSent
         /\ c.guess.id # 0 => /\ c.guess.id \in Own(c.req.session)
                              /\ c.req.tool = "verify_otp" /\ c.verdict \in Compares
         /\ c.req.tool = "check_eligibility" => c.verdict \in Decisions

\* What is stored of a session has its rows.
TablesCovered(s) ==
  /\ s \in Opened => CoversRow(sessions[s], toolCalls[s])
  /\ artefacts[s]["assessment"] <= RowCount(toolCalls[s], {"check_eligibility"}, Decisions)
  /\ Cardinality(Own(s)) <= RowCount(toolCalls[s], Issuers, CodeSent)
  /\ (\E i \in Own(s) : challenges[i].attempts > 0) =>
       RowCount(toolCalls[s], {"verify_otp"}, Compares) > 0

GInv == /\ \A p \in Handlers : Accounted(calls[p])
        /\ \A s \in Sessions : TablesCovered(s)

LEMMA RowCountNat ==
  ASSUME NEW rows \in Seq(AuditRows), NEW T, NEW V
  PROVE  RowCount(rows, T, V) \in Nat
<1> DEFINE I == {i \in DOMAIN rows : rows[i].tool \in T /\ rows[i].verdict \in V}
<1>1. Len(rows) \in Nat /\ DOMAIN rows = 1..Len(rows)
  OBVIOUS
<1>2. IsFiniteSet(1..Len(rows)) /\ I \subseteq 1..Len(rows)
  BY <1>1, FS_Interval
<1>3. IsFiniteSet(I)
  BY <1>2, FS_Subset
<1> QED
  BY <1>3, FS_CardinalityType DEF RowCount

\* The passcodes of a session are finitely many.
LEMMA FewOwn ==
  ASSUME IInv, NEW s
  PROVE  IsFiniteSet(Own(s)) /\ Cardinality(Own(s)) \in Nat
<1>1. IsFiniteSet(1..lastId) /\ Own(s) \subseteq 1..lastId
  BY FS_Interval DEF IInv, TypeOK, Own
<1>2. IsFiniteSet(Own(s))
  BY <1>1, FS_Subset
<1> QED
  BY <1>2, FS_CardinalityType

\* A step that changes one request and no table.
LEMMA ACallStep ==
  ASSUME IInv, GInv, NEW p \in Handlers, NEW c,
         calls' = [calls EXCEPT ![p] = c], Accounted(c),
         UNCHANGED <<sessions, challenges, artefacts, toolCalls>>
  PROVE  GInv'
<1>1. \A r \in Handlers : calls'[r] = IF r = p THEN c ELSE calls[r]
  BY DEF IInv, TypeOK
<1>2. \A r \in Handlers : Accounted(calls'[r])
  BY <1>1 DEF GInv
<1>3. \A r \in Handlers : Accounted(calls[r])'
  <2> TAKE r \in Handlers
  <2>1. PICK d : d = calls'[r] /\ Accounted(d)
    BY <1>2
  <2>2. Own(d.req.session)' = Own(d.req.session)
    BY DEF Own
  <2> QED
    BY <2>1, <2>2 DEF Accounted, FailedRows, ResentRows, OwnRow
<1>4. \A s \in Sessions : TablesCovered(s)'
  BY DEF GInv, TablesCovered, Own, Opened
<1> QED
  BY <1>3, <1>4 DEF GInv

\* A request that is over.
LEMMA AOverStep ==
  ASSUME IInv, GInv, NEW p \in Handlers, NEW c,
         calls' = [calls EXCEPT ![p] = c],
         c = IdleCall \/ \E q, rep : c = AnsweredCall(q, rep),
         UNCHANGED <<sessions, challenges, artefacts, toolCalls>>
  PROVE  GInv'
<1>1. c.phase \in {"idle", "answered"}
  BY UnlockedForms
<1>2. Accounted(c)
  BY <1>1 DEF Accounted
<1> QED
  BY <1>2, ACallStep

LEMMA AArriveStep ==
  ASSUME IInv, GInv, NEW p \in Handlers, Arrive(p)
  PROVE  GInv'
<1>1. PICK s \in Sessions, t \in Tools :
        \E q \in RequestsFor(s, t) : ReplayCall(p, q) \/ RefuseCall(p, q) \/ LoadCall(p, q)
  BY DEF Arrive
<1>2. PICK q \in RequestsFor(s, t) : ReplayCall(p, q) \/ RefuseCall(p, q) \/ LoadCall(p, q)
  BY <1>1
<1>3. CASE ReplayCall(p, q) \/ RefuseCall(p, q)
  BY <1>3, AOverStep DEF ReplayCall, RefuseCall
<1>4. CASE LoadCall(p, q)
  <2>1. PICK row, c : row = sessions[q.session] /\ c = LoadedCall(q, row)
    OBVIOUS
  <2>2. /\ c.phase = "loaded" /\ c.req = q /\ c.sess = row /\ c.guess.id = 0
    <3>1. c.phase = "loaded" /\ c.guess.id = 0
      BY <2>1, UnlockedForms
    <3> QED
      BY <2>1, <3>1 DEF LoadedCall, IdleCall
  <2>3. /\ q.session \in Sessions
        /\ q.tool = "check_eligibility" => q.choice \in Decisions
    BY DEF RequestsFor
  <2>4. q.session \in Opened
    BY <1>4, <2>3 DEF LoadCall, Refusal, Opened
  <2>5. /\ row \in SessionRows /\ CoversRow(row, toolCalls[q.session])
        /\ toolCalls[q.session] \in Seq(AuditRows)
    BY <2>1, <2>3, <2>4 DEF IInv, TypeOK, Opened, GInv, TablesCovered
  <2>6. /\ FailedRows(q.session) \in Nat /\ ResentRows(q.session) \in Nat
        /\ row.identity_attempts <= FailedRows(q.session)
        /\ row.otp_resends <= ResentRows(q.session)
    BY <2>5, RowCountNat DEF CoversRow, FailedRows, ResentRows
  <2>7. Accounted(c)
    BY <2>2, <2>3, <2>6 DEF Accounted, OwnRow
  <2> QED
    BY <1>4, <2>1, <2>7, ACallStep DEF LoadCall
<1> QED
  BY <1>2, <1>3, <1>4

\* What is known of a request that has not built its response.
LEMMA AUnderWay ==
  ASSUME IInv, LInv, GInv, NEW p \in Handlers,
         calls[p].phase \in {"loaded", "staged", "sending"}, NEW c, c = calls[p]
  PROVE  /\ c \in CallRecords /\ c.sess \in SessionRows /\ c.req.session \in Sessions
         /\ c.guess.id = 0
         /\ FailedRows(c.req.session) \in Nat /\ ResentRows(c.req.session) \in Nat
         /\ c.sess.identity_attempts \in Nat /\ c.sess.otp_resends \in Nat
         /\ c.sess.identity_attempts <= FailedRows(c.req.session)
         /\ c.sess.otp_resends <= ResentRows(c.req.session)
         /\ c.req.tool = "check_eligibility" =>
              c.req.choice \in Decisions /\ c.phase = "loaded"
         /\ c.phase = "loaded" => c.newId = 0
         /\ c.newId # 0 => c.issue # None
         /\ c.phase # "loaded" /\ c.issue # None => c.req.tool \in Issuers
<1>1. /\ c \in CallRecords /\ c.sess \in SessionRows /\ c.req.session \in Sessions
      /\ GoodCall(c) /\ Accounted(c) /\ Books(c)
  BY InFlightCall DEF GInv, LInv
<1>2. toolCalls[c.req.session] \in Seq(AuditRows)
  BY <1>1 DEF IInv, TypeOK
<1>3. FailedRows(c.req.session) \in Nat /\ ResentRows(c.req.session) \in Nat
  BY <1>2, RowCountNat DEF FailedRows, ResentRows
<1>4. c.sess.identity_attempts \in Nat /\ c.sess.otp_resends \in Nat
  BY <1>1 DEF SessionRows
<1>5. OwnRow(c, "verify_identity", Failures) = 0 /\ OwnRow(c, "resend_otp", {"sent"}) = 0
  BY DEF OwnRow
<1>6. /\ c.guess.id = 0
      /\ c.sess.identity_attempts <= FailedRows(c.req.session)
      /\ c.sess.otp_resends <= ResentRows(c.req.session)
      /\ c.req.tool = "check_eligibility" =>
           c.req.choice \in Decisions /\ c.phase = "loaded"
  BY <1>1, <1>3, <1>4, <1>5 DEF Accounted
<1>7. /\ c.phase = "loaded" => c.newId = 0
      /\ c.newId # 0 => c.issue # None
      /\ c.phase # "loaded" /\ c.issue # None => c.req.tool \in Issuers
  BY <1>1 DEF GoodCall, Books
<1> QED
  BY <1>1, <1>3, <1>4, <1>6, <1>7

\* The request stages what it will flush, or goes on to send, as d.
KeepsCounts(c, d) ==
  /\ c.phase \in {"loaded", "staged", "sending"} /\ c.req.tool # "check_eligibility"
  /\ d.phase \in {"staged", "sending"} /\ d.req = c.req /\ d.guess = c.guess
  /\ d.sess.identity_attempts = c.sess.identity_attempts
  /\ d.sess.otp_resends = c.sess.otp_resends

LEMMA AStagedStep ==
  ASSUME IInv, LInv, GInv, NEW p \in Handlers, NEW c, KeepsCounts(calls[p], c),
         calls' = [calls EXCEPT ![p] = c],
         UNCHANGED <<sessions, challenges, artefacts, toolCalls>>
  PROVE  GInv'
<1>1. PICK d : d = calls[p]
  OBVIOUS
<1>2. /\ d.guess.id = 0
      /\ FailedRows(d.req.session) \in Nat /\ ResentRows(d.req.session) \in Nat
      /\ d.sess.identity_attempts \in Nat /\ d.sess.otp_resends \in Nat
      /\ d.sess.identity_attempts <= FailedRows(d.req.session)
      /\ d.sess.otp_resends <= ResentRows(d.req.session)
  BY <1>1, AUnderWay DEF KeepsCounts
<1>3. Accounted(c)
  BY <1>1, <1>2 DEF Accounted, OwnRow, KeepsCounts
<1> QED
  BY <1>3, ACallStep

\* The handler counts what its audit row will show, once, or nothing.
CountsOn(c, row, verdict) ==
  \/ /\ row.identity_attempts = c.sess.identity_attempts
     /\ row.otp_resends = c.sess.otp_resends
  \/ /\ row.identity_attempts = c.sess.identity_attempts + 1
     /\ row.otp_resends = c.sess.otp_resends
     /\ c.req.tool = "verify_identity" /\ verdict \in Failures
  \/ /\ row.identity_attempts = c.sess.identity_attempts
     /\ row.otp_resends = c.sess.otp_resends + 1
     /\ c.req.tool = "resend_otp" /\ verdict = "sent"

\* A request that builds its response.
LEMMA AReadyStep ==
  ASSUME IInv, LInv, GInv, NEW p \in Handlers,
         calls[p].phase \in {"loaded", "staged", "sending"},
         NEW b \in CallRecords, b.req = calls[p].req,
         NEW row, NEW adds, NEW outcome, NEW verdict,
         CountsOn(calls[p], row, verdict),
         b.newId # 0 => b.req.tool \in Issuers /\ verdict \in CodeSent,
         b.guess.id # 0 => /\ b.guess.id \in Own(b.req.session)
                           /\ b.req.tool = "verify_otp" /\ verdict \in Compares,
         b.req.tool = "check_eligibility" => verdict \in Decisions,
         NEW c, c = ReadyCall(b, row, adds, outcome, verdict),
         calls' = [calls EXCEPT ![p] = c],
         UNCHANGED <<sessions, challenges, artefacts, toolCalls>>
  PROVE  GInv'
<1>1. PICK d : d = calls[p]
  OBVIOUS
<1>2. /\ FailedRows(d.req.session) \in Nat /\ ResentRows(d.req.session) \in Nat
      /\ d.sess.identity_attempts \in Nat /\ d.sess.otp_resends \in Nat
      /\ d.sess.identity_attempts <= FailedRows(d.req.session)
      /\ d.sess.otp_resends <= ResentRows(d.req.session)
      /\ d.req.tool = "check_eligibility" => d.req.choice \in Decisions
  BY <1>1, AUnderWay
<1>3. /\ c.phase = "ready" /\ c.req = b.req /\ c.sess = row /\ c.verdict = verdict
      /\ c.newId = b.newId /\ c.guess = b.guess /\ c.reply.state = row.state
  BY DEF ReadyCall, CallRecords, Reply
<1>4. /\ row.identity_attempts <= FailedRows(d.req.session)
                                    + OwnRow(c, "verify_identity", Failures)
      /\ row.otp_resends <= ResentRows(d.req.session) + OwnRow(c, "resend_otp", {"sent"})
  BY <1>1, <1>2, <1>3 DEF OwnRow, CountsOn
<1>5. Accounted(c)
  BY <1>1, <1>2, <1>3, <1>4 DEF Accounted
<1> QED
  BY <1>5, ACallStep

\* A handler that may be refused the move it wants.
LEMMA AProceedStep ==
  ASSUME IInv, GInv, NEW p \in Handlers, NEW target, NEW c, Proceed(p, target, c),
         CanMove(calls[p].sess.state, target) /\ calls' = [calls EXCEPT ![p] = c] => GInv'
  PROVE  GInv'
<1>1. CASE CanMove(calls[p].sess.state, target)
  BY <1>1 DEF Proceed
<1>2. CASE ~CanMove(calls[p].sess.state, target)
  BY <1>2, AOverStep DEF Proceed
<1> QED
  BY <1>1, <1>2

\* A handler that builds its response, if it may move the session.
LEMMA ADoneStep ==
  ASSUME IInv, LInv, GInv, NEW p \in Handlers, calls[p].phase = "loaded",
         NEW b \in CallRecords, b.req = calls[p].req, b.newId = 0,
         NEW row, NEW adds, NEW outcome, NEW verdict, NEW target,
         CountsOn(calls[p], row, verdict),
         b.guess.id # 0 => /\ b.guess.id \in Own(b.req.session)
                           /\ b.req.tool = "verify_otp" /\ verdict \in Compares,
         b.req.tool = "check_eligibility" => verdict \in Decisions,
         \/ Stay(p, ReadyCall(b, row, adds, outcome, verdict))
         \/ Proceed(p, target, ReadyCall(b, row, adds, outcome, verdict))
  PROVE  GInv'
<1>1. PICK c : c = ReadyCall(b, row, adds, outcome, verdict)
  OBVIOUS
<1>2. UNCHANGED <<sessions, challenges, artefacts, toolCalls>>
  BY DEF Stay, Proceed
<1>3. calls' = [calls EXCEPT ![p] = c] => GInv'
  <2>1. HAVE calls' = [calls EXCEPT ![p] = c]
  <2> QED
    BY <1>1, <1>2, <2>1, AReadyStep
<1> QED
  BY <1>1, <1>3, AProceedStep DEF Stay

\* A handler whose work counts nothing and compares no passcode.
LEMMA APlainStep ==
  ASSUME IInv, LInv, GInv, NEW p \in Handlers, calls[p].phase = "loaded",
         NEW row, NEW adds, NEW outcome, NEW verdict, NEW target,
         CountsOn(calls[p], row, verdict),
         calls[p].req.tool = "check_eligibility" => verdict \in Decisions,
         \/ Stay(p, ReadyCall(calls[p], row, adds, outcome, verdict))
         \/ Proceed(p, target, ReadyCall(calls[p], row, adds, outcome, verdict))
  PROVE  GInv'
<1>1. PICK b : b = calls[p]
  OBVIOUS
<1>2. b \in CallRecords /\ b.newId = 0 /\ b.guess.id = 0
  BY <1>1, AUnderWay
<1> QED
  BY <1>1, <1>2, ADoneStep

LEMMA AVerifyIdentityStep ==
  ASSUME IInv, LInv, GInv, NEW p \in Handlers,
         VerifyIdentityMatched(p) \/ VerifyIdentityUnknown(p) \/ VerifyIdentityFailed(p)
  PROVE  GInv'
<1> PICK c, cust : c = calls[p] /\ cust = c.req.claim.pan
  OBVIOUS
<1>1. c.phase = "loaded" /\ c.req.tool = "verify_identity"
  BY DEF VerifyIdentityMatched, VerifyIdentityUnknown, VerifyIdentityFailed, Working
<1>2. c \in CallRecords /\ c.sess \in SessionRows
  BY <1>1, AUnderWay
<1>3. CASE VerifyIdentityUnknown(p)
  <2>1. PICK row : /\ row = [c.sess EXCEPT !.state = "prospect"]
                   /\ Proceed(p, row.state,
                              ReadyCall(calls[p], row, {}, "not_registered", "pan_not_found"))
    BY <1>3 DEF VerifyIdentityUnknown
  <2>2. CountsOn(calls[p], row, "pan_not_found")
    BY <1>2, <2>1 DEF CountsOn, SessionRows
  <2> QED
    BY <1>1, <2>1, <2>2, APlainStep
<1>4. CASE VerifyIdentityFailed(p)
  <2>1. PICK row, outcome, verdict :
          /\ verdict = Kyc(c.req.claim)
          /\ row = [c.sess EXCEPT !.identity_attempts = @ + 1]
          /\ verdict \notin {"ok", "pan_not_found"}
          /\ Stay(p, ReadyCall(calls[p], row, {}, outcome, verdict))
    BY <1>4 DEF VerifyIdentityFailed
  <2>2. verdict \in Failures
    BY <2>1 DEF Kyc, Failures
  <2>3. CountsOn(calls[p], row, verdict)
    BY <1>1, <1>2, <2>1, <2>2 DEF CountsOn, SessionRows
  <2> QED
    BY <1>1, <2>1, <2>3, APlainStep
<1>5. CASE VerifyIdentityMatched(p)
  <2>1. PICK r, stop :
          /\ r = [c.sess EXCEPT !.customer = cust, !.state = "identity_matched"]
          /\ stop = IssueLimit(r, cust, FALSE)
    OBVIOUS
  <2>2. r.identity_attempts = c.sess.identity_attempts /\ r.otp_resends = c.sess.otp_resends
    BY <1>2, <2>1 DEF SessionRows
  <2>3. CASE stop # "none"
    <3>1. Proceed(p, r.state, ReadyCall(calls[p], r, {}, "blocked", stop))
      BY <1>5, <2>1, <2>3 DEF VerifyIdentityMatched
    <3>2. CountsOn(calls[p], r, stop)
      BY <2>2 DEF CountsOn
    <3> QED
      BY <1>1, <3>1, <3>2, APlainStep
  <2>4. CASE stop = "none"
    <3>1. PICK prev : Proceed(p, r.state, Issuing(p, r, cust, prev))
      BY <1>5, <2>1, <2>4 DEF VerifyIdentityMatched
    <3>2. PICK d : d = Issuing(p, r, cust, prev)
      OBVIOUS
    <3>3. d.phase = "staged" /\ d.req = c.req /\ d.guess = c.guess /\ d.sess = r
      BY <1>2, <3>2 DEF Issuing, CallRecords
    <3>4. calls' = [calls EXCEPT ![p] = d] => GInv'
      <4>1. HAVE calls' = [calls EXCEPT ![p] = d]
      <4>2. UNCHANGED <<sessions, challenges, artefacts, toolCalls>>
        BY <3>1 DEF Proceed
      <4>3. KeepsCounts(calls[p], d)
        BY <1>1, <2>2, <3>3 DEF KeepsCounts
      <4> QED
        BY <4>1, <4>2, <4>3, AStagedStep
    <3> QED
      BY <3>1, <3>2, <3>4, AProceedStep
  <2> QED
    BY <2>3, <2>4
<1> QED
  BY <1>3, <1>4, <1>5

LEMMA AVerifyOtpStep ==
  ASSUME IInv, LInv, GInv, NEW p \in Handlers, VerifyOtpUnchecked(p) \/ VerifyOtpChecked(p)
  PROVE  GInv'
<1>1. calls[p].phase = "loaded" /\ calls[p].req.tool = "verify_otp"
  BY DEF VerifyOtpUnchecked, VerifyOtpChecked, Working
<1>2. calls[p] \in CallRecords /\ calls[p].newId = 0 /\ calls[p].sess \in SessionRows
  BY <1>1, AUnderWay
<1>3. CASE VerifyOtpUnchecked(p)
  <2>1. \A verdict : CountsOn(calls[p], calls[p].sess, verdict)
    BY DEF CountsOn
  <2> QED
    BY <1>1, <1>3, <2>1, APlainStep DEF VerifyOtpUnchecked
<1>4. CASE VerifyOtpChecked(p)
  <2>1. PICK i \in DOMAIN challenges :
          LET c == calls[p]
              tries == challenges[i].attempts + 1
              hit   == c.req.code = i
              row   == [c.sess EXCEPT !.state = "identity_verified"]
              try   == [c EXCEPT !.guess = [id |-> i, attempts |-> tries, ok |-> hit]]
          IN /\ IsActive(c.req.session, i)
             /\ IF hit
                THEN Proceed(p, row.state, ReadyCall(try, row, {}, "ok", "ok"))
                ELSE IF tries >= MaxVerifyAttempts
                THEN Stay(p, ReadyCall(try, c.sess, {}, "blocked", "attempts_exhausted"))
                ELSE Stay(p, ReadyCall(try, c.sess, {}, "retry", "wrong_code"))
    BY <1>4 DEF VerifyOtpChecked
  <2>2. challenges[i].attempts \in Nat /\ i \in Nat /\ i # 0
    BY DEF IInv, TypeOK, ChallengeRows
  <2>3. i \in Own(calls[p].req.session)
    BY <2>1, <2>2 DEF IsActive, Unconsumed, Own
  <2>4. PICK g : g = [id |-> i, attempts |-> challenges[i].attempts + 1,
                      ok |-> calls[p].req.code = i]
    OBVIOUS
  <2>5. g \in Guesses /\ g.id = i
    BY <2>2, <2>4 DEF Guesses
  <2>6. PICK b : b = [calls[p] EXCEPT !.guess = g]
    OBVIOUS
  <2>7. b \in CallRecords /\ b.newId = 0 /\ b.req = calls[p].req /\ b.guess = g
    BY <1>2, <2>5, <2>6 DEF CallRecords
  <2>8. PICK row, outcome, verdict, target :
          /\ row \in {calls[p].sess, [calls[p].sess EXCEPT !.state = "identity_verified"]}
          /\ verdict \in Compares
          /\ \/ Stay(p, ReadyCall(b, row, {}, outcome, verdict))
             \/ Proceed(p, target, ReadyCall(b, row, {}, outcome, verdict))
    <3>1. CASE calls[p].req.code = i
      BY <2>1, <2>4, <2>6, <3>1
    <3>2. CASE calls[p].req.code # i /\ challenges[i].attempts + 1 >= MaxVerifyAttempts
      BY <2>1, <2>4, <2>6, <3>2
    <3>3. CASE calls[p].req.code # i /\ ~(challenges[i].attempts + 1 >= MaxVerifyAttempts)
      BY <2>1, <2>4, <2>6, <3>3
    <3> QED
      BY <3>1, <3>2, <3>3
  <2>9. CountsOn(calls[p], row, verdict)
    BY <1>2, <2>8 DEF CountsOn, SessionRows
  <2> QED
    BY <1>1, <2>3, <2>5, <2>7, <2>8, <2>9, ADoneStep
<1> QED
  BY <1>3, <1>4

LEMMA AResendOtpStep ==
  ASSUME IInv, LInv, GInv, NEW p \in Handlers, ResendOtp(p)
  PROVE  GInv'
<1> PICK c, stop : c = calls[p] /\ stop = IssueLimit(c.sess, c.sess.customer, TRUE)
  OBVIOUS
<1>1. c.phase = "loaded" /\ c.req.tool = "resend_otp"
  BY DEF ResendOtp, Working
<1>2. c \in CallRecords
  BY <1>1, AUnderWay
<1>3. CASE stop # "none"
  <2>1. CountsOn(calls[p], c.sess, stop)
    BY DEF CountsOn
  <2> QED
    BY <1>1, <1>3, <2>1, APlainStep DEF ResendOtp
<1>4. CASE stop = "none"
  <2>1. PICK prev : Stay(p, Issuing(p, c.sess, c.sess.customer, prev))
    BY <1>4 DEF ResendOtp
  <2>2. PICK d : d = Issuing(p, c.sess, c.sess.customer, prev)
    OBVIOUS
  <2>3. d.phase = "staged" /\ d.guess = c.guess /\ d.req = c.req /\ d.sess = c.sess
    BY <1>2, <2>2 DEF Issuing, CallRecords
  <2>4. KeepsCounts(calls[p], d)
    BY <1>1, <2>3 DEF KeepsCounts
  <2> QED
    BY <2>1, <2>2, <2>4, AStagedStep DEF Stay
<1> QED
  BY <1>3, <1>4

LEMMA ACaptureLeadStep ==
  ASSUME IInv, LInv, GInv, NEW p \in Handlers, CaptureLead(p)
  PROVE  GInv'
<1> PICK c, row : c = calls[p] /\ row = [c.sess EXCEPT !.state = "lead_captured"]
  OBVIOUS
<1>1. c.phase = "loaded" /\ c.req.tool = "capture_lead"
  BY DEF CaptureLead, Working
<1>2. c \in CallRecords /\ c.sess \in SessionRows
  BY <1>1, AUnderWay
<1>3. PICK d : /\ d = [c EXCEPT !.phase = "staged", !.sess = row, !.adds = {"lead", "link"}]
               /\ Proceed(p, row.state, d)
  BY DEF CaptureLead
<1>4. /\ d.phase = "staged" /\ d.guess = c.guess /\ d.sess = row /\ d.req = c.req
      /\ row.identity_attempts = c.sess.identity_attempts
      /\ row.otp_resends = c.sess.otp_resends
  BY <1>2, <1>3 DEF CallRecords, SessionRows
<1>5. calls' = [calls EXCEPT ![p] = d] => GInv'
  <2>1. HAVE calls' = [calls EXCEPT ![p] = d]
  <2>2. UNCHANGED <<sessions, challenges, artefacts, toolCalls>>
    BY <1>3 DEF Proceed
  <2>3. KeepsCounts(calls[p], d)
    BY <1>1, <1>4 DEF KeepsCounts
  <2> QED
    BY <2>1, <2>2, <2>3, AStagedStep
<1> QED
  BY <1>3, <1>5, AProceedStep

LEMMA AOtherWorkStep ==
  ASSUME IInv, LInv, GInv, NEW p \in Handlers,
         CheckEligibility(p) \/ RecordConsent(p) \/ Escalate(p)
  PROVE  GInv'
<1> PICK c : c = calls[p]
  OBVIOUS
<1>1. c.phase = "loaded"
  BY DEF CheckEligibility, RecordConsent, Escalate, Working
<1>2. c.sess \in SessionRows /\ (c.req.tool = "check_eligibility" => c.req.choice \in Decisions)
  BY <1>1, AUnderWay
<1>3. \A st, verdict : CountsOn(calls[p], [c.sess EXCEPT !.state = st], verdict)
  BY <1>2 DEF CountsOn, SessionRows
<1>4. \A verdict : CountsOn(calls[p], c.sess, verdict)
  BY DEF CountsOn
<1>5. CASE CheckEligibility(p)
  <2>1. PICK row, outcome, verdict :
          /\ row = [c.sess EXCEPT !.state = "eligibility_assessed"]
          /\ c.req.tool = "check_eligibility" /\ verdict = c.req.choice
          /\ Proceed(p, row.state,
                     ReadyCall(calls[p], row, {"assessment"}, outcome, verdict))
    BY <1>5 DEF CheckEligibility, Working
  <2>2. CountsOn(calls[p], row, verdict)
    BY <1>3, <2>1
  <2> QED
    BY <1>1, <1>2, <2>1, <2>2, APlainStep
<1>6. CASE RecordConsent(p)
  <2>1. PICK row, adds, outcome, verdict, target :
          /\ c.req.tool = "record_consent"
          /\ row \in {c.sess, [c.sess EXCEPT !.state = "completed"]}
          /\ \/ Stay(p, ReadyCall(calls[p], row, adds, outcome, verdict))
             \/ Proceed(p, target, ReadyCall(calls[p], row, adds, outcome, verdict))
    BY <1>6 DEF RecordConsent, Working
  <2>2. CountsOn(calls[p], row, verdict)
    BY <1>3, <1>4, <2>1
  <2> QED
    BY <1>1, <2>1, <2>2, APlainStep
<1>7. CASE Escalate(p)
  <2>1. PICK row : /\ row = [c.sess EXCEPT !.state = "escalated"]
                   /\ c.req.tool = "escalate"
                   /\ Proceed(p, row.state, ReadyCall(calls[p], row, {"ticket"}, "ok", "none"))
    BY <1>7 DEF Escalate, Working
  <2>2. CountsOn(calls[p], row, "none")
    BY <1>3, <2>1
  <2> QED
    BY <1>1, <2>1, <2>2, APlainStep
<1> QED
  BY <1>5, <1>6, <1>7

\* The flush, and the message.
LEMMA AWriteSessionStep ==
  ASSUME IInv, LInv, GInv, NEW p \in Handlers, WriteSession(p)
  PROVE  GInv'
<1>1. PICK c, d : /\ c = calls[p] /\ c \in CallRecords /\ Accounted(c)
                  /\ d = Written(c) /\ calls' = [calls EXCEPT ![p] = d]
  BY DEF WriteSession, Stay, IInv, TypeOK, GInv
<1>2. /\ d.phase = c.phase /\ d.req = c.req /\ d.sess = c.sess /\ d.newId = c.newId
      /\ d.guess = c.guess /\ d.verdict = c.verdict /\ d.reply = c.reply
  BY <1>1, WrittenOK
<1>3. Accounted(d)
  BY <1>1, <1>2 DEF Accounted, OwnRow
<1> QED
  BY <1>1, <1>3, ACallStep DEF WriteSession, Stay

LEMMA ASendStep ==
  ASSUME IInv, LInv, GInv, NEW p \in Handlers, Send(p), ~WriteSession(p)
  PROVE  GInv'
<1> PICK c : c = calls[p]
  OBVIOUS
<1>1. c.phase \in {"staged", "sending"}
  BY DEF Send, FlushChallenge, FlushLink, PasscodeDelivered, PasscodeUndelivered, LinkEmailed
<1>2. /\ c \in CallRecords /\ c.sess \in SessionRows /\ c.guess.id = 0
      /\ c.req.tool # "check_eligibility"
      /\ c.newId # 0 => c.issue # None
      /\ c.issue # None => c.req.tool \in Issuers
  BY <1>1, AUnderWay
<1>3. UNCHANGED <<sessions, challenges, artefacts, toolCalls>>
  BY DEF Send, FlushChallenge, FlushLink, PasscodeDelivered, PasscodeUndelivered, LinkEmailed,
         Stay
<1>4. CASE FlushChallenge(p)
  <2>1. PICK f : f = [c EXCEPT !.newId = lastId + 1, !.newAt = now,
                               !.written = WritesSession(c)]
    OBVIOUS
  <2>2. PICK d : /\ calls' = [calls EXCEPT ![p] = d]
                 /\ \/ d = [f EXCEPT !.phase = "sending"]
                    \/ d = ReadyCall(f, c.sess, {}, "error", "delivery_failed")
    BY <1>4, <2>1 DEF FlushChallenge
  <2>3. lastId + 1 \in Nat /\ now \in Nat
    BY DEF IInv, TypeOK
  <2>4. f \in CallRecords /\ f.req = c.req /\ f.guess = c.guess /\ f.sess = c.sess
    BY <1>2, <2>1, <2>3 DEF CallRecords, WritesSession
  <2>5. c.req.tool \in Issuers
    BY <1>2, <1>4 DEF FlushChallenge
  <2>6. CASE d = [f EXCEPT !.phase = "sending"]
    <3>1. KeepsCounts(calls[p], d)
      BY <1>1, <1>2, <2>4, <2>6 DEF KeepsCounts, CallRecords
    <3> QED
      BY <1>3, <2>2, <3>1, AStagedStep
  <2>7. CASE d = ReadyCall(f, c.sess, {}, "error", "delivery_failed")
    <3>1. CountsOn(calls[p], c.sess, "delivery_failed")
      BY DEF CountsOn
    <3> QED
      BY <1>1, <1>2, <1>3, <2>2, <2>4, <2>5, <2>7, <3>1, AReadyStep
  <2> QED
    BY <2>2, <2>6, <2>7
<1>5. CASE FlushLink(p)
  <2>1. PICK d : /\ d = [c EXCEPT !.phase = "sending", !.written = WritesSession(c)]
                 /\ calls' = [calls EXCEPT ![p] = d]
    BY <1>5 DEF FlushLink, Stay
  <2>2. KeepsCounts(calls[p], d)
    BY <1>1, <1>2, <2>1 DEF KeepsCounts, CallRecords
  <2> QED
    BY <1>3, <2>1, <2>2, AStagedStep
<1>6. CASE PasscodeDelivered(p) \/ PasscodeUndelivered(p) \/ LinkEmailed(p)
  <2>1. PICK row, adds, outcome, verdict, d :
          /\ calls' = [calls EXCEPT ![p] = d] /\ d = ReadyCall(c, row, adds, outcome, verdict)
          /\ verdict \in CodeSent /\ (c.newId # 0 => c.req.tool \in Issuers)
          /\ \/ row = c.sess
             \/ /\ c.req.tool = "resend_otp" /\ verdict = "sent"
                /\ row = [c.sess EXCEPT !.otp_resends = @ + 1]
    BY <1>2, <1>6 DEF PasscodeDelivered, PasscodeUndelivered, LinkEmailed, Stay
  <2>2. CountsOn(calls[p], row, verdict)
    BY <1>2, <2>1 DEF CountsOn, SessionRows
  <2> QED
    BY <1>1, <1>2, <1>3, <2>1, <2>2, AReadyStep
<1> QED
  BY <1>4, <1>5, <1>6 DEF Send

\* Everybody's rows only grow, and so do the passcodes of a session.
LEMMA AKeptByCommit ==
  ASSUME IInv, GInv, NEW p \in Handlers, NEW c,
         calls' = [calls EXCEPT ![p] = c], c.phase \in {"idle", "answered"},
         \A s \in Sessions : /\ FailedRows(s)' >= FailedRows(s) /\ ResentRows(s)' >= ResentRows(s)
                             /\ FailedRows(s)' \in Nat /\ ResentRows(s)' \in Nat
                             /\ FailedRows(s) \in Nat /\ ResentRows(s) \in Nat
                             /\ Own(s) \subseteq Own(s)'
  PROVE  \A r \in Handlers : Accounted(calls[r])'
<1> TAKE r \in Handlers
<1>1. calls'[r] = IF r = p THEN c ELSE calls[r]
  BY DEF IInv, TypeOK
<1>2. CASE r = p
  BY <1>1, <1>2 DEF Accounted
<1>3. CASE r # p
  <2>1. PICK d : d = calls[r] /\ d = calls'[r]
    BY <1>1, <1>3
  <2>2. Accounted(d)
    BY <2>1 DEF GInv
  <2>3. ASSUME d.phase \in InFlightPhases
        PROVE  /\ d.req.session \in Sessions /\ d.sess \in SessionRows
               /\ d.sess.identity_attempts \in Nat /\ d.sess.otp_resends \in Nat
    BY <2>1, <2>3, InFlightCall DEF SessionRows
  <2>4. /\ OwnRow(d, "verify_identity", Failures) \in {0, 1}
        /\ OwnRow(d, "resend_otp", {"sent"}) \in {0, 1}
    BY DEF OwnRow
  <2>5. PICK s : s = d.req.session
    OBVIOUS
  <2>6. ASSUME d.phase \in InFlightPhases
        PROVE  /\ d.sess.identity_attempts <= FailedRows(s)'
                                               + OwnRow(d, "verify_identity", Failures)
               /\ d.sess.otp_resends <= ResentRows(s)' + OwnRow(d, "resend_otp", {"sent"})
               /\ Own(s) \subseteq Own(s)'
    <3>1. /\ d.sess.identity_attempts <= FailedRows(s)
                                          + OwnRow(d, "verify_identity", Failures)
          /\ d.sess.otp_resends <= ResentRows(s) + OwnRow(d, "resend_otp", {"sent"})
      BY <2>2, <2>5, <2>6 DEF Accounted
    <3> QED
      BY <2>3, <2>4, <2>5, <2>6, <3>1
  <2> QED
    BY <2>1, <2>2, <2>5, <2>6 DEF Accounted, OwnRow, FailedRows, ResentRows
<1> QED
  BY <1>2, <1>3

\* The rows a commit adds to the counts.
\* A row is added behind the others.
LEMMA AppendKeeps ==
  ASSUME NEW rows \in Seq(AuditRows), NEW row \in AuditRows
  PROVE  /\ \A i \in DOMAIN rows : /\ i \in DOMAIN Append(rows, row)
                                  /\ Append(rows, row)[i] = rows[i]
         /\ \E i \in DOMAIN Append(rows, row) : Append(rows, row)[i] = row
<1>1. /\ Len(rows) \in Nat /\ DOMAIN rows = 1..Len(rows)
      /\ DOMAIN Append(rows, row) = 1..(Len(rows) + 1)
  OBVIOUS
<1>2. \A i \in DOMAIN rows : /\ i \in DOMAIN Append(rows, row)
                             /\ Append(rows, row)[i] = rows[i]
  BY <1>1
<1>3. /\ Len(rows) + 1 \in DOMAIN Append(rows, row)
      /\ Append(rows, row)[Len(rows) + 1] = row
  BY <1>1
<1> QED
  BY <1>2, <1>3

LEMMA RowAdded ==
  ASSUME IInv, NEW s \in Sessions, NEW entry \in AuditRows,
         toolCalls' = [toolCalls EXCEPT ![s] = Append(toolCalls[s], entry)],
         NEW t \in Sessions, NEW T, NEW V
  PROVE  /\ RowCount(toolCalls[t], T, V) \in Nat
         /\ RowCount(toolCalls'[t], T, V) =
              IF t = s /\ entry.tool \in T /\ entry.verdict \in V
              THEN RowCount(toolCalls[t], T, V) + 1 ELSE RowCount(toolCalls[t], T, V)
<1>1. toolCalls[t] \in Seq(AuditRows)
  BY DEF IInv, TypeOK
<1>2. toolCalls'[t] = IF t = s THEN Append(toolCalls[t], entry) ELSE toolCalls[t]
  BY DEF IInv, TypeOK
<1> QED
  BY <1>1, <1>2, CountAppend

LEMMA UpdatedKeeps ==
  ASSUME NEW row \in ChallengeRows, NEW i, NEW c
  PROVE  /\ UpdatedChallenge(row, i, c).session = row.session
         /\ UpdatedChallenge(row, i, c).attempts = row.attempts \/ i = c.guess.id
BY DEF UpdatedChallenge, ChallengeRows

\* The passcodes of a session after a commit, and the attempts on them.
LEMMA CommitPasscodes ==
  ASSUME IInv, NEW p \in Handlers, RecordCall(p), NEW c, c = calls[p]
  PROVE  /\ \A t \in Sessions :
              Own(t)' = Own(t) \cup (IF t = c.req.session THEN {c.newId} \ {0} ELSE {})
         /\ c.newId \notin Own(c.req.session)
         /\ \A t \in Sessions : \A i \in Own(t)' :
              challenges'[i].attempts > 0 =>
                (i \in Own(t) /\ challenges[i].attempts > 0) \/ (i = c.guess.id /\ i # 0)
<1>1. /\ c.phase = "ready"
      /\ challenges' = [i \in DOMAIN challenges \cup ({c.newId} \ {0}) |->
                         IF i \in {c.newId} \ {0} THEN NewChallenge(c)
                         ELSE UpdatedChallenge(challenges[i], i, c)]
  BY DEF RecordCall
<1>2. GoodCall(c) /\ c.newId \in Nat
  BY <1>1, InFlightCall DEF CallRecords
<1>3. 0 \notin DOMAIN challenges /\ c.newId \notin DOMAIN challenges
  <2>1. 0 \notin DOMAIN challenges
    BY DEF IInv, TypeOK
  <2> QED
    BY <1>1, <1>2, <2>1 DEF GoodCall
<1>4. \A i \in DOMAIN challenges :
        /\ challenges[i] \in ChallengeRows
        /\ i \in DOMAIN challenges' /\ challenges'[i] = UpdatedChallenge(challenges[i], i, c)
  BY <1>1, <1>3 DEF IInv, TypeOK
<1>5. \A i \in DOMAIN challenges :
        /\ challenges'[i].session = challenges[i].session
        /\ challenges'[i].attempts = challenges[i].attempts \/ i = c.guess.id
  BY <1>4, UpdatedKeeps
<1>6. \A i \in DOMAIN challenges' :
        i \in DOMAIN challenges \/ (i = c.newId /\ i # 0 /\ challenges'[i] = NewChallenge(c))
  BY <1>1
<1>7. c.newId # 0 => c.newId \in DOMAIN challenges' /\ challenges'[c.newId] = NewChallenge(c)
  BY <1>1
<1>8. NewChallenge(c).session = c.req.session /\ NewChallenge(c).attempts = 0
  BY DEF NewChallenge
<1>9. \A t \in Sessions :
        Own(t)' = Own(t) \cup (IF t = c.req.session THEN {c.newId} \ {0} ELSE {})
  BY <1>4, <1>5, <1>6, <1>7, <1>8 DEF Own
<1>10. c.newId \notin Own(c.req.session)
  BY <1>3 DEF Own
<1>11. ASSUME NEW t \in Sessions, NEW i \in Own(t)', challenges'[i].attempts > 0
       PROVE  (i \in Own(t) /\ challenges[i].attempts > 0) \/ (i = c.guess.id /\ i # 0)
  <2>1. i \in DOMAIN challenges' /\ challenges'[i].session = t
    BY DEF Own
  <2>2. i \in DOMAIN challenges
    BY <1>6, <1>8, <1>11, <2>1
  <2> QED
    BY <1>3, <1>5, <1>11, <2>1, <2>2 DEF Own
<1> QED
  BY <1>9, <1>10, <1>11

LEMMA ARecordCallStep ==
  ASSUME IInv, LInv, GInv, NEW p \in Handlers, RecordCall(p)
  PROVE  GInv'
<1> PICK c, s, entry :
      /\ c = calls[p] /\ s = c.req.session
      /\ entry = [tool |-> c.req.tool, key |-> c.req.key,
                  verdict |-> c.verdict, reply |-> c.reply]
  OBVIOUS
<1>1. /\ c.phase = "ready"
      /\ sessions' = [sessions EXCEPT ![s] = UpdatedRow(sessions[s], c.loaded, c.sess)]
      /\ artefacts' = [artefacts EXCEPT ![s] =
                         [k \in Artefacts |-> IF k \in c.adds THEN artefacts[s][k] + 1
                                              ELSE artefacts[s][k]]]
      /\ toolCalls' = [toolCalls EXCEPT ![s] = Append(toolCalls[s], entry)]
      /\ calls' = [calls EXCEPT ![p] = AnsweredCall(c.req, c.reply)]
  BY DEF RecordCall
<1>2. /\ c \in CallRecords /\ GoodCall(c) /\ c.req \in Requests /\ s \in Sessions
      /\ c.sess \in SessionRows /\ c.loaded \in SessionRows /\ sessions[s] \in SessionRows
      /\ Books(c) /\ Accounted(c)
  <2>1. /\ c \in CallRecords /\ GoodCall(c) /\ c.req \in Requests /\ s \in Sessions
        /\ c.sess \in SessionRows /\ c.loaded \in SessionRows
    BY <1>1, InFlightCall
  <2>2. sessions[s] \in SessionRows
    BY <1>1, <2>1 DEF GoodCall, IInv, TypeOK
  <2> QED
    BY <2>1, <2>2 DEF LInv, GInv
<1>3. /\ entry \in AuditRows /\ entry.tool = c.req.tool /\ entry.verdict = c.verdict
      /\ entry.reply = c.reply
  BY <1>1, <1>2 DEF GoodCall, AuditRows, CallRecords, Requests
<1>4. \A t \in Sessions : \A T, V :
        /\ RowCount(toolCalls[t], T, V) \in Nat
        /\ RowCount(toolCalls'[t], T, V) =
             IF t = s /\ entry.tool \in T /\ entry.verdict \in V
             THEN RowCount(toolCalls[t], T, V) + 1 ELSE RowCount(toolCalls[t], T, V)
  BY <1>1, <1>2, <1>3, RowAdded
<1>5. /\ \A t \in Sessions :
           Own(t)' = Own(t) \cup (IF t = s THEN {c.newId} \ {0} ELSE {})
      /\ c.newId \notin Own(s)
      /\ \A t \in Sessions : \A i \in Own(t)' :
           challenges'[i].attempts > 0 =>
             (i \in Own(t) /\ challenges[i].attempts > 0) \/ (i = c.guess.id /\ i # 0)
  BY CommitPasscodes
<1>6. \A r \in Handlers : Accounted(calls[r])'
  <2>1. PICK d : d = AnsweredCall(c.req, c.reply)
    OBVIOUS
  <2>2. d.phase = "answered"
    BY <2>1, UnlockedForms
  <2>3. \A t \in Sessions :
          /\ FailedRows(t)' >= FailedRows(t) /\ ResentRows(t)' >= ResentRows(t)
          /\ FailedRows(t)' \in Nat /\ ResentRows(t)' \in Nat
          /\ FailedRows(t) \in Nat /\ ResentRows(t) \in Nat
    <3> TAKE t \in Sessions
    <3>1. PICK f, g, n, m :
            /\ f = FailedRows(t) /\ f = RowCount(toolCalls[t], {"verify_identity"}, Failures)
            /\ g = FailedRows(t)' /\ g = RowCount(toolCalls'[t], {"verify_identity"}, Failures)
            /\ n = ResentRows(t) /\ n = RowCount(toolCalls[t], {"resend_otp"}, {"sent"})
            /\ m = ResentRows(t)' /\ m = RowCount(toolCalls'[t], {"resend_otp"}, {"sent"})
      BY DEF FailedRows, ResentRows, RowCount
    <3>2. f \in Nat /\ g \in {f, f + 1} /\ n \in Nat /\ m \in {n, n + 1}
      BY <1>4, <3>1
    <3> QED
      BY <3>1, <3>2
  <2>4. \A t \in Sessions : Own(t) \subseteq Own(t)'
    BY <1>5
  <2> QED
    BY <1>1, <2>1, <2>2, <2>3, <2>4, AKeptByCommit
<1>7. ASSUME NEW t \in Sessions PROVE TablesCovered(t)'
  <2> DEFINE Before(T, V) == RowCount(toolCalls[t], T, V)
  <2> DEFINE After(T, V) == RowCount(toolCalls'[t], T, V)
  <2> DEFINE mine(T, V) == t = s /\ entry.tool \in T /\ entry.verdict \in V
  <2>1. \A T, V : /\ Before(T, V) \in Nat
                  /\ After(T, V) = IF mine(T, V) THEN Before(T, V) + 1 ELSE Before(T, V)
    BY <1>4
  <2> HIDE DEF Before, After
  <2>2. TablesCovered(t)
    BY DEF GInv
  <2>3. artefacts'[t]["assessment"] <= After({"check_eligibility"}, Decisions)
    <3>1. artefacts[t]["assessment"] \in Nat
      BY DEF IInv, TypeOK, Artefacts
    <3>2. artefacts[t]["assessment"] <= Before({"check_eligibility"}, Decisions)
      BY <2>2 DEF TablesCovered, Before
    <3>3. artefacts'[t]["assessment"] =
            IF t = s /\ "assessment" \in c.adds THEN artefacts[t]["assessment"] + 1
            ELSE artefacts[t]["assessment"]
      BY <1>1, <1>2 DEF IInv, TypeOK, Artefacts
    <3>4. t = s /\ "assessment" \in c.adds => mine({"check_eligibility"}, Decisions)
      BY <1>1, <1>2, <1>3 DEF Books, Matches, Accounted
    <3> HIDE DEF mine
    <3> QED
      BY <2>1, <3>1, <3>2, <3>3, <3>4
  <2>4. Cardinality(Own(t)') <= After(Issuers, CodeSent)
    <3>1. Cardinality(Own(t)) <= Before(Issuers, CodeSent)
      BY <2>2 DEF TablesCovered, Before
    <3>2. IsFiniteSet(Own(t)) /\ Cardinality(Own(t)) \in Nat
      BY FewOwn
    <3>3. CASE t = s /\ c.newId # 0
      <4>1. Own(t)' = Own(t) \cup {c.newId} /\ c.newId \notin Own(t)
        BY <1>5, <3>3
      <4>2. Cardinality(Own(t)') = Cardinality(Own(t)) + 1
        BY <3>2, <4>1, FS_AddElement
      <4>3. mine(Issuers, CodeSent)
        BY <1>1, <1>2, <1>3, <3>3 DEF Accounted
      <4> HIDE DEF mine
      <4> QED
        BY <2>1, <3>1, <3>2, <4>2, <4>3
    <3>4. CASE ~(t = s /\ c.newId # 0)
      <4>1. Own(t)' = Own(t)
        BY <1>5, <3>4
      <4> HIDE DEF mine
      <4> QED
        BY <2>1, <3>1, <3>2, <4>1
    <3> QED
      BY <3>3, <3>4
  <2>5. (\E i \in Own(t)' : challenges'[i].attempts > 0) => After({"verify_otp"}, Compares) > 0
    <3>1. SUFFICES ASSUME NEW i \in Own(t)', challenges'[i].attempts > 0
                   PROVE  After({"verify_otp"}, Compares) > 0
      OBVIOUS
    <3>2. CASE i \in Own(t) /\ challenges[i].attempts > 0
      <4>1. Before({"verify_otp"}, Compares) > 0
        BY <2>2, <3>2 DEF TablesCovered, Before
      <4> HIDE DEF mine
      <4> QED
        BY <2>1, <4>1
    <3>3. CASE i = c.guess.id /\ i # 0 /\ ~(i \in Own(t) /\ challenges[i].attempts > 0)
      <4>1. c.guess.id \in Own(s) /\ c.req.tool = "verify_otp" /\ c.verdict \in Compares
        BY <1>1, <1>2, <3>3 DEF Accounted
      <4>2. i \in Own(s)' /\ t = s
        <5>1. i \in Own(s)'
          BY <1>2, <1>5, <3>3, <4>1
        <5> QED
          BY <5>1 DEF Own
      <4>3. mine({"verify_otp"}, Compares)
        BY <1>3, <4>1, <4>2
      <4> HIDE DEF mine
      <4> QED
        BY <2>1, <4>3
    <3> QED
      BY <1>5, <3>1, <3>2, <3>3
  <2>6. t \in Opened' => CoversRow(sessions'[t], toolCalls'[t])
    <3>1. CASE t # s
      <4>1. sessions'[t] = sessions[t] /\ toolCalls'[t] = toolCalls[t]
        BY <1>1, <1>2, <3>1 DEF IInv, TypeOK
      <4> QED
        BY <2>2, <4>1 DEF TablesCovered, Opened
    <3>2. CASE t = s
      <4>1. PICK row, old : row = sessions'[s] /\ old = sessions[s]
        OBVIOUS
      <4>2. /\ row.state \in {old.state, c.sess.state}
            /\ row.identity_attempts \in {old.identity_attempts, c.sess.identity_attempts}
            /\ row.otp_resends \in {old.otp_resends, c.sess.otp_resends}
        BY <1>1, <1>2, <4>1 DEF IInv, TypeOK, UpdatedRow, Column
      <4>3. CoversRow(old, toolCalls[s])
        BY <1>1, <1>2, <2>2, <3>2, <4>1 DEF TablesCovered, Opened, GoodCall
      <4>4. row.state \in {"started"} \cup {toolCalls'[s][i].reply.state : i \in DOMAIN toolCalls'[s]}
        <5>1. /\ toolCalls[s] \in Seq(AuditRows)
              /\ toolCalls'[s] = Append(toolCalls[s], entry)
          BY <1>1, <1>2 DEF IInv, TypeOK
        <5>2. PICK rows : rows = toolCalls[s]
          OBVIOUS
        <5>3. /\ \A i \in DOMAIN rows : /\ i \in DOMAIN Append(rows, entry)
                                        /\ Append(rows, entry)[i] = rows[i]
              /\ \E i \in DOMAIN Append(rows, entry) : Append(rows, entry)[i] = entry
          <6>1. rows \in Seq(AuditRows) /\ entry \in AuditRows
            BY <5>1, <5>2, <1>3
          <6> QED
            BY <6>1, AppendKeeps
        <5>4. PICK more : more = Append(rows, entry)
          OBVIOUS
        <5>5. old.state \in {"started"} \cup {rows[i].reply.state : i \in DOMAIN rows}
          BY <4>3, <5>2 DEF CoversRow
        <5>6. c.sess.state \in {more[i].reply.state : i \in DOMAIN more}
          <6>1. entry.reply.state = c.sess.state
            BY <1>1, <1>2, <1>3 DEF Accounted
          <6> QED
            BY <5>3, <5>4, <6>1
        <5>7. old.state \in {"started"} \cup {more[i].reply.state : i \in DOMAIN more}
          BY <5>3, <5>4, <5>5
        <5>8. row.state \in {"started"} \cup {more[i].reply.state : i \in DOMAIN more}
          BY <4>2, <5>6, <5>7
        <5>9. toolCalls'[s] = more
          BY <5>1, <5>2, <5>4
        <5> QED
          BY <5>8, <5>9
      <4>5. row.identity_attempts <= After({"verify_identity"}, Failures)
        <5>1. old.identity_attempts <= Before({"verify_identity"}, Failures)
          BY <3>2, <4>3 DEF CoversRow, Before
        <5>2. c.sess.identity_attempts <=
                Before({"verify_identity"}, Failures) + OwnRow(c, "verify_identity", Failures)
          BY <1>1, <1>2, <3>2 DEF Accounted, FailedRows, Before
        <5>3. OwnRow(c, "verify_identity", Failures) =
                IF mine({"verify_identity"}, Failures) THEN 1 ELSE 0
          BY <1>1, <1>3, <3>2 DEF OwnRow
        <5>4. old.identity_attempts \in Nat /\ c.sess.identity_attempts \in Nat
          BY <1>2, <4>1 DEF SessionRows
        <5> HIDE DEF mine
        <5> QED
          BY <2>1, <4>2, <5>1, <5>2, <5>3, <5>4
      <4>6. row.otp_resends <= After({"resend_otp"}, {"sent"})
        <5>1. old.otp_resends <= Before({"resend_otp"}, {"sent"})
          BY <3>2, <4>3 DEF CoversRow, Before
        <5>2. c.sess.otp_resends <=
                Before({"resend_otp"}, {"sent"}) + OwnRow(c, "resend_otp", {"sent"})
          BY <1>1, <1>2, <3>2 DEF Accounted, ResentRows, Before
        <5>3. OwnRow(c, "resend_otp", {"sent"}) =
                IF mine({"resend_otp"}, {"sent"}) THEN 1 ELSE 0
          BY <1>1, <1>3, <3>2 DEF OwnRow
        <5>4. old.otp_resends \in Nat /\ c.sess.otp_resends \in Nat
          BY <1>2, <4>1 DEF SessionRows
        <5> HIDE DEF mine
        <5> QED
          BY <2>1, <4>2, <5>1, <5>2, <5>3, <5>4
      <4>7. CoversRow(row, toolCalls'[t])
        BY <3>2, <4>4, <4>5, <4>6 DEF CoversRow, After
      <4> QED
        BY <3>2, <4>1, <4>7
    <3> QED
      BY <3>1, <3>2
  <2> QED
    BY <2>3, <2>4, <2>5, <2>6 DEF TablesCovered, After, CoversRow, RowCount
<1> QED
  BY <1>6, <1>7 DEF GInv

LEMMA AStartSessionStep ==
  ASSUME IInv, GInv, NEW s \in Sessions, StartSession(s)
  PROVE  GInv'
<1>1. UNCHANGED <<challenges, artefacts, toolCalls, calls>>
  BY DEF StartSession
<1>2. \A p \in Handlers : Accounted(calls[p])'
  <2> TAKE p \in Handlers
  <2>1. Own(calls[p].req.session)' = Own(calls[p].req.session) /\ Accounted(calls[p])
    BY <1>1 DEF Own, GInv
  <2> QED
    BY <1>1, <2>1 DEF Accounted, FailedRows, ResentRows, OwnRow
<1>3. ASSUME NEW t \in Sessions PROVE TablesCovered(t)'
  <2>1. TablesCovered(t) /\ toolCalls[t] \in Seq(AuditRows)
    BY DEF GInv, IInv, TypeOK
  <2>2. CoversRow(sessions'[t], toolCalls[t]) \/ t \notin Opened'
    <3>1. CASE t = s
      <4>1. PICK row : row = sessions'[t]
        OBVIOUS
      <4>2. row.state = "started" /\ row.identity_attempts = 0 /\ row.otp_resends = 0
        BY <3>1, <4>1 DEF StartSession, IInv, TypeOK
      <4>3. /\ RowCount(toolCalls[t], {"verify_identity"}, Failures) \in Nat
            /\ RowCount(toolCalls[t], {"resend_otp"}, {"sent"}) \in Nat
        BY <2>1, RowCountNat
      <4>4. CoversRow(row, toolCalls[t])
        BY <4>2, <4>3 DEF CoversRow
      <4> QED
        BY <4>1, <4>4
    <3>2. CASE t # s
      <4>1. sessions'[t] = sessions[t]
        BY <3>2 DEF StartSession, IInv, TypeOK
      <4> QED
        BY <2>1, <4>1 DEF TablesCovered, Opened
    <3> QED
      BY <3>1, <3>2
  <2> QED
    BY <1>1, <2>1, <2>2 DEF TablesCovered, Own
<1> QED
  BY <1>2, <1>3 DEF GInv

LEMMA NextGInv == IInv /\ LInv /\ GInv /\ [Next]_vars => GInv'
<1> SUFFICES ASSUME IInv, LInv, GInv, [Next]_vars PROVE GInv'
  OBVIOUS
<1>1. ASSUME NEW p \in Handlers, Work(p) PROVE GInv'
  BY <1>1, AVerifyIdentityStep, AVerifyOtpStep, AResendOtpStep, ACaptureLeadStep,
     AOtherWorkStep DEF Work
<1>2. ASSUME NEW p \in Handlers, Finalize(p) PROVE GInv'
  BY <1>2, ARecordCallStep, AOverStep DEF Finalize, SuppressDuplicate, Stay
<1>3. ASSUME NEW p \in Handlers, Return(p) \/ Abort(p) PROVE GInv'
  BY <1>3, AOverStep DEF Return, Abort, Stay
<1>4. CASE Tick \/ UNCHANGED vars
  <2>1. UNCHANGED <<sessions, challenges, artefacts, toolCalls, calls>>
    BY <1>4 DEF Tick, vars
  <2>2. \A s : Own(s)' = Own(s)
    BY <2>1 DEF Own
  <2>3. \A p \in Handlers : Accounted(calls[p])'
    BY <2>1, <2>2 DEF GInv, Accounted, FailedRows, ResentRows, OwnRow
  <2>4. \A s \in Sessions : TablesCovered(s)'
    BY <2>1, <2>2 DEF GInv, TablesCovered, Opened
  <2> QED
    BY <2>3, <2>4 DEF GInv
<1> QED
  BY <1>1, <1>2, <1>3, <1>4, AArriveStep, AWriteSessionStep, ASendStep,
     AStartSessionStep DEF Next

LEMMA InitGInv == Init => GInv
<1> SUFFICES ASSUME Init PROVE GInv
  OBVIOUS
<1>1. \A p \in Handlers : calls[p].phase = "idle"
  BY DEF Init, IdleCall
<1>2. IInv
  BY InitIInv
<1>3. ASSUME NEW s \in Sessions PROVE TablesCovered(s)
  <2>1. Own(s) = {} /\ s \notin Opened /\ artefacts[s]["assessment"] = 0
    BY DEF Init, Own, Opened, Artefacts
  <2>2. Cardinality(Own(s)) = 0
    BY <2>1, FS_EmptySet
  <2>3. toolCalls[s] \in Seq(AuditRows)
    BY <1>2 DEF IInv, TypeOK
  <2>4. /\ RowCount(toolCalls[s], {"check_eligibility"}, Decisions) \in Nat
        /\ RowCount(toolCalls[s], Issuers, CodeSent) \in Nat
    BY <2>3, RowCountNat
  <2> QED
    BY <2>1, <2>2, <2>4 DEF TablesCovered
<1> QED
  BY <1>1, <1>3 DEF GInv, Accounted

\* Every counter and row of a session, and what is about to be written of them,
\* has its audit rows, in every state of the service.
THEOREM RowsInvariance == Spec => [](IInv /\ LInv /\ GInv)
<1>1. Spec => [](IInv /\ LInv)
  BY LedgerInvariance, Invariance, PTL
<1> QED
  BY <1>1, InitGInv, NextGInv, PTL DEF Spec

\* What is stored of a session has audit rows that account for it: its state, its
\* two counters, its assessments, its passcodes and the attempts on them, however
\* requests overlap and whatever counts they lose (tools.py:108-178).
THEOREM TablesHaveRows == Spec => [](\A s \in Sessions : TablesCovered(s))
<1>1. GInv => \A s \in Sessions : TablesCovered(s)
  BY DEF GInv
<1> QED
  BY <1>1, RowsInvariance, PTL
=============================================================================
