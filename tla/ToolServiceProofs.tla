-------------------------- MODULE ToolServiceProofs --------------------------
(***************************************************************************)
(* Type correctness of ToolService and its central promise, SecondFactor,  *)
(* for all values of the constants: any number of sessions, customers and  *)
(* handlers, any limits, and requests that overlap in any way.             *)
(*                                                                         *)
(* SecondFactor alone is not inductive.  A handler commits what it decided *)
(* from the row it loaded, perhaps long after that row changed.  What      *)
(* makes the promise hold is that proof of possession is never taken back: *)
(* whatever a handler in flight has seen verified is verified for good.    *)
(* IInv says so of every request in flight.                                *)
(***************************************************************************)
EXTENDS ToolService, TLAPS

\* A passcode of session s went out and was accepted.
Proven(s) ==
  \E i \in DOMAIN challenges :
    challenges[i].session = s /\ challenges[i].proved /\ i \in sent

\* The handler has just accepted one, and commits that with the session.
Accepting(c) ==
  /\ c.guess.ok /\ c.guess.id \in DOMAIN challenges
  /\ challenges[c.guess.id].session = c.req.session /\ c.guess.id \in sent

CreditArtefacts == {"assessment", "granted", "refused"}

\* What holds of a request in flight.
GoodCall(c) ==
  c.phase \notin {"idle", "answered"} =>
    /\ c.req \in Requests /\ c.req.code \in {0} \cup sent
    /\ c.req.tool = "verify_identity" => c.req.claim \in Claims
    /\ c.loaded \in SessionRows /\ c.sess \in SessionRows
    /\ sessions[c.req.session] # None
    /\ c.loaded.state \in VerifiedStates => Proven(c.req.session)
    /\ c.sess.state \in VerifiedStates => Proven(c.req.session) \/ Accepting(c)
    /\ c.adds \cap CreditArtefacts # {} => Proven(c.req.session)
    /\ c.newId # 0 => c.newId \notin DOMAIN challenges /\ c.issue # None
    /\ c.phase = "loaded" =>
         /\ c.sess = c.loaded /\ c.newId = 0 /\ c.adds = {}
         /\ StateRefusal(c.loaded.state, c.req.tool) = "none"
    /\ c.phase = "staged" => c.newId = 0
    /\ c.phase = "ready" => c.reply \in Replies

\* Ids drawn from the sequence are never drawn again.
FreshIds ==
  /\ \A p \in Handlers : calls[p].newId \in 0..lastId
  /\ \A p, r \in Handlers :
       p # r /\ calls[p].newId # 0 => calls[p].newId # calls[r].newId

IInv == /\ TypeOK
        /\ \A p \in Handlers : GoodCall(calls[p])
        /\ FreshIds
        /\ SecondFactor

USE DEF VerifiedStates, CreditArtefacts
-----------------------------------------------------------------------------
(* The initial state *)

LEMMA IdleCallOK == IdleCall \in CallRecords
BY DEF IdleCall, CallRecords, Phases, NoGuess, Guesses, Verdicts

LEMMA InitIInv == Init => IInv
<1> SUFFICES ASSUME Init PROVE IInv
  OBVIOUS
<1>1. TypeOK
  <2>1. artefacts \in [Sessions -> [Artefacts -> Nat]]
    BY DEF Init
  <2>2. toolCalls \in [Sessions -> Seq(AuditRows)]
    BY DEF Init
  <2>3. calls \in [Handlers -> CallRecords]
    BY IdleCallOK DEF Init
  <2> QED
    BY <2>1, <2>2, <2>3 DEF Init, TypeOK
<1>2. \A p \in Handlers : GoodCall(calls[p])
  BY DEF Init, GoodCall, IdleCall
<1>3. FreshIds
  BY DEF Init, FreshIds, IdleCall
<1>4. SecondFactor
  <2>1. \A s \in Sessions, k \in CreditArtefacts : ~(artefacts[s][k] > 0)
    BY DEF Init, Artefacts
  <2> QED
    BY <2>1 DEF Init, SecondFactor, Opened
<1> QED
  BY <1>1, <1>2, <1>3, <1>4 DEF IInv
-----------------------------------------------------------------------------
(* A step that changes one request and no committed row *)

LEMMA CallStep ==
  ASSUME IInv, NEW p \in Handlers, NEW c \in CallRecords,
         calls' = [calls EXCEPT ![p] = c],
         GoodCall(c), c.newId \in {0, calls[p].newId},
         UNCHANGED <<sessions, challenges, artefacts, toolCalls, lastId, sent, now>>
  PROVE  IInv'
<1>1. /\ calls' \in [Handlers -> CallRecords]
      /\ calls'[p] = c
      /\ \A r \in Handlers \ {p} : calls'[r] = calls[r]
  BY DEF IInv, TypeOK
<1>2. TypeOK'
  BY <1>1 DEF IInv, TypeOK
<1>3. ASSUME NEW r \in Handlers PROVE GoodCall(calls[r])'
  <2>1. \A d : GoodCall(d) => /\ calls'[r] = d => GoodCall(calls[r])'
    BY DEF GoodCall, Proven, Accepting
  <2> QED
    BY <1>1, <2>1 DEF IInv
<1>4. FreshIds'
  <2>1. \A r \in Handlers : calls'[r].newId \in {0, calls[r].newId}
    BY <1>1
  <2>2. lastId \in Nat /\ lastId' = lastId
    BY DEF IInv, TypeOK
  <2> QED
    BY <2>1, <2>2 DEF IInv, FreshIds
<1>5. SecondFactor'
  BY DEF IInv, SecondFactor, Opened
<1> QED
  BY <1>2, <1>3, <1>4, <1>5 DEF IInv
-----------------------------------------------------------------------------
(* Requests arrive *)

LEMMA AnsweredCallOK ==
  ASSUME NEW q \in Requests, NEW rep \in Replies
  PROVE  /\ AnsweredCall(q, rep) \in CallRecords
         /\ AnsweredCall(q, rep).phase = "answered"
         /\ AnsweredCall(q, rep).newId = 0
BY IdleCallOK DEF AnsweredCall, IdleCall, CallRecords, Phases

LEMMA AnswerStep ==
  ASSUME IInv, NEW p \in Handlers, NEW q \in Requests, NEW rep \in Replies,
         calls' = [calls EXCEPT ![p] = AnsweredCall(q, rep)],
         UNCHANGED <<sessions, challenges, artefacts, toolCalls, lastId, sent, now>>
  PROVE  IInv'
BY AnsweredCallOK, CallStep DEF GoodCall

LEMMA RequestsForOK ==
  ASSUME TypeOK, NEW s \in Sessions, NEW t \in Tools, NEW q \in RequestsFor(s, t)
  PROVE  /\ q \in Requests /\ q.code \in {0} \cup sent /\ q.session = s /\ q.tool = t
         /\ q.tool = "verify_identity" => q.claim \in Claims
<1>1. KeysFor[t] \subseteq Keys \cup {None}
  BY ServiceAssumption
<1>2. sent \subseteq Nat
  BY DEF TypeOK
<1>3. q \in [session : {s}, tool : {t}, key : KeysFor[t],
            claim  : IF t = "verify_identity" THEN Claims ELSE {None},
            code   : IF t = "verify_otp" THEN {0} \cup sent ELSE {0},
            choice : CASE t = "check_eligibility" -> Decisions
                       [] t = "record_consent" -> Answers
                       [] OTHER -> {"none"}]
  BY DEF RequestsFor
<1>4. q.choice \in Decisions \cup Answers \cup {"none"}
  BY <1>3
<1>5. /\ q.session = s /\ q.tool = t /\ q.key \in KeysFor[t]
      /\ q.claim \in Claims \cup {None} /\ q.code \in {0} \cup sent
      /\ t = "verify_identity" => q.claim \in Claims
  BY <1>3
<1>6. q = [session |-> q.session, tool |-> q.tool, key |-> q.key,
           claim |-> q.claim, code |-> q.code, choice |-> q.choice]
  BY <1>3
<1>7. q \in Requests
  BY <1>1, <1>2, <1>4, <1>5, <1>6 DEF Requests
<1> QED
  BY <1>5, <1>7

LEMMA StoredReplyOK ==
  ASSUME TypeOK, NEW s \in Sessions, NEW i \in DOMAIN toolCalls[s]
  PROVE  toolCalls[s][i].reply \in Replies
<1>1. toolCalls[s] \in Seq(AuditRows)
  BY DEF TypeOK
<1>2. toolCalls[s][i] \in AuditRows
  BY <1>1
<1> QED
  BY <1>2 DEF AuditRows

LEMMA PriorRowsOK ==
  ASSUME NEW q, NEW i \in PriorRows(q)
  PROVE  i \in DOMAIN toolCalls[q.session]
BY DEF PriorRows

LEMMA RefusalOK ==
  ASSUME NEW row, NEW t, Refusal(row, t) # "none"
  PROVE  Refusal(row, t) \in Refusals
BY DEF Refusal, StateRefusal, Refusals

LEMMA ArriveStep ==
  ASSUME IInv, NEW p \in Handlers, Arrive(p)
  PROVE  IInv'
<1>1. PICK s \in Sessions, t \in Tools :
        \E q \in RequestsFor(s, t) : ReplayCall(p, q) \/ RefuseCall(p, q) \/ LoadCall(p, q)
  BY DEF Arrive
<1>2. PICK q \in RequestsFor(s, t) : ReplayCall(p, q) \/ RefuseCall(p, q) \/ LoadCall(p, q)
  BY <1>1
<1>3. /\ q \in Requests /\ q.code \in {0} \cup sent /\ q.session \in Sessions /\ q.tool \in Tools
      /\ q.tool = "verify_identity" => q.claim \in Claims
  BY RequestsForOK DEF IInv
<1>4. CASE ReplayCall(p, q)
  <2>1. PICK i \in PriorRows(q) :
          calls' = [calls EXCEPT ![p] = AnsweredCall(q, toolCalls[q.session][i].reply)]
    BY <1>4 DEF ReplayCall
  <2>2. toolCalls[q.session][i].reply \in Replies
    BY <1>3, PriorRowsOK, StoredReplyOK DEF IInv
  <2>3. UNCHANGED <<sessions, challenges, artefacts, toolCalls, lastId, sent, now>>
    BY <1>4 DEF ReplayCall
  <2> QED
    BY <1>3, <2>1, <2>2, <2>3, AnswerStep
<1>5. CASE RefuseCall(p, q)
  <2> DEFINE rep == Reply(Refusal(sessions[q.session], q.tool),
                          IF sessions[q.session] = None THEN "none"
                          ELSE sessions[q.session].state)
  <2>1. sessions[q.session] \in SessionRows \cup {None}
    BY <1>3 DEF IInv, TypeOK
  <2>2. Refusal(sessions[q.session], q.tool) \in Refusals
    BY <1>5, RefusalOK DEF RefuseCall
  <2>3. rep \in Replies
    BY <2>1, <2>2 DEF Reply, Replies, Outcomes, SessionRows
  <2>4. /\ calls' = [calls EXCEPT ![p] = AnsweredCall(q, rep)]
        /\ UNCHANGED <<sessions, challenges, artefacts, toolCalls, lastId, sent, now>>
    BY <1>5 DEF RefuseCall
  <2> HIDE DEF rep
  <2> QED
    BY <1>3, <2>3, <2>4, AnswerStep
<1>6. CASE LoadCall(p, q)
  <2> DEFINE row == sessions[q.session]
             c == LoadedCall(q, row)
  <2>1. /\ Refusal(row, q.tool) = "none"
        /\ calls' = [calls EXCEPT ![p] = c]
        /\ UNCHANGED <<sessions, challenges, artefacts, toolCalls, lastId, sent, now>>
    BY <1>6 DEF LoadCall
  <2>2. row # None /\ StateRefusal(row.state, q.tool) = "none"
    BY <2>1 DEF Refusal
  <2>3. row \in SessionRows
    BY <1>3, <2>2 DEF IInv, TypeOK
  <2>4. c \in CallRecords
    BY <1>3, <2>3, IdleCallOK DEF LoadedCall, IdleCall, CallRecords, Phases
  <2>5. row.state \in VerifiedStates => Proven(q.session)
    BY <1>3, <2>2 DEF IInv, SecondFactor, Opened, Proven
  <2>6. /\ c.phase = "loaded" /\ c.req = q /\ c.loaded = row /\ c.sess = row
        /\ c.newId = 0 /\ c.adds = {}
    BY DEF LoadedCall, IdleCall
  <2>7. GoodCall(c)
    BY <1>3, <2>2, <2>3, <2>5, <2>6 DEF GoodCall
  <2> HIDE DEF c
  <2> QED
    BY <2>1, <2>4, <2>6, <2>7, CallStep
<1> QED
  BY <1>2, <1>4, <1>5, <1>6
-----------------------------------------------------------------------------
(* The handlers at work *)

InFlightPhases == {"loaded", "staged", "sending", "ready"}

LEMMA InFlightCall ==
  ASSUME IInv, NEW p \in Handlers, calls[p].phase \in InFlightPhases
  PROVE  /\ calls[p] \in CallRecords /\ GoodCall(calls[p])
         /\ calls[p].req \in Requests /\ calls[p].req.session \in Sessions
         /\ calls[p].loaded \in SessionRows /\ calls[p].sess \in SessionRows
<1>1. calls[p] \in CallRecords /\ GoodCall(calls[p])
  BY DEF IInv, TypeOK
<1>2. calls[p].phase \notin {"idle", "answered"}
  BY DEF InFlightPhases
<1>3. /\ calls[p].req \in Requests
      /\ calls[p].loaded \in SessionRows /\ calls[p].sess \in SessionRows
  BY <1>1, <1>2 DEF GoodCall
<1> QED
  BY <1>1, <1>3 DEF Requests

\* A handler builds its response, from a record b that differs from its own in
\* the guess at most.
LEMMA ReadyStep ==
  ASSUME IInv, NEW p \in Handlers, calls[p].phase \in InFlightPhases,
         NEW b \in CallRecords, b.req = calls[p].req, b.loaded = calls[p].loaded,
         b.newId = calls[p].newId, b.issue = calls[p].issue,
         NEW row \in SessionRows, NEW adds \in SUBSET Artefacts,
         NEW outcome \in Outcomes, NEW verdict \in Verdicts,
         row.state \in VerifiedStates => Proven(b.req.session) \/ Accepting(b),
         adds \cap CreditArtefacts # {} => Proven(b.req.session),
         calls' = [calls EXCEPT ![p] = ReadyCall(b, row, adds, outcome, verdict)],
         UNCHANGED <<sessions, challenges, artefacts, toolCalls, lastId, sent, now>>
  PROVE  IInv'
<1> DEFINE c == ReadyCall(b, row, adds, outcome, verdict)
<1>1. GoodCall(calls[p]) /\ calls[p].phase \notin {"idle", "answered"}
  BY InFlightCall DEF InFlightPhases
<1>2. Reply(outcome, row.state) \in Replies
  BY DEF Reply, Replies, SessionRows
<1>3. c \in CallRecords
  BY <1>2 DEF ReadyCall, CallRecords, Phases
<1>4. /\ c.phase = "ready" /\ c.req = b.req /\ c.loaded = b.loaded /\ c.sess = row
      /\ c.adds = adds /\ c.newId = b.newId /\ c.issue = b.issue /\ c.guess = b.guess
      /\ c.reply = Reply(outcome, row.state)
  BY DEF ReadyCall, CallRecords
<1>5. Accepting(b) => Accepting(c)
  BY <1>4 DEF Accepting
<1>6. GoodCall(c)
  BY <1>1, <1>2, <1>4, <1>5 DEF GoodCall
<1>7. calls' = [calls EXCEPT ![p] = c] /\ c.newId \in {0, calls[p].newId}
  BY <1>4
<1> HIDE DEF c
<1> QED
  BY <1>3, <1>6, <1>7, CallStep

\* A handler stages what it will flush before it sends a message.
LEMMA StagedStep ==
  ASSUME IInv, NEW p \in Handlers, calls[p].phase = "loaded",
         NEW c \in CallRecords, c.phase = "staged", c.req = calls[p].req,
         c.loaded = calls[p].loaded, c.newId = calls[p].newId,
         c.sess \in SessionRows, c.sess.state \notin VerifiedStates,
         c.adds \cap CreditArtefacts = {},
         calls' = [calls EXCEPT ![p] = c],
         UNCHANGED <<sessions, challenges, artefacts, toolCalls, lastId, sent, now>>
  PROVE  IInv'
<1>1. GoodCall(calls[p]) /\ calls[p].phase \notin {"idle", "answered"}
  BY InFlightCall DEF InFlightPhases
<1>2. calls[p].newId = 0
  BY <1>1 DEF GoodCall
<1>3. GoodCall(c)
  BY <1>1, <1>2 DEF GoodCall
<1>4. c.newId \in {0, calls[p].newId}
  OBVIOUS
<1> QED
  BY <1>3, <1>4, CallStep

\* transition() refuses the move.
LEMMA RefusedMoveStep ==
  ASSUME IInv, NEW p \in Handlers, calls[p].phase = "loaded",
         calls' = [calls EXCEPT ![p] = AnsweredCall(calls[p].req,
                     Reply("invalid_transition", calls[p].sess.state))],
         UNCHANGED <<sessions, challenges, artefacts, toolCalls, lastId, sent, now>>
  PROVE  IInv'
<1>1. calls[p].req \in Requests /\ calls[p].sess \in SessionRows
  BY InFlightCall DEF InFlightPhases
<1>2. Reply("invalid_transition", calls[p].sess.state) \in Replies
  BY <1>1 DEF Reply, Replies, Outcomes, Refusals, SessionRows
<1> QED
  BY <1>1, <1>2, AnswerStep

\* What the state guard told of the row a handler loaded.
LEMMA LoadedState ==
  ASSUME IInv, NEW p \in Handlers, NEW t \in Tools, Working(p, t)
  PROVE  /\ calls[p].phase = "loaded" /\ calls[p].sess = calls[p].loaded
         /\ calls[p].sess \in SessionRows
         /\ calls[p].adds = {} /\ calls[p].newId = 0
         /\ calls[p].sess.state \in ExpectedStates[t]
         /\ calls[p].sess.state \in VerifiedStates => Proven(calls[p].req.session)
<1>1. calls[p].phase = "loaded" /\ calls[p].req.tool = t
  BY DEF Working
<1>2. GoodCall(calls[p]) /\ calls[p].sess \in SessionRows
  BY <1>1, InFlightCall DEF InFlightPhases
<1>3. /\ calls[p].sess = calls[p].loaded /\ calls[p].newId = 0 /\ calls[p].adds = {}
      /\ StateRefusal(calls[p].loaded.state, t) = "none"
      /\ calls[p].loaded.state \in VerifiedStates => Proven(calls[p].req.session)
  BY <1>1, <1>2 DEF GoodCall
<1>4. calls[p].sess.state \in ExpectedStates[t]
  BY <1>3 DEF StateRefusal
<1> QED
  BY <1>1, <1>2, <1>3, <1>4

LEMMA VerifyIdentityMatchedStep ==
  ASSUME IInv, NEW p \in Handlers, VerifyIdentityMatched(p)
  PROVE  IInv'
<1> DEFINE c == calls[p]
           cust == c.req.claim.pan
           row  == [c.sess EXCEPT !.customer = cust, !.state = "identity_matched"]
           stop == IssueLimit(row, cust, FALSE)
<1>1. Working(p, "verify_identity") /\ Kyc(c.req.claim) = "ok"
  BY DEF VerifyIdentityMatched
<1>2. /\ c.phase = "loaded" /\ c.phase \in InFlightPhases /\ c \in CallRecords
      /\ c.sess \in SessionRows /\ c.adds = {} /\ c.newId = 0 /\ GoodCall(c)
  BY <1>1, LoadedState, InFlightCall DEF Tools, InFlightPhases
<1>3. cust \in Customers
  <2>1. c.req.claim \in Claims
    BY <1>1, <1>2 DEF GoodCall, Working
  <2>2. c.req.claim.pan \in Customers \cup {None}
    BY <2>1, ServiceAssumption
  <2> QED
    BY <1>1, <2>2 DEF Kyc
<1>4. row \in SessionRows /\ row.state = "identity_matched"
  BY <1>2, <1>3 DEF SessionRows, States
<1>5. CASE stop # "none"
  <2>1. Proceed(p, row.state, ReadyCall(c, row, {}, "blocked", stop))
    BY <1>5 DEF VerifyIdentityMatched
  <2>2. stop \in Verdicts
    BY <1>5 DEF IssueLimit, Verdicts
  <2> HIDE DEF row, stop
  <2> QED
    BY <1>2, <1>4, <2>1, <2>2, ReadyStep, RefusedMoveStep DEF Proceed, Outcomes
<1>6. CASE stop = "none"
  <2>1. PICK prev \in {0} \cup DOMAIN challenges :
          Proceed(p, row.state, Issuing(p, row, cust, prev))
    BY <1>6 DEF VerifyIdentityMatched
  <2> DEFINE d == Issuing(p, row, cust, prev)
  <2>2. prev \in Nat
    BY DEF IInv, TypeOK
  <2>3. /\ d \in CallRecords /\ d.phase = "staged" /\ d.req = c.req /\ d.loaded = c.loaded
        /\ d.newId = c.newId /\ d.sess = row /\ d.adds = c.adds
    BY <1>2, <1>3, <1>4, <2>2 DEF Issuing, CallRecords, Phases
  <2> HIDE DEF d, row
  <2> QED
    BY <1>2, <1>4, <2>1, <2>3, StagedStep, RefusedMoveStep DEF Proceed, d
<1> QED
  BY <1>5, <1>6

LEMMA VerifyIdentityUnknownStep ==
  ASSUME IInv, NEW p \in Handlers, VerifyIdentityUnknown(p)
  PROVE  IInv'
<1> DEFINE row == [calls[p].sess EXCEPT !.state = "prospect"]
<1>1. Working(p, "verify_identity")
  BY DEF VerifyIdentityUnknown
<1>2. /\ calls[p].phase = "loaded" /\ calls[p].phase \in InFlightPhases
      /\ calls[p] \in CallRecords /\ calls[p].sess \in SessionRows
  BY <1>1, LoadedState, InFlightCall DEF Tools, InFlightPhases
<1>3. row \in SessionRows /\ row.state = "prospect"
  BY <1>2 DEF SessionRows, States
<1>4. Proceed(p, row.state, ReadyCall(calls[p], row, {}, "not_registered", "pan_not_found"))
  BY DEF VerifyIdentityUnknown
<1> HIDE DEF row
<1> QED
  BY <1>2, <1>3, <1>4, ReadyStep, RefusedMoveStep
     DEF Proceed, Outcomes, Verdicts, Failures

LEMMA VerifyIdentityFailedStep ==
  ASSUME IInv, NEW p \in Handlers, VerifyIdentityFailed(p)
  PROVE  IInv'
<1> DEFINE row == [calls[p].sess EXCEPT !.identity_attempts = @ + 1]
<1>1. Working(p, "verify_identity")
  BY DEF VerifyIdentityFailed
<1>2. /\ calls[p].phase \in InFlightPhases
      /\ calls[p] \in CallRecords /\ calls[p].sess \in SessionRows
      /\ calls[p].sess.state \notin VerifiedStates
  BY <1>1, LoadedState, InFlightCall DEF Tools, InFlightPhases, ExpectedStates
<1>3. row \in SessionRows /\ row.state = calls[p].sess.state
  BY <1>2 DEF SessionRows
<1>4. PICK verdict \in Verdicts, outcome \in {"blocked", "retry"} :
        Stay(p, ReadyCall(calls[p], row, {}, outcome, verdict))
  BY DEF VerifyIdentityFailed, Kyc, Verdicts, Failures
<1> HIDE DEF row
<1> QED
  BY <1>2, <1>3, <1>4, ReadyStep DEF Stay, Outcomes

LEMMA VerifyOtpUncheckedStep ==
  ASSUME IInv, NEW p \in Handlers, VerifyOtpUnchecked(p)
  PROVE  IInv'
<1>1. Working(p, "verify_otp")
  BY DEF VerifyOtpUnchecked
<1>2. /\ calls[p].phase \in InFlightPhases /\ calls[p] \in CallRecords
      /\ calls[p].sess \in SessionRows /\ calls[p].sess.state \notin VerifiedStates
  BY <1>1, LoadedState, InFlightCall DEF Tools, InFlightPhases, ExpectedStates
<1>3. PICK verdict \in Verdicts, outcome \in {"blocked", "retry"} :
        Stay(p, ReadyCall(calls[p], calls[p].sess, {}, outcome, verdict))
  BY DEF VerifyOtpUnchecked, Verdicts
<1> QED
  BY <1>2, <1>3, ReadyStep DEF Stay, Outcomes

LEMMA VerifyOtpCheckedStep ==
  ASSUME IInv, NEW p \in Handlers, VerifyOtpChecked(p)
  PROVE  IInv'
<1> DEFINE c == calls[p]
           row == [c.sess EXCEPT !.state = "identity_verified"]
           try(i, tries, hit) ==
             [c EXCEPT !.guess = [id |-> i, attempts |-> tries, ok |-> hit]]
<1>1. Working(p, "verify_otp")
  BY DEF VerifyOtpChecked
<1>2. /\ c.phase = "loaded" /\ c.phase \in InFlightPhases /\ c \in CallRecords
      /\ c.sess \in SessionRows /\ c.sess.state \notin VerifiedStates
      /\ c.req.code \in {0} \cup sent
  BY <1>1, LoadedState, InFlightCall
     DEF Tools, InFlightPhases, ExpectedStates, GoodCall
<1>3. row \in SessionRows /\ row.state = "identity_verified"
  BY <1>2 DEF SessionRows, States
<1>4. PICK i \in DOMAIN challenges :
        LET tries == challenges[i].attempts + 1
            hit   == c.req.code = i
            b     == try(i, tries, hit)
        IN /\ IsActive(c.req.session, i)
           /\ IF hit THEN Proceed(p, row.state, ReadyCall(b, row, {}, "ok", "ok"))
              ELSE IF tries >= MaxVerifyAttempts
              THEN Stay(p, ReadyCall(b, c.sess, {}, "blocked", "attempts_exhausted"))
              ELSE Stay(p, ReadyCall(b, c.sess, {}, "retry", "wrong_code"))
  BY DEF VerifyOtpChecked
<1> DEFINE tries == challenges[i].attempts + 1
           hit   == c.req.code = i
           b     == try(i, tries, hit)
<1>5. i \in Nat /\ i # 0 /\ tries \in Nat
  BY DEF IInv, TypeOK, ChallengeRows
<1>6. /\ b \in CallRecords /\ b.req = c.req /\ b.loaded = c.loaded /\ b.newId = c.newId
      /\ b.issue = c.issue /\ b.guess = [id |-> i, attempts |-> tries, ok |-> hit]
  BY <1>2, <1>5 DEF CallRecords, Guesses
<1>7. hit => Accepting(b)
  <2>1. challenges[i].session = c.req.session
    BY <1>4, <1>5 DEF IsActive, Unconsumed
  <2> SUFFICES ASSUME hit PROVE Accepting(b)
    OBVIOUS
  <2>2. i \in sent
    BY <1>2, <1>5
  <2>3. b.guess = [id |-> i, attempts |-> tries, ok |-> TRUE] /\ b.req = c.req
    BY <1>6
  <2> HIDE DEF b, tries
  <2>4. b.guess.ok /\ b.guess.id = i
    BY <2>3
  <2> QED
    BY <2>1, <2>2, <2>3, <2>4 DEF Accepting
<1>8. CASE hit
  <2>1. Proceed(p, row.state, ReadyCall(b, row, {}, "ok", "ok"))
    BY <1>4, <1>8
  <2>2. Accepting(b)
    BY <1>7, <1>8
  <2> HIDE DEF row, b
  <2> QED
    BY <1>2, <1>3, <1>6, <2>1, <2>2, ReadyStep, RefusedMoveStep
       DEF Proceed, Outcomes, Verdicts
<1>9. CASE ~hit
  <2>1. PICK verdict \in Verdicts, outcome \in {"blocked", "retry"} :
          Stay(p, ReadyCall(b, c.sess, {}, outcome, verdict))
    BY <1>4, <1>9 DEF Verdicts
  <2> HIDE DEF b
  <2> QED
    BY <1>2, <1>6, <2>1, ReadyStep DEF Stay, Outcomes
<1> QED
  BY <1>8, <1>9

LEMMA ResendOtpStep ==
  ASSUME IInv, NEW p \in Handlers, ResendOtp(p)
  PROVE  IInv'
<1> DEFINE c == calls[p]
           stop == IssueLimit(c.sess, c.sess.customer, TRUE)
<1>1. Working(p, "resend_otp")
  BY DEF ResendOtp
<1>2. /\ c.phase = "loaded" /\ c.phase \in InFlightPhases /\ c \in CallRecords
      /\ c.sess \in SessionRows /\ c.sess.state \notin VerifiedStates
      /\ c.adds = {} /\ c.newId = 0
  BY <1>1, LoadedState, InFlightCall DEF Tools, InFlightPhases, ExpectedStates
<1>3. CASE stop # "none"
  <2>1. Stay(p, ReadyCall(c, c.sess, {}, "blocked", stop))
    BY <1>3 DEF ResendOtp
  <2>2. stop \in Verdicts
    BY <1>3 DEF IssueLimit, Verdicts
  <2> HIDE DEF stop
  <2> QED
    BY <1>2, <2>1, <2>2, ReadyStep DEF Stay, Outcomes
<1>4. CASE stop = "none"
  <2>1. PICK prev \in {0} \cup DOMAIN challenges :
          Stay(p, Issuing(p, c.sess, c.sess.customer, prev))
    BY <1>4 DEF ResendOtp
  <2> DEFINE d == Issuing(p, c.sess, c.sess.customer, prev)
  <2>2. prev \in Nat
    BY DEF IInv, TypeOK
  <2>3. /\ d \in CallRecords /\ d.phase = "staged" /\ d.req = c.req /\ d.loaded = c.loaded
        /\ d.newId = c.newId /\ d.sess = c.sess /\ d.adds = c.adds
    BY <1>2, <2>2 DEF Issuing, CallRecords, SessionRows, Phases
  <2> HIDE DEF d
  <2> QED
    BY <1>2, <2>1, <2>3, StagedStep DEF Stay, d
<1> QED
  BY <1>3, <1>4

LEMMA CaptureLeadStep ==
  ASSUME IInv, NEW p \in Handlers, CaptureLead(p)
  PROVE  IInv'
<1> DEFINE c == calls[p]
           row == [c.sess EXCEPT !.state = "lead_captured"]
           d == [c EXCEPT !.phase = "staged", !.sess = row, !.adds = {"lead", "link"}]
<1>1. Working(p, "capture_lead")
  BY DEF CaptureLead
<1>2. c.phase = "loaded" /\ c \in CallRecords /\ c.sess \in SessionRows
  BY <1>1, LoadedState, InFlightCall DEF Tools, InFlightPhases
<1>3. row \in SessionRows /\ row.state = "lead_captured"
  BY <1>2 DEF SessionRows, States
<1>4. /\ d \in CallRecords /\ d.phase = "staged" /\ d.req = c.req /\ d.loaded = c.loaded
      /\ d.newId = c.newId /\ d.sess = row /\ d.adds = {"lead", "link"}
  BY <1>2, <1>3 DEF CallRecords, Phases, Artefacts
<1>5. Proceed(p, row.state, d)
  BY DEF CaptureLead
<1>6. d.adds \cap CreditArtefacts = {}
  BY <1>4
<1> HIDE DEF d, row
<1> QED
  BY <1>2, <1>3, <1>4, <1>5, <1>6, StagedStep, RefusedMoveStep DEF Proceed

LEMMA CheckEligibilityStep ==
  ASSUME IInv, NEW p \in Handlers, CheckEligibility(p)
  PROVE  IInv'
<1> DEFINE row == [calls[p].sess EXCEPT !.state = "eligibility_assessed"]
<1>1. Working(p, "check_eligibility")
  BY DEF CheckEligibility
<1>2. /\ calls[p].phase = "loaded" /\ calls[p].phase \in InFlightPhases
      /\ calls[p] \in CallRecords /\ calls[p].sess \in SessionRows
      /\ Proven(calls[p].req.session) /\ calls[p].req \in Requests
  BY <1>1, LoadedState, InFlightCall DEF Tools, InFlightPhases, ExpectedStates
<1>3. row \in SessionRows /\ row.state = "eligibility_assessed"
  BY <1>2 DEF SessionRows, States
<1>4. PICK outcome \in {"declined", "ok"} :
        Proceed(p, row.state,
                ReadyCall(calls[p], row, {"assessment"}, outcome, calls[p].req.choice))
  BY DEF CheckEligibility
<1>5. calls[p].req.choice \in Verdicts
  BY <1>2 DEF Requests, Verdicts
<1>6. {"assessment"} \in SUBSET Artefacts
  BY DEF Artefacts
<1> HIDE DEF row
<1> QED
  BY <1>2, <1>3, <1>4, <1>5, <1>6, ReadyStep, RefusedMoveStep DEF Proceed, Outcomes

LEMMA RecordConsentStep ==
  ASSUME IInv, NEW p \in Handlers, RecordConsent(p)
  PROVE  IInv'
<1> DEFINE c == calls[p]
           row == [c.sess EXCEPT !.state = "completed"]
<1>1. Working(p, "record_consent")
  BY DEF RecordConsent
<1>2. /\ c.phase = "loaded" /\ c.phase \in InFlightPhases /\ c \in CallRecords
      /\ c.sess \in SessionRows /\ Proven(c.req.session)
  BY <1>1, LoadedState, InFlightCall DEF Tools, InFlightPhases, ExpectedStates
<1>3. row \in SessionRows
  BY <1>2 DEF SessionRows, States
<1>4. \/ Proceed(p, "consent_recorded", ReadyCall(c, row, {"granted"}, "ok", "granted"))
      \/ Stay(p, ReadyCall(c, c.sess, {"refused"}, "declined", "refused"))
  BY DEF RecordConsent
<1>5. {"granted"} \in SUBSET Artefacts /\ {"refused"} \in SUBSET Artefacts
  BY DEF Artefacts
<1>6. {"granted", "refused"} \subseteq Verdicts /\ {"ok", "declined"} \subseteq Outcomes
  BY DEF Verdicts, Answers, Outcomes
<1> HIDE DEF row
<1> QED
  BY <1>2, <1>3, <1>4, <1>5, <1>6, ReadyStep, RefusedMoveStep DEF Proceed, Stay

LEMMA EscalateStep ==
  ASSUME IInv, NEW p \in Handlers, Escalate(p)
  PROVE  IInv'
<1> DEFINE row == [calls[p].sess EXCEPT !.state = "escalated"]
<1>1. Working(p, "escalate")
  BY DEF Escalate
<1>2. /\ calls[p].phase = "loaded" /\ calls[p].phase \in InFlightPhases
      /\ calls[p] \in CallRecords /\ calls[p].sess \in SessionRows
  BY <1>1, LoadedState, InFlightCall DEF Tools, InFlightPhases
<1>3. row \in SessionRows /\ row.state = "escalated"
  BY <1>2 DEF SessionRows, States
<1>4. Proceed(p, row.state, ReadyCall(calls[p], row, {"ticket"}, "ok", "none"))
  BY DEF Escalate
<1>5. {"ticket"} \in SUBSET Artefacts /\ {"ticket"} \cap CreditArtefacts = {}
  BY DEF Artefacts
<1> HIDE DEF row
<1> QED
  BY <1>2, <1>3, <1>4, <1>5, ReadyStep, RefusedMoveStep DEF Proceed, Outcomes, Verdicts

LEMMA WorkStep ==
  ASSUME IInv, NEW p \in Handlers, Work(p)
  PROVE  IInv'
BY VerifyIdentityMatchedStep, VerifyIdentityUnknownStep, VerifyIdentityFailedStep,
   VerifyOtpUncheckedStep, VerifyOtpCheckedStep, ResendOtpStep, CaptureLeadStep,
   CheckEligibilityStep, RecordConsentStep, EscalateStep DEF Work
-----------------------------------------------------------------------------
(* Messages *)

\* Nothing a request in flight relies on is lost when codes go out.
LEMMA MoreSent ==
  ASSUME IInv, sent \subseteq sent', UNCHANGED <<sessions, challenges>>,
         NEW c, NEW r \in Handlers, GoodCall(c), calls'[r] = c
  PROVE  GoodCall(calls[r])'
BY DEF GoodCall, Proven, Accepting

\* The record after the flush gave its challenge the id m at time n.
Numbered(c, m, n) == [c EXCEPT !.newId = m, !.newAt = n, !.written = WritesSession(c)]

LEMMA NumberedCallOK ==
  ASSUME NEW c \in CallRecords, NEW m \in Nat, NEW n \in Nat
  PROVE  /\ Numbered(c, m, n) \in CallRecords
         /\ Numbered(c, m, n).req = c.req
         /\ Numbered(c, m, n).loaded = c.loaded
         /\ Numbered(c, m, n).sess = c.sess
         /\ Numbered(c, m, n).adds = c.adds
         /\ Numbered(c, m, n).guess = c.guess
         /\ Numbered(c, m, n).issue = c.issue
         /\ Numbered(c, m, n).newId = m
<1>1. Numbered(c, m, n) \in CallRecords
  BY DEF CallRecords, Numbered, WritesSession
<1>2. /\ Numbered(c, m, n).req = c.req
      /\ Numbered(c, m, n).loaded = c.loaded
      /\ Numbered(c, m, n).sess = c.sess
  BY DEF CallRecords, Numbered
<1>3. /\ Numbered(c, m, n).adds = c.adds
      /\ Numbered(c, m, n).guess = c.guess
      /\ Numbered(c, m, n).issue = c.issue
      /\ Numbered(c, m, n).newId = m
  BY DEF CallRecords, Numbered
<1> QED
  BY <1>1, <1>2, <1>3

LEMMA FlushChallengeStep ==
  ASSUME IInv, NEW p \in Handlers, FlushChallenge(p)
  PROVE  IInv'
<1> DEFINE c == calls[p]
           flushed == Numbered(c, lastId + 1, now)
           d == IF c.issue \in Addressed THEN [flushed EXCEPT !.phase = "sending"]
                ELSE ReadyCall(flushed, c.sess, {}, "error", "delivery_failed")
<1>1. /\ c.phase = "staged" /\ c.issue # None
      /\ lastId' = lastId + 1 /\ calls' = [calls EXCEPT ![p] = d]
      /\ sent \subseteq sent' /\ sent' \subseteq sent \cup {lastId + 1}
      /\ UNCHANGED <<sessions, challenges, artefacts, toolCalls, now>>
  BY DEF FlushChallenge, Numbered
<1>2. /\ c \in CallRecords /\ GoodCall(c) /\ c.req \in Requests
      /\ c.loaded \in SessionRows /\ c.sess \in SessionRows
  BY <1>1, InFlightCall DEF InFlightPhases
<1>3. /\ lastId \in Nat /\ now \in Nat /\ sent \subseteq 1..lastId
      /\ DOMAIN challenges \subseteq 1..lastId
  BY DEF IInv, TypeOK
<1>4. /\ flushed \in CallRecords /\ flushed.req = c.req /\ flushed.loaded = c.loaded
      /\ flushed.sess = c.sess /\ flushed.adds = c.adds /\ flushed.guess = c.guess
      /\ flushed.newId = lastId + 1 /\ flushed.issue = c.issue
  <2>1. PICK e \in CallRecords, m \in Nat, n \in Nat :
          e = c /\ m = lastId + 1 /\ n = now
    BY <1>2, <1>3
  <2>2. /\ Numbered(e, m, n) \in CallRecords
        /\ Numbered(e, m, n).req = e.req
        /\ Numbered(e, m, n).loaded = e.loaded
        /\ Numbered(e, m, n).sess = e.sess
        /\ Numbered(e, m, n).adds = e.adds
        /\ Numbered(e, m, n).guess = e.guess
        /\ Numbered(e, m, n).issue = e.issue
        /\ Numbered(e, m, n).newId = m
    BY NumberedCallOK
  <2>3. flushed = Numbered(e, m, n)
    BY <2>1
  <2> QED
    BY <2>1, <2>2, <2>3
<1> HIDE DEF flushed
<1>5. Reply("error", c.sess.state) \in Replies
  BY <1>2 DEF Reply, Replies, Outcomes, SessionRows
<1>6. /\ d \in CallRecords /\ d.phase \in {"sending", "ready"}
      /\ d.req = c.req /\ d.loaded = c.loaded /\ d.sess = c.sess /\ d.guess = c.guess
      /\ d.adds \in {c.adds, {}} /\ d.newId = lastId + 1 /\ d.issue = c.issue
      /\ d.phase = "ready" => d.reply \in Replies
  <2>1. PICK f \in CallRecords : f = flushed
    BY <1>4
  <2>2. CASE c.issue \in Addressed
    <3>1. d = [f EXCEPT !.phase = "sending"]
      BY <2>1, <2>2
    <3>2. d \in CallRecords /\ d.phase = "sending"
      BY <3>1 DEF CallRecords, Phases
    <3>3. /\ d.req = f.req /\ d.loaded = f.loaded /\ d.sess = f.sess /\ d.guess = f.guess
          /\ d.adds = f.adds /\ d.newId = f.newId /\ d.issue = f.issue
      BY <3>1 DEF CallRecords
    <3> QED
      BY <1>4, <2>1, <3>2, <3>3
  <2>3. CASE c.issue \notin Addressed
    <3>1. PICK row \in SessionRows : row = c.sess
      BY <1>2
    <3>2. d = ReadyCall(f, row, {}, "error", "delivery_failed")
      BY <2>1, <2>3, <3>1
    <3>3. Reply("error", row.state) \in Replies /\ "delivery_failed" \in Verdicts
      BY <1>5, <3>1 DEF Verdicts
    <3>4. d \in CallRecords /\ d.phase = "ready" /\ d.reply \in Replies
      <4>1. PICK rep \in Replies : rep = Reply("error", row.state)
        BY <3>3
      <4>2. d = [f EXCEPT !.phase = "ready", !.sess = row, !.adds = {},
                          !.verdict = "delivery_failed", !.reply = rep]
        BY <3>2, <4>1 DEF ReadyCall
      <4> HIDE DEF d
      <4>3. d \in CallRecords
        BY <3>3, <4>2 DEF CallRecords, Phases
      <4>4. d.phase = "ready" /\ d.reply = rep
        BY <4>2 DEF CallRecords
      <4> QED
        BY <4>3, <4>4
    <3>5. /\ d.req = f.req /\ d.loaded = f.loaded /\ d.sess = row /\ d.guess = f.guess
          /\ d.adds = {} /\ d.newId = f.newId /\ d.issue = f.issue
      BY <3>2 DEF ReadyCall, CallRecords
    <3> QED
      BY <1>4, <2>1, <3>1, <3>4, <3>5
  <2> QED
    BY <2>2, <2>3
<1>7. GoodCall(d)
  BY <1>1, <1>2, <1>3, <1>6 DEF GoodCall, Accepting
<1> HIDE DEF d
<1>8. /\ calls' \in [Handlers -> CallRecords] /\ calls'[p] = d
      /\ \A r \in Handlers \ {p} : calls'[r] = calls[r]
  BY <1>1, <1>6 DEF IInv, TypeOK
<1>9. TypeOK'
  BY <1>1, <1>3, <1>8 DEF IInv, TypeOK
<1>10. ASSUME NEW r \in Handlers PROVE GoodCall(calls[r])'
  BY <1>1, <1>7, <1>8, MoreSent DEF IInv
<1>11. FreshIds'
  <2>1. \A r \in Handlers : calls[r].newId \in 0..lastId
    BY DEF IInv, FreshIds
  <2> QED
    BY <1>1, <1>3, <1>6, <1>8, <2>1 DEF IInv, FreshIds
<1>12. SecondFactor'
  BY <1>1 DEF IInv, SecondFactor, Opened
<1> QED
  BY <1>9, <1>10, <1>11, <1>12 DEF IInv

LEMMA FlushLinkStep ==
  ASSUME IInv, NEW p \in Handlers, FlushLink(p)
  PROVE  IInv'
<1> DEFINE c == calls[p]
           d == [c EXCEPT !.phase = "sending", !.written = WritesSession(c)]
<1>1. c.phase = "staged"
  BY DEF FlushLink
<1>2. c \in CallRecords /\ GoodCall(c)
  BY <1>1, InFlightCall DEF InFlightPhases
<1>3. /\ calls' = [calls EXCEPT ![p] = d]
      /\ UNCHANGED <<sessions, challenges, artefacts, toolCalls, lastId, sent, now>>
  BY DEF FlushLink, Stay
<1>4. /\ d \in CallRecords /\ d.phase = "sending" /\ d.req = c.req /\ d.loaded = c.loaded
      /\ d.sess = c.sess /\ d.adds = c.adds /\ d.guess = c.guess /\ d.newId = c.newId
      /\ d.issue = c.issue
  BY <1>2 DEF CallRecords, Phases, WritesSession
<1>5. GoodCall(d)
  BY <1>1, <1>2, <1>4 DEF GoodCall, Accepting
<1>6. d.newId \in {0, c.newId}
  BY <1>4
<1> HIDE DEF d
<1> QED
  BY <1>3, <1>4, <1>5, <1>6, CallStep

\* A session row keeps its state when a delivered resend is counted.
LEMMA MessageSentStep ==
  ASSUME IInv, NEW p \in Handlers,
         PasscodeDelivered(p) \/ PasscodeUndelivered(p) \/ LinkEmailed(p)
  PROVE  IInv'
<1> DEFINE c == calls[p]
           counted == [c.sess EXCEPT !.otp_resends = @ + 1]
<1>1. c.phase = "sending"
  BY DEF PasscodeDelivered, PasscodeUndelivered, LinkEmailed
<1>2. /\ c.phase \in InFlightPhases /\ c \in CallRecords
      /\ c.sess \in SessionRows /\ c.adds \in SUBSET Artefacts
      /\ c.sess.state \in VerifiedStates => Proven(c.req.session) \/ Accepting(c)
      /\ c.adds \cap CreditArtefacts # {} => Proven(c.req.session)
  BY <1>1, InFlightCall DEF InFlightPhases, GoodCall, CallRecords
<1>3. counted \in SessionRows /\ counted.state = c.sess.state
  BY <1>2 DEF SessionRows
<1> HIDE DEF counted
<1>4. PICK row \in {c.sess, counted}, adds \in {c.adds, {}},
           outcome \in Outcomes, verdict \in Verdicts :
        Stay(p, ReadyCall(c, row, adds, outcome, verdict))
  <2>1. {"otp_sent", "error", "ok"} \subseteq Outcomes
    BY DEF Outcomes
  <2>2. {"sent", "delivery_failed"} \subseteq Verdicts
    BY DEF Verdicts
  <2>3. CASE PasscodeDelivered(p)
    <3>1. PICK row \in {c.sess, counted} : Stay(p, ReadyCall(c, row, {}, "otp_sent", "sent"))
      BY <2>3 DEF PasscodeDelivered, counted
    <3> QED
      BY <2>1, <2>2, <3>1
  <2>4. CASE PasscodeUndelivered(p)
    BY <2>1, <2>2, <2>4 DEF PasscodeUndelivered
  <2>5. CASE LinkEmailed(p)
    <3>1. PICK verdict \in {"sent", "delivery_failed"} :
            Stay(p, ReadyCall(c, c.sess, c.adds, "ok", verdict))
      BY <2>5 DEF LinkEmailed
    <3> QED
      BY <2>1, <2>2, <3>1
  <2> QED
    BY <2>3, <2>4, <2>5
<1>5. /\ row \in SessionRows /\ row.state = c.sess.state
      /\ adds \in SUBSET Artefacts
      /\ adds \cap CreditArtefacts # {} => Proven(c.req.session)
  BY <1>2, <1>3
<1> QED
  BY <1>2, <1>4, <1>5, ReadyStep DEF Stay

\* A request that has executed its first UPDATE is as it was otherwise.
LEMMA WrittenOK ==
  ASSUME NEW c \in CallRecords
  PROVE  /\ Written(c) \in CallRecords /\ Written(c).written = TRUE
         /\ Written(c).phase = c.phase /\ Written(c).req = c.req
         /\ Written(c).loaded = c.loaded /\ Written(c).sess = c.sess
         /\ Written(c).issue = c.issue /\ Written(c).newId = c.newId
         /\ Written(c).newAt = c.newAt /\ Written(c).retires = c.retires
         /\ Written(c).guess = c.guess /\ Written(c).adds = c.adds
         /\ Written(c).verdict = c.verdict /\ Written(c).reply = c.reply
<1>1. Written(c) \in CallRecords
  BY DEF Written, CallRecords
<1>2. /\ Written(c).written = TRUE
      /\ Written(c).phase = c.phase /\ Written(c).req = c.req
      /\ Written(c).loaded = c.loaded /\ Written(c).sess = c.sess
  BY DEF Written, CallRecords
<1>3. /\ Written(c).issue = c.issue /\ Written(c).newId = c.newId
      /\ Written(c).newAt = c.newAt /\ Written(c).retires = c.retires
  BY DEF Written, CallRecords
<1>4. /\ Written(c).guess = c.guess /\ Written(c).adds = c.adds
      /\ Written(c).verdict = c.verdict /\ Written(c).reply = c.reply
  BY DEF Written, CallRecords
<1> QED
  BY <1>1, <1>2, <1>3, <1>4

LEMMA WriteSessionStep ==
  ASSUME IInv, NEW p \in Handlers, WriteSession(p)
  PROVE  IInv'
<1>1. calls[p] \in CallRecords /\ GoodCall(calls[p])
  BY DEF IInv, TypeOK
<1>2. PICK c \in CallRecords, d \in CallRecords :
        /\ c = calls[p] /\ d = Written(c)
        /\ d.phase = c.phase /\ d.req = c.req /\ d.loaded = c.loaded /\ d.sess = c.sess
        /\ d.issue = c.issue /\ d.newId = c.newId /\ d.guess = c.guess
        /\ d.adds = c.adds /\ d.reply = c.reply
  <2>1. PICK c \in CallRecords : c = calls[p]
    BY <1>1
  <2>2. PICK d : d = Written(c)
    OBVIOUS
  <2>3. /\ d \in CallRecords
        /\ d.phase = c.phase /\ d.req = c.req /\ d.loaded = c.loaded /\ d.sess = c.sess
        /\ d.issue = c.issue /\ d.newId = c.newId /\ d.guess = c.guess
        /\ d.adds = c.adds /\ d.reply = c.reply
    BY <2>2, WrittenOK
  <2> QED
    BY <2>1, <2>2, <2>3
<1>3. GoodCall(d)
  BY <1>1, <1>2 DEF GoodCall, Accepting
<1>4. /\ calls' = [calls EXCEPT ![p] = d]
      /\ UNCHANGED <<sessions, challenges, artefacts, toolCalls, lastId, sent, now>>
  BY <1>2 DEF WriteSession, Stay
<1> QED
  BY <1>2, <1>3, <1>4, CallStep

LEMMA SendStep ==
  ASSUME IInv, NEW p \in Handlers, Send(p)
  PROVE  IInv'
BY WriteSessionStep, FlushChallengeStep, FlushLinkStep, MessageSentStep DEF Send
-----------------------------------------------------------------------------
(* The commit *)

LEMMA UpdatedRowOK ==
  ASSUME NEW stored \in SessionRows, NEW read \in SessionRows, NEW written \in SessionRows
  PROVE  /\ UpdatedRow(stored, read, written) \in SessionRows
         /\ UpdatedRow(stored, read, written).state \in {stored.state, written.state}
BY DEF UpdatedRow, Column, SessionRows

\* A commit never takes an acceptance back.
LEMMA UpdatedChallengeOK ==
  ASSUME NEW row \in ChallengeRows, NEW i, NEW c \in CallRecords
  PROVE  /\ UpdatedChallenge(row, i, c) \in ChallengeRows
         /\ UpdatedChallenge(row, i, c).session = row.session
         /\ row.proved => UpdatedChallenge(row, i, c).proved
         /\ i = c.guess.id /\ c.guess.ok => UpdatedChallenge(row, i, c).proved
<1>1. c.guess.attempts \in Nat /\ c.guess.ok \in BOOLEAN
  BY DEF CallRecords, Guesses
<1>2. UpdatedChallenge(row, i, c) \in ChallengeRows
  <2> DEFINE guessed == i = c.guess.id
             attempts == IF guessed THEN c.guess.attempts ELSE row.attempts
             consumed == row.consumed \/ i = c.retires \/ (guessed /\ c.guess.ok)
             guesses == IF guessed THEN row.guesses + 1 ELSE row.guesses
             proved == row.proved \/ (guessed /\ c.guess.ok)
  <2>1. attempts \in Nat /\ guesses \in Nat
    BY <1>1 DEF ChallengeRows
  <2>2. consumed \in BOOLEAN /\ proved \in BOOLEAN
    OBVIOUS
  <2>3. UpdatedChallenge(row, i, c) =
          [row EXCEPT !.attempts = attempts, !.consumed = consumed,
                      !.guesses = guesses, !.proved = proved]
    BY DEF UpdatedChallenge
  <2> HIDE DEF attempts, consumed, guesses, proved
  <2> QED
    BY <2>1, <2>2, <2>3 DEF ChallengeRows
<1>3. UpdatedChallenge(row, i, c).session = row.session
  BY DEF UpdatedChallenge, ChallengeRows
<1>4. UpdatedChallenge(row, i, c).proved = (row.proved \/ (i = c.guess.id /\ c.guess.ok))
  BY DEF UpdatedChallenge, ChallengeRows
<1> QED
  BY <1>2, <1>3, <1>4

LEMMA NewChallengeOK ==
  ASSUME NEW c \in CallRecords, c.req \in Requests, c.issue # None
  PROVE  NewChallenge(c) \in ChallengeRows
<1>1. c.issue \in Customers /\ c.newAt \in Nat /\ c.req.session \in Sessions
  BY DEF CallRecords, Requests
<1>2. c.newAt + CodeTtl \in Nat
  BY <1>1, ServiceAssumption
<1> QED
  BY <1>1, <1>2 DEF NewChallenge, ChallengeRows

LEMMA RecordCallStep ==
  ASSUME IInv, NEW p \in Handlers, RecordCall(p)
  PROVE  IInv'
<1> DEFINE c == calls[p]
           s == c.req.session
           added == {c.newId} \ {0}
           row == UpdatedRow(sessions[s], c.loaded, c.sess)
           entry == [tool |-> c.req.tool, key |-> c.req.key,
                     verdict |-> c.verdict, reply |-> c.reply]
<1>1. /\ c.phase = "ready"
      /\ sessions' = [sessions EXCEPT ![s] = row]
      /\ challenges' = [i \in DOMAIN challenges \cup added |->
                          IF i \in added THEN NewChallenge(c)
                          ELSE UpdatedChallenge(challenges[i], i, c)]
      /\ artefacts' = [artefacts EXCEPT ![s] =
                         [k \in Artefacts |-> IF k \in c.adds THEN artefacts[s][k] + 1
                                              ELSE artefacts[s][k]]]
      /\ toolCalls' = [toolCalls EXCEPT ![s] = Append(toolCalls[s], entry)]
      /\ calls' = [calls EXCEPT ![p] = AnsweredCall(c.req, c.reply)]
      /\ UNCHANGED <<lastId, sent, now>>
  BY DEF RecordCall
<1>2. /\ c \in CallRecords /\ GoodCall(c) /\ c.req \in Requests /\ s \in Sessions
      /\ c.loaded \in SessionRows /\ c.sess \in SessionRows
  BY <1>1, InFlightCall DEF InFlightPhases
<1>3. /\ sessions[s] # None /\ c.reply \in Replies
      /\ c.sess.state \in VerifiedStates => Proven(s) \/ Accepting(c)
      /\ c.adds \cap CreditArtefacts # {} => Proven(s)
      /\ c.newId # 0 => c.newId \notin DOMAIN challenges /\ c.issue # None
  BY <1>1, <1>2 DEF GoodCall
<1>4. sessions[s] \in SessionRows
  BY <1>2, <1>3 DEF IInv, TypeOK
<1>5. row \in SessionRows /\ row.state \in {sessions[s].state, c.sess.state} /\ row # None
  BY <1>2, <1>4, UpdatedRowOK, ServiceAssumption
<1> HIDE DEF row
<1>6. /\ added \cap DOMAIN challenges = {}
      /\ DOMAIN challenges' = DOMAIN challenges \cup added
      /\ \A i \in DOMAIN challenges :
           challenges'[i] = UpdatedChallenge(challenges[i], i, c)
      /\ \A i \in added : challenges'[i] = NewChallenge(c)
  BY <1>1, <1>3
<1>7. \A i \in DOMAIN challenges :
        /\ challenges'[i] \in ChallengeRows
        /\ challenges'[i].session = challenges[i].session
        /\ challenges[i].proved => challenges'[i].proved
        /\ i = c.guess.id /\ c.guess.ok => challenges'[i].proved
  BY <1>2, <1>6, UpdatedChallengeOK DEF IInv, TypeOK
<1>8. \A t : Proven(t) => Proven(t)'
  BY <1>1, <1>6, <1>7 DEF Proven
<1>9. ASSUME NEW t, t = s, Accepting(c) PROVE Proven(t)'
  <2>1. PICK i \in DOMAIN challenges :
          i = c.guess.id /\ c.guess.ok /\ challenges[i].session = t /\ i \in sent
    BY <1>9 DEF Accepting
  <2>2. /\ i \in DOMAIN challenges' /\ i \in sent'
        /\ challenges'[i].session = t /\ challenges'[i].proved
    BY <1>1, <1>6, <1>7, <2>1
  <2> QED
    BY <2>2 DEF Proven
<1>10. /\ AnsweredCall(c.req, c.reply) \in CallRecords
       /\ AnsweredCall(c.req, c.reply).phase = "answered"
       /\ AnsweredCall(c.req, c.reply).newId = 0
  BY <1>2, <1>3, AnsweredCallOK
<1>11. /\ calls' \in [Handlers -> CallRecords]
       /\ calls'[p].phase = "answered" /\ calls'[p].newId = 0
       /\ \A r \in Handlers \ {p} : calls'[r] = calls[r]
  BY <1>1, <1>10 DEF IInv, TypeOK
<1>12. TypeOK'
  <2>1. sessions' \in [Sessions -> SessionRows \cup {None}]
    BY <1>1, <1>5 DEF IInv, TypeOK
  <2>2. DOMAIN challenges' \subseteq 1..lastId'
    <3>1. c.newId \in 0..lastId
      BY DEF IInv, FreshIds
    <3>2. DOMAIN challenges \subseteq 1..lastId /\ lastId \in Nat
      BY DEF IInv, TypeOK
    <3> QED
      BY <1>1, <1>6, <3>1, <3>2
  <2>3. \A i \in DOMAIN challenges' : challenges'[i] \in ChallengeRows
    <3>1. \A i \in added : challenges'[i] \in ChallengeRows
      BY <1>2, <1>3, <1>6, NewChallengeOK
    <3> QED
      BY <1>6, <1>7, <3>1
  <2>4. artefacts' \in [Sessions -> [Artefacts -> Nat]]
    <3> DEFINE f == [k \in Artefacts |-> IF k \in c.adds THEN artefacts[s][k] + 1
                                         ELSE artefacts[s][k]]
    <3>1. artefacts \in [Sessions -> [Artefacts -> Nat]]
      BY DEF IInv, TypeOK
    <3>2. artefacts[s] \in [Artefacts -> Nat]
      BY <1>2, <3>1
    <3>3. f \in [Artefacts -> Nat]
      BY <3>2
    <3>4. artefacts' = [artefacts EXCEPT ![s] = f]
      BY <1>1
    <3> HIDE DEF f
    <3> QED
      BY <3>1, <3>3, <3>4
  <2>5. toolCalls' \in [Sessions -> Seq(AuditRows)]
    <3>1. entry \in AuditRows
      BY <1>2, <1>3 DEF AuditRows, Requests, CallRecords
    <3>2. toolCalls \in [Sessions -> Seq(AuditRows)]
      BY DEF IInv, TypeOK
    <3> HIDE DEF entry
    <3>3. Append(toolCalls[s], entry) \in Seq(AuditRows)
      BY <1>2, <3>1, <3>2
    <3> QED
      BY <1>1, <3>2, <3>3
  <2>6. lastId' \in Nat /\ sent' \subseteq 1..lastId' /\ now' \in Nat
    BY <1>1 DEF IInv, TypeOK
  <2> QED
    BY <1>11, <2>1, <2>2, <2>3, <2>4, <2>5, <2>6 DEF TypeOK
<1>13. ASSUME NEW r \in Handlers PROVE GoodCall(calls[r])'
  <2>1. CASE r = p
    BY <1>11, <2>1 DEF GoodCall
  <2>2. CASE r # p
    <3>1. PICK d : d = calls[r]
      OBVIOUS
    <3>2. calls'[r] = d /\ GoodCall(d)
      BY <1>11, <2>2, <3>1 DEF IInv
    <3>3. Accepting(d) => Accepting(d)'
      BY <1>1, <1>6, <1>7 DEF Accepting
    <3>4. d.newId # 0 /\ d.newId \notin DOMAIN challenges => d.newId \notin DOMAIN challenges'
      <4>1. d.newId # 0 => d.newId # c.newId
        BY <2>2, <3>1 DEF IInv, FreshIds
      <4> QED
        BY <1>6, <4>1
    <3>5. \A t : sessions[t] # None => sessions'[t] # None
      BY <1>1, <1>5 DEF IInv, TypeOK
    <3>6. d.req.code \in {0} \cup sent => d.req.code \in {0} \cup sent'
      BY <1>1
    <3>7. GoodCall(d)'
      BY <1>8, <3>2, <3>3, <3>4, <3>5, <3>6 DEF GoodCall
    <3> QED
      BY <3>2, <3>7
  <2> QED
    BY <2>1, <2>2
<1>14. FreshIds'
  BY <1>1, <1>11 DEF IInv, FreshIds, TypeOK
<1>15. SecondFactor'
  <2>1. SUFFICES ASSUME NEW t \in Sessions,
                        \/ sessions'[t] # None /\ sessions'[t].state \in VerifiedStates
                        \/ \E k \in CreditArtefacts : artefacts'[t][k] > 0
                 PROVE  Proven(t)'
    BY DEF SecondFactor, Opened, Proven
  <2>2. (\/ sessions[t] # None /\ sessions[t].state \in VerifiedStates
         \/ \E k \in CreditArtefacts : artefacts[t][k] > 0)
        => Proven(t)
    BY DEF IInv, SecondFactor, Opened, Proven
  <2>3. CASE t # s
    <3>1. sessions'[t] = sessions[t] /\ artefacts'[t] = artefacts[t]
      BY <1>1, <2>3 DEF IInv, TypeOK
    <3> QED
      BY <1>8, <2>1, <2>2, <3>1
  <2>4. CASE t = s
    <3>1. sessions'[s] = row
      BY <1>1, <1>2 DEF IInv, TypeOK
    <3>2. CASE sessions'[t].state \in VerifiedStates
      BY <1>3, <1>5, <1>8, <1>9, <2>2, <2>4, <3>1, <3>2
    <3>3. CASE \E k \in CreditArtefacts : artefacts'[t][k] > 0
      <4>1. PICK k \in CreditArtefacts : artefacts'[s][k] > 0
        BY <2>4, <3>3
      <4>2. k \in Artefacts
        BY DEF Artefacts
      <4>3. artefacts'[s][k] = IF k \in c.adds THEN artefacts[s][k] + 1
                               ELSE artefacts[s][k]
        BY <1>1, <1>2, <4>2 DEF IInv, TypeOK
      <4>4. k \in c.adds \/ artefacts[s][k] > 0
        BY <4>1, <4>3
      <4> HIDE DEF s
      <4> QED
        BY <1>3, <1>8, <2>2, <2>4, <4>4
    <3> QED
      BY <2>1, <3>2, <3>3
  <2> QED
    BY <2>3, <2>4
<1> QED
  BY <1>12, <1>13, <1>14, <1>15 DEF IInv

LEMMA SuppressDuplicateStep ==
  ASSUME IInv, NEW p \in Handlers, SuppressDuplicate(p)
  PROVE  IInv'
<1>1. calls[p].phase = "ready"
  BY DEF SuppressDuplicate
<1>2. /\ calls[p].req \in Requests /\ calls[p].req.session \in Sessions
      /\ GoodCall(calls[p])
  BY <1>1, InFlightCall DEF InFlightPhases
<1>3. calls[p].reply \in Replies
  BY <1>1, <1>2 DEF GoodCall
<1>4. \A i \in PriorRows(calls[p].req) :
        toolCalls[calls[p].req.session][i].reply \in Replies
  BY <1>2, PriorRowsOK, StoredReplyOK DEF IInv
<1>5. PICK rep \in Replies : Stay(p, AnsweredCall(calls[p].req, rep))
  BY <1>3, <1>4 DEF SuppressDuplicate
<1> QED
  BY <1>2, <1>5, AnswerStep DEF Stay

LEMMA IdleStep ==
  ASSUME IInv, NEW p \in Handlers, Return(p) \/ Abort(p)
  PROVE  IInv'
<1>1. Stay(p, IdleCall)
  BY DEF Return, Abort
<1>2. GoodCall(IdleCall) /\ IdleCall.newId = 0
  BY DEF GoodCall, IdleCall
<1> QED
  BY <1>1, <1>2, IdleCallOK, CallStep DEF Stay
-----------------------------------------------------------------------------
(* Steps of no request *)

LEMMA StartSessionStep ==
  ASSUME IInv, NEW s \in Sessions, StartSession(s)
  PROVE  IInv'
<1> DEFINE row == [state |-> "started", customer |-> None,
                   identity_attempts |-> 0, otp_resends |-> 0]
<1>1. /\ sessions[s] = None /\ sessions' = [sessions EXCEPT ![s] = row]
      /\ UNCHANGED <<challenges, artefacts, toolCalls, lastId, sent, calls, now>>
  BY DEF StartSession
<1>2. row \in SessionRows /\ row.state = "started" /\ row # None
  <2>1. row \in SessionRows
    BY DEF SessionRows, States
  <2> QED
    BY <2>1, ServiceAssumption
<1> HIDE DEF row
<1>3. TypeOK'
  BY <1>1, <1>2 DEF IInv, TypeOK
<1>4. ASSUME NEW p \in Handlers PROVE GoodCall(calls[p])'
  <2>1. \A t : sessions[t] # None => sessions'[t] # None
    BY <1>1
  <2> QED
    BY <1>1, <2>1 DEF IInv, GoodCall, Proven, Accepting
<1>5. FreshIds'
  BY <1>1 DEF IInv, FreshIds
<1>6. SecondFactor'
  BY <1>1, <1>2 DEF IInv, SecondFactor, Opened, TypeOK
<1> QED
  BY <1>3, <1>4, <1>5, <1>6 DEF IInv

LEMMA TickStep ==
  ASSUME IInv, Tick
  PROVE  IInv'
<1>1. now' \in Nat /\ UNCHANGED <<sessions, challenges, artefacts, toolCalls, lastId, sent, calls>>
  BY DEF Tick, IInv, TypeOK
<1>2. TypeOK'
  BY <1>1 DEF IInv, TypeOK
<1>3. \A p \in Handlers : GoodCall(calls[p])'
  BY <1>1 DEF IInv, GoodCall, Proven, Accepting
<1>4. FreshIds' /\ SecondFactor'
  BY <1>1 DEF IInv, FreshIds, SecondFactor, Opened
<1> QED
  BY <1>2, <1>3, <1>4 DEF IInv

LEMMA StutterStep ==
  ASSUME IInv, UNCHANGED vars
  PROVE  IInv'
<1>1. UNCHANGED <<sessions, challenges, artefacts, toolCalls, lastId, sent, calls, now>>
  BY DEF vars
<1>2. TypeOK'
  BY <1>1 DEF IInv, TypeOK
<1>3. \A p \in Handlers : GoodCall(calls[p])'
  BY <1>1 DEF IInv, GoodCall, Proven, Accepting
<1>4. FreshIds' /\ SecondFactor'
  BY <1>1 DEF IInv, FreshIds, SecondFactor, Opened
<1> QED
  BY <1>2, <1>3, <1>4 DEF IInv

LEMMA NextIInv == IInv /\ [Next]_vars => IInv'
<1> SUFFICES ASSUME IInv, [Next]_vars PROVE IInv'
  OBVIOUS
<1>1. ASSUME NEW s \in Sessions, StartSession(s) PROVE IInv'
  BY <1>1, StartSessionStep
<1>2. ASSUME NEW p \in Handlers, Arrive(p) PROVE IInv'
  BY <1>2, ArriveStep
<1>3. ASSUME NEW p \in Handlers, Work(p) PROVE IInv'
  BY <1>3, WorkStep
<1>4. ASSUME NEW p \in Handlers, Send(p) PROVE IInv'
  BY <1>4, SendStep
<1>5. ASSUME NEW p \in Handlers, Finalize(p) PROVE IInv'
  BY <1>5, RecordCallStep, SuppressDuplicateStep DEF Finalize
<1>6. ASSUME NEW p \in Handlers, Return(p) \/ Abort(p) PROVE IInv'
  BY <1>6, IdleStep
<1>7. CASE Tick
  BY <1>7, TickStep
<1>8. CASE UNCHANGED vars
  BY <1>8, StutterStep
<1> QED
  BY <1>1, <1>2, <1>3, <1>4, <1>5, <1>6, <1>7, <1>8 DEF Next
-----------------------------------------------------------------------------
(* The theorems *)

\* IInv holds in every reachable state.
THEOREM Invariance == Spec => []IInv
<1> QED
  BY InitIInv, NextIInv, PTL DEF Spec

\* Every variable keeps its type whatever the handlers do: every row that is
\* committed, every reply and every open transaction is well formed.
THEOREM TypeCorrect == Spec => []TypeOK
<1>1. IInv => TypeOK
  BY DEF IInv
<1> QED
  BY <1>1, Invariance, PTL

\* No session is verified, assessed or given consent without a passcode that
\* went out for it and was accepted, however requests overlap (tools.py:305-309).
THEOREM SecondFactorHolds == Spec => []SecondFactor
<1>1. IInv => SecondFactor
  BY DEF IInv
<1> QED
  BY <1>1, Invariance, PTL
=============================================================================
