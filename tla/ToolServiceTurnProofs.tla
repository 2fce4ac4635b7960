------------------------ MODULE ToolServiceTurnProofs ------------------------
(***************************************************************************)
(* ToolService where the platform lets requests overlap only as retries of *)
(* one another, or on different sessions (every policy but "always"), or   *)
(* where there is one handler.  Then a request that commits still sees the *)
(* rows it loaded, and what holds of a session while one handler works on  *)
(* it holds for good: for all values of the constants.                     *)
(*                                                                         *)
(* The argument: two requests in flight on one session carry the same key. *)
(* The first to commit takes the key, so the rows another read may be old, *)
(* but then its own commit will be suppressed.  TInv says so of every      *)
(* request in flight, and what each has staged so far.                     *)
(***************************************************************************)
EXTENDS ToolServiceLedgerProofs

\* On one session, only retries of one request are in progress together.
OnlyRetriesOverlap == Overlap # "always" \/ \A p, r \in Handlers : p = r

\* The states of a caller who is on no file yet, and of one who is.
Anonymous == {"started", "prospect", "lead_captured"}
Known == {"identity_matched", "identity_verified", "eligibility_assessed", "completed"}
Undecided == Anonymous \cup {"identity_matched", "identity_verified"}

\* What holds of a session row, whatever belongs to it.
RowShape(row) ==
  /\ row.state \in Anonymous \cup Known \cup {"escalated"}
  /\ row.state \in Anonymous => row.customer = None
  /\ row.state \in Known => row.customer \in Customers \ Sanctioned
  /\ row.identity_attempts <= MaxIdentityAttempts
  /\ row.otp_resends <= MaxResends

\* What a request q makes of the row it loaded, by its tool and verdict.
Effect(q, old, row, verdict, hit) ==
  \/ /\ q.tool = "verify_identity" /\ verdict \in Failures \ {"pan_not_found"}
     /\ row = [old EXCEPT !.identity_attempts = @ + 1]
  \/ /\ q.tool = "verify_identity" /\ verdict = "pan_not_found"
     /\ row = [old EXCEPT !.state = "prospect"]
  \/ /\ q.tool = "verify_identity" /\ verdict \notin Failures
     /\ q.claim.pan \in Customers \ Sanctioned
     /\ row = [old EXCEPT !.customer = q.claim.pan, !.state = "identity_matched"]
  \/ /\ q.tool = "verify_otp"
     /\ row = IF hit THEN [old EXCEPT !.state = "identity_verified"] ELSE old
  \/ /\ q.tool = "resend_otp" /\ verdict # "sent" /\ row = old
  \/ /\ q.tool = "resend_otp" /\ verdict = "sent" /\ old.otp_resends < MaxResends
     /\ row = [old EXCEPT !.otp_resends = @ + 1]
  \/ /\ q.tool = "capture_lead" /\ row = [old EXCEPT !.state = "lead_captured"]
  \/ /\ q.tool = "check_eligibility"
     /\ row = [old EXCEPT !.state = "eligibility_assessed"]
  \/ /\ q.tool = "record_consent" /\ verdict = "granted"
     /\ row = [old EXCEPT !.state = "completed"]
  \/ /\ q.tool = "record_consent" /\ verdict = "refused" /\ row = old
  \/ /\ q.tool = "escalate" /\ row = [old EXCEPT !.state = "escalated"]

\* What it has staged when it is about to send a message.
Staged(q, old, row, issue) ==
  \/ /\ q.tool = "verify_identity" /\ issue = q.claim.pan
     /\ q.claim.pan \in Customers \ Sanctioned
     /\ row = [old EXCEPT !.customer = q.claim.pan, !.state = "identity_matched"]
  \/ /\ q.tool = "resend_otp" /\ issue = old.customer /\ old.otp_resends < MaxResends
     /\ row = old
  \/ /\ q.tool = "capture_lead" /\ issue = None
     /\ row = [old EXCEPT !.state = "lead_captured"]

\* What a request in flight is about, whatever has been committed since.
Local(c) ==
  /\ RowShape(c.loaded)
  /\ StateRefusal(c.loaded.state, c.req.tool) = "none"
  /\ c.req.tool = "verify_identity" => c.loaded.identity_attempts < MaxIdentityAttempts
  /\ c.phase = "loaded" => c.guess = NoGuess /\ c.issue = None
  /\ c.phase \in {"staged", "sending"} => Staged(c.req, c.loaded, c.sess, c.issue)
  /\ c.phase = "ready" =>
       /\ Effect(c.req, c.loaded, c.sess, c.verdict, c.guess.ok)
       /\ c.reply.state = c.sess.state
  /\ c.issue = None => c.retires = 0 /\ c.newId = 0
  /\ c.issue # None =>
       /\ c.req.tool \in {"verify_identity", "resend_otp"}
       /\ c.issue = c.sess.customer /\ c.sess.state = "identity_matched"
  /\ c.guess.id # 0 => c.req.tool = "verify_otp"
  /\ c.guess.ok => c.guess.id # 0
  /\ c.newId # 0 => c.newAt <= now

\* The passcode it compared the guess with is as it was.
Compared(c) ==
  c.guess.id # 0 =>
    /\ c.guess.id \in Unconsumed(c.req.session)
    /\ c.guess.attempts = challenges[c.guess.id].attempts + 1
    /\ c.guess.attempts <= MaxVerifyAttempts

\* What it has read is what is stored.
Current(c) ==
  /\ c.loaded = sessions[c.req.session]
  /\ c.issue # None => IsActive(c.req.session, c.retires)
  /\ c.newId # 0 => \A j \in Own(c.req.session) : j < c.newId
  /\ Compared(c)

Turn(c) ==
  c.phase \in InFlightPhases => Local(c) /\ (KeyTaken(c.req) \/ Current(c))

\* Requests in flight on one session are retries of one another.
Retries(c, d) ==
  /\ c.phase \in InFlightPhases /\ d.phase \in InFlightPhases
  /\ c.req.session = d.req.session
  => c.req = d.req /\ c.req.key # None

\* What holds of the rows that belong to a session.
GoodSession(s) ==
  /\ sessions[s] = None => toolCalls[s] = <<>> /\ Own(s) = {}
  /\ sessions[s] # None =>
       /\ RowShape(sessions[s])
       /\ sessions[s].state \in Anonymous => Own(s) = {} /\ artefacts[s]["refused"] = 0
       /\ sessions[s].state \in Undecided => artefacts[s]["assessment"] = 0
       /\ \A i \in Own(s) : challenges[i].customer = sessions[s].customer

GoodChallenge(i) ==
  /\ challenges[i].attempts = challenges[i].guesses
  /\ challenges[i].guesses <= MaxVerifyAttempts
  /\ ~challenges[i].consumed => \A j \in Own(challenges[i].session) : j <= i
  /\ challenges[i].expires = challenges[i].created + CodeTtl
  /\ challenges[i].created <= now

TInv == /\ \A p \in Handlers : Turn(calls[p])
        /\ \A p, r \in Handlers : p # r => Retries(calls[p], calls[r])
        /\ \A s \in Sessions : GoodSession(s)
        /\ \A i \in DOMAIN challenges : GoodChallenge(i)
        /\ AuditAgrees /\ EndingBacked /\ AttemptBudget /\ ResendBudget

USE DEF Anonymous, Known, Undecided, InFlightPhases
-----------------------------------------------------------------------------
(* The initial state *)

LEMMA InitTInv == Init => TInv
<1> SUFFICES ASSUME Init PROVE TInv
  OBVIOUS
<1>1. /\ \A s \in Sessions : sessions[s] = None /\ toolCalls[s] = <<>>
      /\ DOMAIN challenges = {} /\ Opened = {}
      /\ \A p \in Handlers : calls[p].phase = "idle"
  BY DEF Init, IdleCall, Opened
<1>2. \A s : Own(s) = {}
  BY <1>1 DEF Own
<1>3. \A p \in Handlers : Turn(calls[p])
  BY <1>1 DEF Turn
<1>4. \A p, r \in Handlers : Retries(calls[p], calls[r])
  BY <1>1 DEF Retries
<1>5. \A s \in Sessions : GoodSession(s)
  BY <1>1, <1>2 DEF GoodSession
<1>6. \A i \in DOMAIN challenges : GoodChallenge(i)
  BY <1>1
<1>7. AuditAgrees /\ EndingBacked /\ AttemptBudget /\ ResendBudget
  BY <1>1 DEF AuditAgrees, EndingBacked, AttemptBudget, ResendBudget
<1> QED
  BY <1>3, <1>4, <1>5, <1>6, <1>7 DEF TInv
-----------------------------------------------------------------------------
(* Steps that change one request and no committed row *)

\* What TInv says of rows depends on nothing but the rows and the clock.
LEMMA SameRows ==
  ASSUME TInv, UNCHANGED <<sessions, challenges, artefacts, toolCalls, now>>
  PROVE  /\ \A s \in Sessions : GoodSession(s)'
         /\ \A i \in DOMAIN challenges' : GoodChallenge(i)'
         /\ AuditAgrees' /\ EndingBacked' /\ AttemptBudget' /\ ResendBudget'
<1>1. \A s \in Sessions : GoodSession(s)'
  BY DEF TInv, GoodSession, Own, RowShape
<1>2. \A i \in DOMAIN challenges' : GoodChallenge(i)'
  BY DEF TInv, GoodChallenge, Own
<1>3. AuditAgrees' /\ EndingBacked'
  BY DEF TInv, AuditAgrees, EndingBacked, Opened
<1>4. \A s : \A T, V : AuditCount(s, T, V)' = AuditCount(s, T, V)
  BY DEF AuditCount
<1>5. AttemptBudget' /\ ResendBudget'
  BY <1>4 DEF TInv, AttemptBudget, ResendBudget, Opened
<1> QED
  BY <1>1, <1>2, <1>3, <1>5

LEMMA SameTurn ==
  ASSUME UNCHANGED <<sessions, challenges, toolCalls, now>>, NEW c, Turn(c)
  PROVE  Turn(c)'
<1>1. Local(c) => Local(c)'
  BY DEF Local, RowShape
<1>2. Current(c) => Current(c)'
  BY DEF Current, Compared, IsActive, Unconsumed, Own
<1>3. KeyTaken(c.req) => KeyTaken(c.req)'
  BY DEF KeyTaken
<1> QED
  BY <1>1, <1>2, <1>3 DEF Turn

LEMMA TCallStep ==
  ASSUME IInv, TInv, NEW p \in Handlers, NEW c,
         calls' = [calls EXCEPT ![p] = c],
         UNCHANGED <<sessions, challenges, artefacts, toolCalls, now>>,
         Turn(c),
         c.phase \in InFlightPhases =>
           \/ calls[p].phase \in InFlightPhases /\ calls[p].req = c.req
           \/ \A r \in Handlers \ {p} : Retries(c, calls[r]) /\ Retries(calls[r], c)
  PROVE  TInv'
<1>1. \A r \in Handlers : calls'[r] = IF r = p THEN c ELSE calls[r]
  BY DEF IInv, TypeOK
<1>2. ASSUME NEW r \in Handlers PROVE Turn(calls[r])'
  <2>1. PICK d : d = calls'[r]
    OBVIOUS
  <2>2. Turn(d)
    BY <1>1, <2>1 DEF TInv
  <2>3. Turn(d)'
    BY <2>2, SameTurn
  <2> QED
    BY <2>1, <2>3 DEF Turn, Local, Current, Compared
<1>3. ASSUME NEW r \in Handlers, NEW q \in Handlers, r # q
      PROVE  Retries(calls[r], calls[q])'
  <2>1. CASE r # p /\ q # p
    BY <1>1, <1>3, <2>1 DEF TInv, Retries
  <2>2. CASE r = p
    BY <1>1, <1>3, <2>2 DEF TInv, Retries
  <2>3. CASE q = p
    BY <1>1, <1>3, <2>3 DEF TInv, Retries
  <2> QED
    BY <2>1, <2>2, <2>3
<1> QED
  BY <1>2, <1>3, SameRows DEF TInv
-----------------------------------------------------------------------------
(* Requests arrive *)

LEMMA TAnswerStep ==
  ASSUME IInv, TInv, NEW p \in Handlers, NEW q, NEW rep,
         calls' = [calls EXCEPT ![p] = AnsweredCall(q, rep)],
         UNCHANGED <<sessions, challenges, artefacts, toolCalls, now>>
  PROVE  TInv'
<1> DEFINE c == AnsweredCall(q, rep)
<1>1. c.phase = "answered"
  BY DEF AnsweredCall, IdleCall
<1>2. calls' = [calls EXCEPT ![p] = c] /\ Turn(c)
  BY <1>1 DEF Turn
<1> HIDE DEF c
<1> QED
  BY <1>1, <1>2, TCallStep

\* A request is let in beside its own retries only.
LEMMA AdmissibleOK ==
  ASSUME OnlyRetriesOverlap, NEW q, Admissible(q),
         NEW p \in Handlers, NEW r \in Handlers \ {p}, calls[r].phase \in InFlightPhases,
         calls[r].req.session = q.session
  PROVE  calls[r].req = q /\ q.key # None
<1>1. r \in InFlight
  BY DEF InFlight
<1>2. Overlap \in {"never", "one_issuer", "other_sessions", "retries"}
  BY ServiceAssumption DEF OverlapPolicies, OnlyRetriesOverlap
<1> QED
  BY <1>1, <1>2 DEF Admissible

LEMMA TLoadStep ==
  ASSUME OnlyRetriesOverlap, IInv, TInv, NEW p \in Handlers,
         NEW q \in Requests, LoadCall(p, q)
  PROVE  TInv'
<1> DEFINE row == sessions[q.session]
           c == LoadedCall(q, row)
<1>1. /\ Admissible(q) /\ Refusal(row, q.tool) = "none"
      /\ calls' = [calls EXCEPT ![p] = c]
      /\ UNCHANGED <<sessions, challenges, artefacts, toolCalls, now>>
  BY DEF LoadCall, Arrives
<1>2. /\ row # None /\ StateRefusal(row.state, q.tool) = "none"
      /\ q.tool = "verify_identity" => row.identity_attempts < MaxIdentityAttempts
  <2>1. row # None /\ StateRefusal(row.state, q.tool) = "none"
        /\ ~(q.tool = "verify_identity" /\ row.identity_attempts >= MaxIdentityAttempts)
    BY <1>1 DEF Refusal
  <2>2. row \in SessionRows
    BY <2>1 DEF IInv, TypeOK, Requests
  <2> QED
    BY <2>1, <2>2, ServiceAssumption DEF SessionRows
<1>3. RowShape(row)
  BY <1>2 DEF TInv, GoodSession, Requests
<1>4. /\ c.phase = "loaded" /\ c.req = q /\ c.loaded = row /\ c.sess = row
      /\ c.newId = 0 /\ c.issue = None /\ c.retires = 0 /\ c.guess = NoGuess
  BY DEF LoadedCall, IdleCall
<1>5. c.guess.id = 0 /\ c.guess.ok = FALSE
  BY <1>4 DEF NoGuess
<1>6. Local(c)
  BY <1>2, <1>3, <1>4, <1>5 DEF Local
<1>7. Current(c)
  BY <1>4, <1>5 DEF Current, Compared
<1> HIDE DEF c
<1>8. \A r \in Handlers \ {p} : Retries(c, calls[r]) /\ Retries(calls[r], c)
  BY <1>1, <1>4, AdmissibleOK DEF Retries
<1> QED
  BY <1>1, <1>6, <1>7, <1>8, TCallStep DEF Turn

LEMMA TArriveStep ==
  ASSUME OnlyRetriesOverlap, IInv, TInv, NEW p \in Handlers, Arrive(p)
  PROVE  TInv'
<1>1. PICK s \in Sessions, t \in Tools :
        \E q \in RequestsFor(s, t) : ReplayCall(p, q) \/ RefuseCall(p, q) \/ LoadCall(p, q)
  BY DEF Arrive
<1>2. PICK q \in RequestsFor(s, t) : ReplayCall(p, q) \/ RefuseCall(p, q) \/ LoadCall(p, q)
  BY <1>1
<1>3. q \in Requests
  BY RequestsForOK DEF IInv
<1>4. CASE ReplayCall(p, q)
  BY <1>4, TAnswerStep DEF ReplayCall
<1>5. CASE RefuseCall(p, q)
  BY <1>5, TAnswerStep DEF RefuseCall
<1>6. CASE LoadCall(p, q)
  BY <1>3, <1>6, TLoadStep
<1> QED
  BY <1>2, <1>4, <1>5, <1>6
-----------------------------------------------------------------------------
(* The handlers at work *)

\* What is known of a request in flight.
LEMMA InTurn ==
  ASSUME IInv, TInv, NEW p \in Handlers, calls[p].phase \in InFlightPhases
  PROVE  /\ calls[p] \in CallRecords /\ Local(calls[p])
         /\ KeyTaken(calls[p].req) \/ Current(calls[p])
         /\ calls[p].loaded \in SessionRows /\ calls[p].sess \in SessionRows
         /\ calls[p].req \in Requests
BY InFlightCall DEF TInv, Turn

LEMMA TWorking ==
  ASSUME IInv, TInv, NEW p \in Handlers, NEW t \in Tools, Working(p, t)
  PROVE  /\ calls[p].phase \in InFlightPhases /\ calls[p].req.tool = t
         /\ calls[p].sess = calls[p].loaded /\ calls[p].loaded \in SessionRows
         /\ calls[p].loaded.state \in ExpectedStates[t]
         /\ calls[p].guess = NoGuess /\ calls[p].guess.id = 0 /\ calls[p].guess.ok = FALSE
         /\ calls[p].issue = None /\ calls[p].newId = 0 /\ calls[p].retires = 0
         /\ RowShape(calls[p].loaded)
         /\ calls[p] \in CallRecords /\ calls[p].req \in Requests
<1>1. calls[p].phase = "loaded" /\ calls[p].req.tool = t
  BY DEF Working
<1>2. /\ calls[p] \in CallRecords /\ Local(calls[p]) /\ GoodCall(calls[p])
      /\ calls[p].loaded \in SessionRows /\ calls[p].req \in Requests
  BY <1>1, InTurn, InFlightCall
<1>3. StateRefusal(calls[p].loaded.state, t) = "none"
  BY <1>1, <1>2 DEF Local
<1>4. calls[p].loaded.state \in ExpectedStates[t]
  BY <1>3 DEF StateRefusal
<1> QED
  BY <1>1, <1>2, <1>4 DEF Local, GoodCall, NoGuess

\* A handler builds its response, from a record b that differs from its own in
\* the guess, or in the id of a new passcode.
LEMMA TReadyStep ==
  ASSUME IInv, TInv, NEW p \in Handlers, calls[p].phase \in InFlightPhases,
         NEW b \in CallRecords, b.req = calls[p].req, b.loaded = calls[p].loaded,
         b.issue = calls[p].issue, b.retires = calls[p].retires,
         \/ b.newId = calls[p].newId /\ b.newAt = calls[p].newAt
         \/ b.issue # None /\ b.newAt <= now /\ \A j \in DOMAIN challenges : j < b.newId,
         \/ b.guess = calls[p].guess
         \/ b.req.tool = "verify_otp" /\ b.guess.id # 0 /\ Compared(b),
         NEW row, NEW adds, NEW outcome, NEW verdict,
         Effect(b.req, b.loaded, row, verdict, b.guess.ok),
         b.issue # None => b.issue = row.customer /\ row.state = "identity_matched",
         calls' = [calls EXCEPT ![p] = ReadyCall(b, row, adds, outcome, verdict)],
         UNCHANGED <<sessions, challenges, artefacts, toolCalls, now>>
  PROVE  TInv'
<1> DEFINE c == ReadyCall(b, row, adds, outcome, verdict)
<1>1. /\ c.phase = "ready" /\ c.req = b.req /\ c.loaded = b.loaded /\ c.sess = row
      /\ c.newId = b.newId /\ c.newAt = b.newAt /\ c.issue = b.issue
      /\ c.retires = b.retires /\ c.guess = b.guess /\ c.verdict = verdict
      /\ c.reply = Reply(outcome, row.state)
  BY DEF ReadyCall, CallRecords
<1>2. Local(calls[p]) /\ (KeyTaken(calls[p].req) \/ Current(calls[p]))
  BY InTurn
<1>3. c.reply.state = c.sess.state
  BY <1>1 DEF Reply
<1>4. Local(c)
  BY <1>1, <1>2, <1>3 DEF Local
<1>5. KeyTaken(c.req) \/ Current(c)
  <2>1. ASSUME Current(calls[p]) PROVE Current(c)
    <3>1. c.loaded = sessions[c.req.session]
      BY <1>1, <2>1 DEF Current
    <3>2. c.issue # None => IsActive(c.req.session, c.retires)
      BY <1>1, <2>1 DEF Current
    <3>3. c.newId # 0 => \A j \in Own(c.req.session) : j < c.newId
      BY <1>1, <2>1 DEF Current, Own
    <3>4. Compared(c)
      BY <1>1, <2>1 DEF Current, Compared
    <3> QED
      BY <3>1, <3>2, <3>3, <3>4 DEF Current
  <2> QED
    BY <1>1, <1>2, <2>1
<1>6. calls' = [calls EXCEPT ![p] = c] /\ calls[p].req = c.req
  BY <1>1
<1> HIDE DEF c
<1> QED
  BY <1>1, <1>4, <1>5, <1>6, TCallStep DEF Turn

\* A handler stages what it will flush, and the passcode it retires, if any.
LEMMA TStagedStep ==
  ASSUME IInv, TInv, NEW p \in Handlers, calls[p].phase = "loaded",
         NEW c, c.phase = "staged", c.req = calls[p].req, c.loaded = calls[p].loaded,
         c.guess = calls[p].guess, c.newId = calls[p].newId,
         Staged(c.req, c.loaded, c.sess, c.issue),
         c.issue = None => c.retires = 0,
         c.issue # None =>
           /\ c.req.tool \in {"verify_identity", "resend_otp"}
           /\ c.issue = c.sess.customer /\ c.sess.state = "identity_matched"
           /\ IsActive(c.req.session, c.retires),
         calls' = [calls EXCEPT ![p] = c],
         UNCHANGED <<sessions, challenges, artefacts, toolCalls, now>>
  PROVE  TInv'
<1>1. /\ Local(calls[p]) /\ (KeyTaken(calls[p].req) \/ Current(calls[p]))
      /\ calls[p].newId = 0 /\ calls[p].guess.id = 0 /\ calls[p].guess.ok = FALSE
  BY InTurn DEF Local, NoGuess
<1>2. Local(c)
  BY <1>1 DEF Local
<1>3. KeyTaken(c.req) \/ Current(c)
  BY <1>1 DEF Current, Compared
<1> QED
  BY <1>2, <1>3, TCallStep DEF Turn

LEMMA KycOK ==
  ASSUME NEW claim \in Claims
  PROVE  /\ Kyc(claim) = "ok" => claim.pan \in Customers \ Sanctioned
         /\ Kyc(claim) \in Failures \cup {"ok"}
<1>1. claim.pan \in Customers \cup {None}
  BY ServiceAssumption
<1> QED
  BY <1>1 DEF Kyc, Failures

LEMMA TVerifyIdentityMatchedStep ==
  ASSUME IInv, TInv, NEW p \in Handlers, VerifyIdentityMatched(p)
  PROVE  TInv'
<1> DEFINE c == calls[p]
           cust == c.req.claim.pan
           row  == [c.sess EXCEPT !.customer = cust, !.state = "identity_matched"]
           stop == IssueLimit(row, cust, FALSE)
<1>0. Working(p, "verify_identity") /\ "verify_identity" \in Tools
  BY DEF VerifyIdentityMatched, Tools
<1>1. /\ c.phase = "loaded" /\ c.phase \in InFlightPhases
      /\ c.req.tool = "verify_identity" /\ c.sess = c.loaded /\ c.loaded \in SessionRows
      /\ c.issue = None /\ c.guess.ok = FALSE
      /\ c \in CallRecords /\ c.req \in Requests
  BY <1>0, TWorking DEF Working
<1>2. cust \in Customers \ Sanctioned /\ cust # None
  <2>1. c.req.claim \in Claims
    BY <1>1, InFlightCall DEF GoodCall
  <2> QED
    BY <2>1, KycOK, ServiceAssumption DEF VerifyIdentityMatched
<1>3. /\ row = [c.loaded EXCEPT !.customer = cust, !.state = "identity_matched"]
      /\ row.customer = cust /\ row.state = "identity_matched"
  BY <1>1 DEF SessionRows
<1>4. stop # "none" => stop \notin Failures
  BY DEF IssueLimit, Failures
<1>5. CASE ~CanMove(c.sess.state, row.state)
  BY <1>5, TAnswerStep DEF VerifyIdentityMatched, Proceed
<1>6. CASE CanMove(c.sess.state, row.state) /\ stop # "none"
  <2>1. /\ calls' = [calls EXCEPT ![p] = ReadyCall(c, row, {}, "blocked", stop)]
        /\ UNCHANGED <<sessions, challenges, artefacts, toolCalls, now>>
    BY <1>6 DEF VerifyIdentityMatched, Proceed
  <2>2. Effect(c.req, c.loaded, row, stop, c.guess.ok)
    BY <1>1, <1>2, <1>3, <1>4, <1>6 DEF Effect
  <2> HIDE DEF row, stop
  <2> QED
    BY <1>1, <2>1, <2>2, TReadyStep
<1>7. CASE CanMove(c.sess.state, row.state) /\ stop = "none"
  <2>1. PICK prev \in {0} \cup DOMAIN challenges :
          /\ IsActive(c.req.session, prev)
          /\ calls' = [calls EXCEPT ![p] = Issuing(p, row, cust, prev)]
          /\ UNCHANGED <<sessions, challenges, artefacts, toolCalls, now>>
    BY <1>7 DEF VerifyIdentityMatched, Proceed
  <2> DEFINE d == Issuing(p, row, cust, prev)
  <2>2. /\ d.phase = "staged" /\ d.req = c.req /\ d.loaded = c.loaded /\ d.sess = row
        /\ d.issue = cust /\ d.retires = prev /\ d.guess = c.guess /\ d.newId = c.newId
    BY <1>1 DEF Issuing, CallRecords
  <2>3. calls' = [calls EXCEPT ![p] = d]
    BY <2>1
  <2> HIDE DEF d, row
  <2>4. Staged(d.req, d.loaded, d.sess, d.issue)
    BY <1>1, <1>2, <1>3, <2>2 DEF Staged
  <2>5. /\ d.issue # None /\ d.req.tool = "verify_identity"
        /\ d.issue = d.sess.customer /\ d.sess.state = "identity_matched"
        /\ IsActive(d.req.session, d.retires)
    BY <1>1, <1>2, <1>3, <2>1, <2>2
  <2> QED
    BY <1>1, <2>1, <2>2, <2>3, <2>4, <2>5, TStagedStep
<1> QED
  BY <1>5, <1>6, <1>7

LEMMA TVerifyIdentityUnmatchedStep ==
  ASSUME IInv, TInv, NEW p \in Handlers,
         VerifyIdentityUnknown(p) \/ VerifyIdentityFailed(p)
  PROVE  TInv'
<1> DEFINE c == calls[p]
<1>0. Working(p, "verify_identity") /\ "verify_identity" \in Tools
  BY DEF VerifyIdentityUnknown, VerifyIdentityFailed, Tools
<1>1. /\ c.phase \in InFlightPhases
      /\ c.req.tool = "verify_identity" /\ c.sess = c.loaded
      /\ c.issue = None /\ c \in CallRecords
  BY <1>0, TWorking
<1>2. Kyc(c.req.claim) \in Failures \cup {"ok"}
  BY <1>1, KycOK, InFlightCall DEF GoodCall
<1>3. CASE VerifyIdentityUnknown(p)
  <2> DEFINE row == [c.sess EXCEPT !.state = "prospect"]
  <2>1. CASE ~CanMove(c.sess.state, row.state)
    BY <1>3, <2>1, TAnswerStep DEF VerifyIdentityUnknown, Proceed
  <2>2. CASE CanMove(c.sess.state, row.state)
    <3>1. /\ calls' = [calls EXCEPT ![p] =
                         ReadyCall(c, row, {}, "not_registered", "pan_not_found")]
          /\ UNCHANGED <<sessions, challenges, artefacts, toolCalls, now>>
      BY <1>3, <2>2 DEF VerifyIdentityUnknown, Proceed
    <3>2. Effect(c.req, c.loaded, row, "pan_not_found", c.guess.ok)
      BY <1>1 DEF Effect
    <3> HIDE DEF row
    <3> QED
      BY <1>1, <3>1, <3>2, TReadyStep
  <2> QED
    BY <2>1, <2>2
<1>4. CASE VerifyIdentityFailed(p)
  <2> DEFINE row == [c.sess EXCEPT !.identity_attempts = @ + 1]
             verdict == Kyc(c.req.claim)
  <2>1. PICK outcome :
          /\ calls' = [calls EXCEPT ![p] = ReadyCall(c, row, {}, outcome, verdict)]
          /\ UNCHANGED <<sessions, challenges, artefacts, toolCalls, now>>
    BY <1>4 DEF VerifyIdentityFailed, Stay
  <2>2. verdict \in Failures \ {"pan_not_found"}
    BY <1>2, <1>4 DEF VerifyIdentityFailed
  <2>3. Effect(c.req, c.loaded, row, verdict, c.guess.ok)
    BY <1>1, <2>2 DEF Effect
  <2> HIDE DEF row, verdict
  <2> QED
    BY <1>1, <2>1, <2>3, TReadyStep
<1> QED
  BY <1>3, <1>4

LEMMA TVerifyOtpUncheckedStep ==
  ASSUME IInv, TInv, NEW p \in Handlers, VerifyOtpUnchecked(p)
  PROVE  TInv'
<1> DEFINE c == calls[p]
<1>0. Working(p, "verify_otp") /\ "verify_otp" \in Tools
  BY DEF VerifyOtpUnchecked, Tools
<1>1. /\ c.phase \in InFlightPhases /\ c.req.tool = "verify_otp" /\ c.sess = c.loaded
      /\ c.issue = None /\ c.guess.ok = FALSE /\ c \in CallRecords
  BY <1>0, TWorking
<1>2. PICK outcome, verdict :
        /\ calls' = [calls EXCEPT ![p] = ReadyCall(c, c.sess, {}, outcome, verdict)]
        /\ UNCHANGED <<sessions, challenges, artefacts, toolCalls, now>>
  BY DEF VerifyOtpUnchecked, Stay
<1>3. Effect(c.req, c.loaded, c.sess, verdict, c.guess.ok)
  BY <1>1 DEF Effect
<1> QED
  BY <1>1, <1>2, <1>3, TReadyStep

LEMMA TVerifyOtpCheckedStep ==
  ASSUME IInv, TInv, NEW p \in Handlers, VerifyOtpChecked(p)
  PROVE  TInv'
<1> DEFINE c == calls[p]
<1>0. Working(p, "verify_otp") /\ "verify_otp" \in Tools
  BY DEF VerifyOtpChecked, Tools
<1>1. /\ c.phase \in InFlightPhases /\ c.req.tool = "verify_otp" /\ c.sess = c.loaded
      /\ c.issue = None /\ c.guess.ok = FALSE /\ c \in CallRecords
  BY <1>0, TWorking
<1>2. PICK i \in DOMAIN challenges :
        LET tries == challenges[i].attempts + 1
            hit   == c.req.code = i
            row   == [c.sess EXCEPT !.state = "identity_verified"]
            try   == [c EXCEPT !.guess = [id |-> i, attempts |-> tries, ok |-> hit]]
        IN /\ IsActive(c.req.session, i)
           /\ ~GuessesSpent(i)
           /\ IF hit
              THEN Proceed(p, row.state, ReadyCall(try, row, {}, "ok", "ok"))
              ELSE IF tries >= MaxVerifyAttempts
              THEN Stay(p, ReadyCall(try, c.sess, {}, "blocked", "attempts_exhausted"))
              ELSE Stay(p, ReadyCall(try, c.sess, {}, "retry", "wrong_code"))
  BY DEF VerifyOtpChecked
<1> DEFINE tries == challenges[i].attempts + 1
           hit   == c.req.code = i
           row   == [c.sess EXCEPT !.state = "identity_verified"]
           try   == [c EXCEPT !.guess = [id |-> i, attempts |-> tries, ok |-> hit]]
<1>3. /\ challenges[i].attempts \in Nat /\ i \in Nat /\ i # 0
      /\ challenges[i].attempts < MaxVerifyAttempts /\ MaxVerifyAttempts \in Nat
  <2>1. challenges[i].attempts \in Nat /\ i \in Nat /\ i # 0 /\ MaxVerifyAttempts \in Nat
    BY ServiceAssumption, SMTT(30) DEF IInv, TypeOK, ChallengeRows
  <2>2. ~(challenges[i].attempts >= MaxVerifyAttempts)
    BY <1>2 DEF GuessesSpent
  <2> QED
    BY <2>1, <2>2
<1>4. /\ try \in CallRecords /\ try.req = c.req /\ try.loaded = c.loaded
      /\ try.issue = c.issue /\ try.retires = c.retires
      /\ try.newId = c.newId /\ try.newAt = c.newAt
      /\ try.guess.id = i /\ try.guess.attempts = tries /\ try.guess.ok = hit
  <2>1. [id |-> i, attempts |-> tries, ok |-> hit] \in Guesses
    BY <1>3 DEF Guesses
  <2> HIDE DEF tries, hit
  <2> QED
    BY <1>1, <2>1 DEF CallRecords
<1>5. Compared(try)
  <2>1. i \in Unconsumed(c.req.session)
    BY <1>2, <1>3 DEF IsActive
  <2>2. tries <= MaxVerifyAttempts
    BY <1>3
  <2> HIDE DEF try
  <2> QED
    BY <1>4, <2>1, <2>2 DEF Compared
<1>6. UNCHANGED <<sessions, challenges, artefacts, toolCalls, now>>
  BY <1>2 DEF Proceed, Stay
<1> HIDE DEF try
<1>7. CASE hit /\ ~CanMove(c.sess.state, row.state)
  BY <1>2, <1>7, TAnswerStep DEF Proceed
<1>8. CASE hit /\ CanMove(c.sess.state, row.state)
  <2>1. calls' = [calls EXCEPT ![p] = ReadyCall(try, row, {}, "ok", "ok")]
    BY <1>2, <1>8 DEF Proceed, try
  <2>2. Effect(try.req, try.loaded, row, "ok", try.guess.ok)
    BY <1>1, <1>4, <1>8 DEF Effect
  <2> HIDE DEF row
  <2> QED
    BY <1>1, <1>3, <1>4, <1>5, <1>6, <2>1, <2>2, TReadyStep
<1>9. CASE ~hit
  <2>1. PICK outcome, verdict :
          calls' = [calls EXCEPT ![p] = ReadyCall(try, c.sess, {}, outcome, verdict)]
    BY <1>2, <1>9 DEF Stay, try
  <2>2. Effect(try.req, try.loaded, c.sess, verdict, try.guess.ok)
    BY <1>1, <1>4, <1>9 DEF Effect
  <2> QED
    BY <1>1, <1>3, <1>4, <1>5, <1>6, <2>1, <2>2, TReadyStep
<1> QED
  BY <1>7, <1>8, <1>9

LEMMA TResendOtpStep ==
  ASSUME IInv, TInv, NEW p \in Handlers, ResendOtp(p)
  PROVE  TInv'
<1> DEFINE c == calls[p]
           stop == IssueLimit(c.sess, c.sess.customer, TRUE)
<1>0. Working(p, "resend_otp") /\ "resend_otp" \in Tools
  BY DEF ResendOtp, Tools
<1>1. /\ c.phase = "loaded" /\ c.phase \in InFlightPhases /\ c.req.tool = "resend_otp"
      /\ c.sess = c.loaded /\ c.loaded \in SessionRows /\ c.issue = None
      /\ c.loaded.state = "identity_matched" /\ RowShape(c.loaded)
      /\ c \in CallRecords
  BY <1>0, TWorking DEF Working, ExpectedStates
<1>2. CASE stop # "none"
  <2>1. /\ calls' = [calls EXCEPT ![p] = ReadyCall(c, c.sess, {}, "blocked", stop)]
        /\ UNCHANGED <<sessions, challenges, artefacts, toolCalls, now>>
    BY <1>2 DEF ResendOtp, Stay
  <2>2. stop # "sent"
    BY DEF IssueLimit
  <2>3. Effect(c.req, c.loaded, c.sess, stop, c.guess.ok)
    BY <1>1, <2>2 DEF Effect
  <2> HIDE DEF stop
  <2> QED
    BY <1>1, <2>1, <2>3, TReadyStep
<1>3. CASE stop = "none"
  <2>1. PICK prev : /\ IsActive(c.req.session, prev)
                    /\ calls' = [calls EXCEPT ![p] = Issuing(p, c.sess, c.sess.customer, prev)]
                    /\ UNCHANGED <<sessions, challenges, artefacts, toolCalls, now>>
    BY <1>3 DEF ResendOtp, Stay
  <2> DEFINE d == Issuing(p, c.sess, c.sess.customer, prev)
  <2>2. /\ d.phase = "staged" /\ d.req = c.req /\ d.loaded = c.loaded /\ d.sess = c.sess
        /\ d.issue = c.sess.customer /\ d.retires = prev /\ d.guess = c.guess
        /\ d.newId = c.newId
    BY <1>1 DEF Issuing, CallRecords
  <2>3. calls' = [calls EXCEPT ![p] = d]
    BY <2>1
  <2> HIDE DEF d
  <2>4. c.loaded.otp_resends < MaxResends
    <3>1. ~(c.sess.otp_resends >= MaxResends)
      BY <1>3 DEF IssueLimit
    <3>2. c.sess.otp_resends \in Nat /\ MaxResends \in Nat
      BY <1>1, ServiceAssumption DEF SessionRows
    <3> QED
      BY <1>1, <3>1, <3>2
  <2>5. Staged(d.req, d.loaded, d.sess, d.issue)
    BY <1>1, <2>2, <2>4 DEF Staged
  <2>6. c.loaded.customer # None
    BY <1>1, ServiceAssumption DEF RowShape
  <2>7. /\ d.issue # None /\ d.req.tool = "resend_otp"
        /\ d.issue = d.sess.customer /\ d.sess.state = "identity_matched"
        /\ IsActive(d.req.session, d.retires)
    BY <1>1, <2>1, <2>2, <2>6
  <2> QED
    BY <1>1, <2>1, <2>2, <2>3, <2>5, <2>7, TStagedStep
<1> QED
  BY <1>2, <1>3

LEMMA TCaptureLeadStep ==
  ASSUME IInv, TInv, NEW p \in Handlers, CaptureLead(p)
  PROVE  TInv'
<1> DEFINE c == calls[p]
           row == [c.sess EXCEPT !.state = "lead_captured"]
           d == [c EXCEPT !.phase = "staged", !.sess = row, !.adds = {"lead", "link"}]
<1>0. Working(p, "capture_lead") /\ "capture_lead" \in Tools
  BY DEF CaptureLead, Tools
<1>1. /\ c.phase = "loaded" /\ c.req.tool = "capture_lead" /\ c.sess = c.loaded
      /\ c.issue = None /\ c.retires = 0 /\ c \in CallRecords
  BY <1>0, TWorking DEF Working
<1>2. CASE ~CanMove(c.sess.state, row.state)
  BY <1>2, TAnswerStep DEF CaptureLead, Proceed
<1>3. CASE CanMove(c.sess.state, row.state)
  <2>1. /\ calls' = [calls EXCEPT ![p] = d]
        /\ UNCHANGED <<sessions, challenges, artefacts, toolCalls, now>>
    BY <1>3 DEF CaptureLead, Proceed
  <2>2. /\ d.phase = "staged" /\ d.req = c.req /\ d.loaded = c.loaded /\ d.sess = row
        /\ d.issue = None /\ d.retires = 0 /\ d.guess = c.guess /\ d.newId = c.newId
    BY <1>1 DEF CallRecords
  <2> HIDE DEF d
  <2>3. Staged(d.req, d.loaded, d.sess, d.issue)
    BY <1>1, <2>2 DEF Staged
  <2> QED
    BY <1>1, <2>1, <2>2, <2>3, TStagedStep
<1> QED
  BY <1>2, <1>3

LEMMA TCheckEligibilityStep ==
  ASSUME IInv, TInv, NEW p \in Handlers, CheckEligibility(p)
  PROVE  TInv'
<1> DEFINE c == calls[p]
           row == [c.sess EXCEPT !.state = "eligibility_assessed"]
<1>0. Working(p, "check_eligibility") /\ "check_eligibility" \in Tools
  BY DEF CheckEligibility, Tools
<1>1. /\ c.phase \in InFlightPhases /\ c.req.tool = "check_eligibility"
      /\ c.sess = c.loaded /\ c.issue = None /\ c \in CallRecords
  BY <1>0, TWorking
<1>2. CASE ~CanMove(c.sess.state, row.state)
  BY <1>2, TAnswerStep DEF CheckEligibility, Proceed
<1>3. CASE CanMove(c.sess.state, row.state)
  <2>1. PICK outcome, verdict :
          /\ calls' = [calls EXCEPT ![p] = ReadyCall(c, row, {"assessment"}, outcome, verdict)]
          /\ UNCHANGED <<sessions, challenges, artefacts, toolCalls, now>>
    BY <1>3 DEF CheckEligibility, Proceed
  <2>2. Effect(c.req, c.loaded, row, verdict, c.guess.ok)
    BY <1>1 DEF Effect
  <2> HIDE DEF row
  <2> QED
    BY <1>1, <2>1, <2>2, TReadyStep
<1> QED
  BY <1>2, <1>3

LEMMA TRecordConsentStep ==
  ASSUME IInv, TInv, NEW p \in Handlers, RecordConsent(p)
  PROVE  TInv'
<1> DEFINE c == calls[p]
           row == [c.sess EXCEPT !.state = "completed"]
<1>0. Working(p, "record_consent") /\ "record_consent" \in Tools
  BY DEF RecordConsent, Tools
<1>1. /\ c.phase \in InFlightPhases /\ c.req.tool = "record_consent"
      /\ c.sess = c.loaded /\ c.issue = None /\ c \in CallRecords
  BY <1>0, TWorking
<1>2. CASE c.req.choice = "granted" /\ ~CanMove(c.sess.state, "consent_recorded")
  BY <1>2, TAnswerStep DEF RecordConsent, Proceed
<1>3. CASE c.req.choice = "granted" /\ CanMove(c.sess.state, "consent_recorded")
  <2>1. /\ calls' = [calls EXCEPT ![p] = ReadyCall(c, row, {"granted"}, "ok", "granted")]
        /\ UNCHANGED <<sessions, challenges, artefacts, toolCalls, now>>
    BY <1>3 DEF RecordConsent, Proceed
  <2>2. Effect(c.req, c.loaded, row, "granted", c.guess.ok)
    BY <1>1 DEF Effect
  <2> HIDE DEF row
  <2> QED
    BY <1>1, <2>1, <2>2, TReadyStep
<1>4. CASE c.req.choice # "granted"
  <2>1. /\ calls' = [calls EXCEPT ![p] =
                       ReadyCall(c, c.sess, {"refused"}, "declined", "refused")]
        /\ UNCHANGED <<sessions, challenges, artefacts, toolCalls, now>>
    BY <1>4 DEF RecordConsent, Stay
  <2>2. Effect(c.req, c.loaded, c.sess, "refused", c.guess.ok)
    BY <1>1 DEF Effect
  <2> QED
    BY <1>1, <2>1, <2>2, TReadyStep
<1> QED
  BY <1>2, <1>3, <1>4

LEMMA TEscalateStep ==
  ASSUME IInv, TInv, NEW p \in Handlers, Escalate(p)
  PROVE  TInv'
<1> DEFINE c == calls[p]
           row == [c.sess EXCEPT !.state = "escalated"]
<1>0. Working(p, "escalate") /\ "escalate" \in Tools
  BY DEF Escalate, Tools
<1>1. /\ c.phase \in InFlightPhases /\ c.req.tool = "escalate"
      /\ c.sess = c.loaded /\ c.issue = None /\ c \in CallRecords
  BY <1>0, TWorking
<1>2. CASE ~CanMove(c.sess.state, row.state)
  BY <1>2, TAnswerStep DEF Escalate, Proceed
<1>3. CASE CanMove(c.sess.state, row.state)
  <2>1. /\ calls' = [calls EXCEPT ![p] = ReadyCall(c, row, {"ticket"}, "ok", "none")]
        /\ UNCHANGED <<sessions, challenges, artefacts, toolCalls, now>>
    BY <1>3 DEF Escalate, Proceed
  <2>2. Effect(c.req, c.loaded, row, "none", c.guess.ok)
    BY <1>1 DEF Effect
  <2> HIDE DEF row
  <2> QED
    BY <1>1, <2>1, <2>2, TReadyStep
<1> QED
  BY <1>2, <1>3

LEMMA TWorkStep ==
  ASSUME IInv, TInv, NEW p \in Handlers, Work(p)
  PROVE  TInv'
BY TVerifyIdentityMatchedStep, TVerifyIdentityUnmatchedStep, TVerifyOtpUncheckedStep,
   TVerifyOtpCheckedStep, TResendOtpStep, TCaptureLeadStep, TCheckEligibilityStep,
   TRecordConsentStep, TEscalateStep DEF Work
-----------------------------------------------------------------------------
(* Messages *)

\* A session that asks for another passcode has a customer.
LEMMA ResendKnown ==
  ASSUME NEW c, Local(c), c.req.tool = "resend_otp", c.loaded.state \in States
  PROVE  c.loaded.customer # None
<1>1. c.loaded.state = "identity_matched"
  BY DEF Local, StateRefusal, ExpectedStates, Tools
<1> QED
  BY <1>1, ServiceAssumption DEF Local, RowShape

\* The flush of a new passcode: its id is greater than every id in use.
LEMMA TFlushChallengeStep ==
  ASSUME IInv, LInv, TInv, NEW p \in Handlers, FlushChallenge(p)
  PROVE  TInv'
<1> DEFINE c == calls[p]
           f == Numbered(c, lastId + 1, now)
           d == [f EXCEPT !.phase = "sending"]
<1>1. /\ c.phase = "staged" /\ c.phase \in InFlightPhases /\ c.issue # None
      /\ calls' = [calls EXCEPT ![p] =
           IF c.issue \in Addressed THEN d
           ELSE ReadyCall(f, c.sess, {}, "error", "delivery_failed")]
      /\ UNCHANGED <<sessions, challenges, artefacts, toolCalls, now>>
  BY DEF FlushChallenge, Numbered
<1>2. c \in CallRecords /\ Local(c) /\ (KeyTaken(c.req) \/ Current(c))
  BY <1>1, InTurn
<1>3. lastId \in Nat /\ now \in Nat /\ DOMAIN challenges \subseteq 1..lastId
  BY DEF IInv, TypeOK
<1>4. /\ f \in CallRecords /\ f.req = c.req /\ f.loaded = c.loaded /\ f.sess = c.sess
      /\ f.issue = c.issue /\ f.retires = c.retires /\ f.guess = c.guess
      /\ f.newId = lastId + 1 /\ f.newAt = now
  <2>1. PICK m \in Nat, n \in Nat : m = lastId + 1 /\ n = now
    BY <1>3
  <2>2. f = Numbered(c, m, n)
    BY <2>1
  <2> HIDE DEF f
  <2>3. /\ f \in CallRecords /\ f.req = c.req /\ f.loaded = c.loaded /\ f.sess = c.sess
        /\ f.issue = c.issue /\ f.guess = c.guess /\ f.newId = m
    BY <1>2, <2>2, NumberedCallOK
  <2>4. f.retires = c.retires /\ f.newAt = n
    BY <1>2, <2>2 DEF Numbered, CallRecords
  <2> QED
    BY <2>1, <2>3, <2>4
<1> HIDE DEF f
<1>5. \A j \in DOMAIN challenges : j < lastId + 1
  BY <1>3
<1>6. Staged(c.req, c.loaded, c.sess, c.issue) /\ c.req.tool # "capture_lead"
  BY <1>1, <1>2 DEF Local
<1>7. CASE c.issue \in Addressed
  <2>1. /\ d.phase = "sending" /\ d.req = c.req /\ d.loaded = c.loaded /\ d.sess = c.sess
        /\ d.issue = c.issue /\ d.retires = c.retires /\ d.guess = c.guess
        /\ d.newId = lastId + 1 /\ d.newAt = now
    BY <1>4 DEF CallRecords
  <2>2. calls' = [calls EXCEPT ![p] = d]
    BY <1>1, <1>7
  <2> HIDE DEF d
  <2>3. Local(d)
    BY <1>1, <1>2, <1>3, <1>6, <2>1 DEF Local
  <2>4. KeyTaken(d.req) \/ Current(d)
    BY <1>2, <1>5, <2>1 DEF Current, Compared, Own
  <2>5. Turn(d) /\ calls[p].req = d.req
    BY <2>1, <2>3, <2>4 DEF Turn
  <2> QED
    BY <1>1, <2>2, <2>5, TCallStep
<1>8. CASE c.issue \notin Addressed
  <2>1. calls' = [calls EXCEPT ![p] = ReadyCall(f, c.sess, {}, "error", "delivery_failed")]
    BY <1>1, <1>8
  <2>2. Effect(f.req, f.loaded, c.sess, "delivery_failed", f.guess.ok)
    BY <1>4, <1>6 DEF Staged, Effect, Failures
  <2>3. f.issue # None => f.issue = c.sess.customer /\ c.sess.state = "identity_matched"
    BY <1>2, <1>4 DEF Local
  <2>4. f.issue # None /\ f.newAt <= now /\ \A j \in DOMAIN challenges : j < f.newId
    BY <1>1, <1>3, <1>4, <1>5
  <2>5. /\ c.phase \in InFlightPhases
        /\ UNCHANGED <<sessions, challenges, artefacts, toolCalls, now>>
    BY <1>1
  <2>6. PICK b \in CallRecords : b = f
    BY <1>4
  <2>7. /\ b.req = c.req /\ b.loaded = c.loaded
        /\ b.issue = c.issue /\ b.retires = c.retires /\ b.guess = c.guess
        /\ b.issue # None /\ b.newAt <= now /\ (\A j \in DOMAIN challenges : j < b.newId)
        /\ Effect(b.req, b.loaded, c.sess, "delivery_failed", b.guess.ok)
        /\ b.issue # None => b.issue = c.sess.customer /\ c.sess.state = "identity_matched"
        /\ calls' = [calls EXCEPT ![p] = ReadyCall(b, c.sess, {}, "error", "delivery_failed")]
    BY <1>4, <2>1, <2>2, <2>3, <2>4, <2>6
  <2> QED
    BY <2>5, <2>7, TReadyStep
<1> QED
  BY <1>7, <1>8

LEMMA TFlushLinkStep ==
  ASSUME IInv, TInv, NEW p \in Handlers, FlushLink(p)
  PROVE  TInv'
<1> DEFINE c == calls[p]
           d == [c EXCEPT !.phase = "sending", !.written = WritesSession(c)]
<1>1. /\ c.phase = "staged" /\ c.phase \in InFlightPhases
      /\ calls' = [calls EXCEPT ![p] = d]
      /\ UNCHANGED <<sessions, challenges, artefacts, toolCalls, now>>
  BY DEF FlushLink, Stay
<1>2. c \in CallRecords /\ Local(c) /\ (KeyTaken(c.req) \/ Current(c))
  BY <1>1, InTurn
<1>3. /\ d.phase = "sending" /\ d.req = c.req /\ d.loaded = c.loaded /\ d.sess = c.sess
      /\ d.issue = c.issue /\ d.retires = c.retires /\ d.guess = c.guess
      /\ d.newId = c.newId /\ d.newAt = c.newAt
  BY <1>2 DEF CallRecords
<1> HIDE DEF d
<1>4. Local(d) /\ (KeyTaken(d.req) \/ Current(d))
  BY <1>1, <1>2, <1>3 DEF Local, Current, Compared
<1>5. Turn(d) /\ calls[p].req = d.req
  BY <1>3, <1>4 DEF Turn
<1> QED
  BY <1>1, <1>5, TCallStep

LEMMA TMessageSentStep ==
  ASSUME IInv, TInv, NEW p \in Handlers,
         PasscodeDelivered(p) \/ PasscodeUndelivered(p) \/ LinkEmailed(p)
  PROVE  TInv'
<1> DEFINE c == calls[p]
<1>1. /\ c.phase = "sending" /\ c.phase \in InFlightPhases
      /\ UNCHANGED <<sessions, challenges, artefacts, toolCalls, now>>
  BY DEF PasscodeDelivered, PasscodeUndelivered, LinkEmailed, Stay
<1>2. /\ c \in CallRecords /\ Local(c) /\ c.sess \in SessionRows /\ c.loaded \in SessionRows
      /\ Staged(c.req, c.loaded, c.sess, c.issue)
      /\ c.issue # None => /\ c.req.tool \in {"verify_identity", "resend_otp"}
                           /\ c.issue = c.sess.customer /\ c.sess.state = "identity_matched"
  BY <1>1, InTurn DEF Local
<1>3. CASE PasscodeDelivered(p)
  <2> DEFINE row == IF c.req.tool = "resend_otp"
                    THEN [c.sess EXCEPT !.otp_resends = @ + 1] ELSE c.sess
  <2>1. c.issue # None /\ calls' = [calls EXCEPT ![p] = ReadyCall(c, row, {}, "otp_sent", "sent")]
    BY <1>3 DEF PasscodeDelivered, Stay
  <2>2. row.customer = c.sess.customer /\ row.state = c.sess.state
    BY <1>2 DEF SessionRows
  <2>3. Effect(c.req, c.loaded, row, "sent", c.guess.ok)
    BY <1>2, <2>1 DEF Effect, Staged, Failures
  <2> HIDE DEF row
  <2> QED
    BY <1>1, <1>2, <2>1, <2>2, <2>3, TReadyStep
<1>4. CASE PasscodeUndelivered(p)
  <2>1. c.issue # None /\ calls' = [calls EXCEPT ![p] =
                                     ReadyCall(c, c.sess, {}, "error", "delivery_failed")]
    BY <1>4 DEF PasscodeUndelivered, Stay
  <2>2. Effect(c.req, c.loaded, c.sess, "delivery_failed", c.guess.ok)
    BY <1>2, <2>1 DEF Effect, Staged, Failures
  <2> QED
    BY <1>1, <1>2, <2>1, <2>2, TReadyStep
<1>5. CASE LinkEmailed(p)
  <2>1. PICK verdict \in {"sent", "delivery_failed"} :
          c.issue = None /\ calls' = [calls EXCEPT ![p] =
                                       ReadyCall(c, c.sess, c.adds, "ok", verdict)]
    BY <1>5 DEF LinkEmailed, Stay
  <2>2. Effect(c.req, c.loaded, c.sess, verdict, c.guess.ok)
    <3>1. c.req.tool # "verify_identity" /\ c.req.tool # "resend_otp"
      <4>1. CASE c.req.tool = "verify_identity"
        BY <1>2, <2>1, <4>1, ServiceAssumption DEF Staged
      <4>2. CASE c.req.tool = "resend_otp"
        BY <1>2, <2>1, <4>2, ResendKnown DEF Staged, SessionRows
      <4> QED
        BY <4>1, <4>2
    <3> QED
      BY <1>2, <2>1, <3>1 DEF Effect, Staged
  <2> QED
    BY <1>1, <1>2, <2>1, <2>2, TReadyStep
<1> QED
  BY <1>3, <1>4, <1>5

LEMMA TWriteSessionStep ==
  ASSUME IInv, TInv, NEW p \in Handlers, WriteSession(p)
  PROVE  TInv'
<1>1. PICK c, d : c = calls[p] /\ d = Written(c) /\ calls' = [calls EXCEPT ![p] = d]
  BY DEF WriteSession, Stay
<1>2. /\ c.phase \in InFlightPhases
      /\ UNCHANGED <<sessions, challenges, artefacts, toolCalls, now>>
  BY <1>1 DEF WriteSession, Stay
<1>3. c \in CallRecords /\ Local(c) /\ (KeyTaken(c.req) \/ Current(c))
  BY <1>1, <1>2, InTurn
<1>4. /\ d.phase = c.phase /\ d.req = c.req /\ d.loaded = c.loaded /\ d.sess = c.sess
      /\ d.issue = c.issue /\ d.retires = c.retires /\ d.guess = c.guess
      /\ d.newId = c.newId /\ d.newAt = c.newAt /\ d.verdict = c.verdict
      /\ d.reply = c.reply
  BY <1>1, <1>3, WrittenOK
<1>5. Local(d)
  BY <1>3, <1>4 DEF Local
<1>6. KeyTaken(d.req) \/ Current(d)
  BY <1>3, <1>4 DEF Current, Compared
<1> QED
  BY <1>1, <1>2, <1>4, <1>5, <1>6, TCallStep DEF Turn

LEMMA TSendStep ==
  ASSUME IInv, LInv, TInv, NEW p \in Handlers, Send(p)
  PROVE  TInv'
BY TWriteSessionStep, TFlushChallengeStep, TFlushLinkStep, TMessageSentStep DEF Send
-----------------------------------------------------------------------------
(* The commit *)

Entry(c) == [tool |-> c.req.tool, key |-> c.req.key,
             verdict |-> c.verdict, reply |-> c.reply]

\* What the commit of request c finds, and what it writes.
Commits(c) ==
  LET s == c.req.session
  IN /\ c \in CallRecords /\ c.phase = "ready" /\ s \in Sessions
     /\ c.loaded \in SessionRows /\ c.sess \in SessionRows
     /\ Local(c) /\ Current(c) /\ Matches(c.adds, c.req.tool, c.verdict)
     /\ Entry(c) \in AuditRows
     /\ \A t \in Sessions : sessions'[t] = IF t = s THEN c.sess ELSE sessions[t]
     /\ \A t \in Sessions :
          toolCalls'[t] = IF t = s THEN Append(toolCalls[s], Entry(c)) ELSE toolCalls[t]
     /\ \A t \in Sessions : \A k \in Artefacts :
          artefacts'[t][k] = IF t = s /\ k \in c.adds THEN artefacts[t][k] + 1
                             ELSE artefacts[t][k]
     /\ DOMAIN challenges' = DOMAIN challenges \cup ({c.newId} \ {0})
     /\ \A i \in DOMAIN challenges : challenges'[i] = UpdatedChallenge(challenges[i], i, c)
     /\ c.newId # 0 => /\ c.newId \notin DOMAIN challenges /\ c.issue # None
                       /\ challenges'[c.newId] = NewChallenge(c)
     /\ now' = now

\* No key is taken, so the rows it loaded are still the rows stored: the columns
\* it writes and those it leaves alone give the session as the handler had it.
LEMMA CommitsCurrent ==
  ASSUME IInv, LInv, TInv, NEW p \in Handlers, RecordCall(p)
  PROVE  Commits(calls[p])
<1> DEFINE c == calls[p]
           s == c.req.session
           added == {c.newId} \ {0}
           row == UpdatedRow(sessions[s], c.loaded, c.sess)
<1>1. /\ c.phase = "ready" /\ c.phase \in InFlightPhases /\ ~KeyTaken(c.req)
      /\ sessions' = [sessions EXCEPT ![s] = row]
      /\ challenges' = [i \in DOMAIN challenges \cup added |->
                          IF i \in added THEN NewChallenge(c)
                          ELSE UpdatedChallenge(challenges[i], i, c)]
      /\ artefacts' = [artefacts EXCEPT ![s] =
                         [k \in Artefacts |-> IF k \in c.adds THEN artefacts[s][k] + 1
                                              ELSE artefacts[s][k]]]
      /\ toolCalls' = [toolCalls EXCEPT ![s] = Append(toolCalls[s], Entry(c))]
      /\ now' = now
  BY DEF RecordCall, Entry
<1>2. /\ c \in CallRecords /\ c.req \in Requests /\ s \in Sessions
      /\ c.loaded \in SessionRows /\ c.sess \in SessionRows
      /\ Local(c) /\ Current(c) /\ GoodCall(c) /\ Books(c)
  BY <1>1, InTurn, InFlightCall DEF LInv
<1>3. row = c.sess
  <2>1. sessions[s] = c.loaded
    BY <1>2 DEF Current
  <2>2. row = [state |-> c.sess.state, customer |-> c.sess.customer,
               identity_attempts |-> c.sess.identity_attempts,
               otp_resends |-> c.sess.otp_resends]
    BY <2>1 DEF UpdatedRow, Column
  <2> HIDE DEF row
  <2> QED
    BY <1>2, <2>2 DEF SessionRows
<1> HIDE DEF row
<1>4. \A t \in Sessions : sessions'[t] = IF t = s THEN c.sess ELSE sessions[t]
  BY <1>1, <1>2, <1>3 DEF IInv, TypeOK
<1>5. /\ \A t \in Sessions :
           toolCalls'[t] = IF t = s THEN Append(toolCalls[s], Entry(c)) ELSE toolCalls[t]
      /\ \A t \in Sessions : \A k \in Artefacts :
           artefacts'[t][k] = IF t = s /\ k \in c.adds THEN artefacts[t][k] + 1
                              ELSE artefacts[t][k]
  BY <1>1, <1>2 DEF IInv, TypeOK
<1>6. c.newId # 0 => c.newId \notin DOMAIN challenges /\ c.issue # None
  BY <1>1, <1>2 DEF GoodCall
<1>7. /\ DOMAIN challenges' = DOMAIN challenges \cup added
      /\ \A i \in DOMAIN challenges : challenges'[i] = UpdatedChallenge(challenges[i], i, c)
      /\ c.newId # 0 => challenges'[c.newId] = NewChallenge(c)
  BY <1>1, <1>6
<1>8. Entry(c) \in AuditRows /\ Matches(c.adds, c.req.tool, c.verdict)
  BY <1>1, <1>2 DEF Entry, GoodCall, AuditRows, CallRecords, Requests, Books
<1> QED
  BY <1>1, <1>2, <1>4, <1>5, <1>6, <1>7, <1>8 DEF Commits

\* What a request may make of the session, whatever its tool: the row keeps its
\* shape, and the artefacts it adds fit the state it ends in.
LEMMA EffectOK ==
  ASSUME NEW c, c.phase = "ready", Local(c), Matches(c.adds, c.req.tool, c.verdict),
         c.loaded \in SessionRows, c.sess \in SessionRows
  PROVE  /\ RowShape(c.sess) /\ c.loaded.state \notin TerminalStates
         /\ c.sess.state \in Anonymous =>
              c.loaded.state \in Anonymous /\ "refused" \notin c.adds
         /\ c.sess.state \in Undecided =>
              c.loaded.state \in Undecided /\ "assessment" \notin c.adds
         /\ c.sess.customer = c.loaded.customer \/ c.loaded.state = "started"
         /\ "granted" \in c.adds <=> c.sess.state = "completed"
         /\ "lead" \in c.adds <=> c.sess.state = "lead_captured"
         /\ "ticket" \in c.adds <=> c.sess.state = "escalated"
         /\ "assessment" \in c.adds => c.loaded.state = "identity_verified"
<1>1. /\ c.loaded.state \in States /\ c.sess.state \in States
      /\ c.loaded.identity_attempts \in Nat /\ c.loaded.otp_resends \in Nat
      /\ MaxResends \in Nat /\ MaxIdentityAttempts \in Nat
  BY ServiceAssumption DEF SessionRows
<1>2. /\ RowShape(c.loaded) /\ StateRefusal(c.loaded.state, c.req.tool) = "none"
      /\ c.req.tool = "verify_identity" => c.loaded.identity_attempts < MaxIdentityAttempts
      /\ Effect(c.req, c.loaded, c.sess, c.verdict, c.guess.ok)
  BY DEF Local
<1>3. c.loaded.state \notin TerminalStates /\ c.loaded.state \in ExpectedStates[c.req.tool]
  BY <1>2 DEF StateRefusal
<1>4. CASE c.req.tool = "verify_identity" /\ c.verdict \in Failures \ {"pan_not_found"}
  <2>1. c.loaded.state = "started"
    BY <1>3, <1>4 DEF ExpectedStates, Tools
  <2>2. c.sess = [c.loaded EXCEPT !.identity_attempts = @ + 1]
    BY <1>2, <1>4 DEF Effect
  <2>3. /\ c.sess.state = "started" /\ c.sess.customer = c.loaded.customer
        /\ c.sess.identity_attempts = c.loaded.identity_attempts + 1
        /\ c.sess.otp_resends = c.loaded.otp_resends
    BY <2>1, <2>2 DEF SessionRows
  <2>4. RowShape(c.sess)
    BY <1>1, <1>2, <1>4, <2>1, <2>3 DEF RowShape
  <2> QED
    BY <1>3, <1>4, <2>1, <2>3, <2>4 DEF Matches
<1>5. CASE c.req.tool = "verify_identity" /\ c.verdict = "pan_not_found"
  <2>1. c.loaded.state = "started"
    BY <1>3, <1>5 DEF ExpectedStates, Tools
  <2>2. c.sess = [c.loaded EXCEPT !.state = "prospect"]
    BY <1>2, <1>5 DEF Effect, Failures
  <2>3. /\ c.sess.state = "prospect" /\ c.sess.customer = c.loaded.customer
        /\ c.sess.identity_attempts = c.loaded.identity_attempts
        /\ c.sess.otp_resends = c.loaded.otp_resends
    BY <2>2 DEF SessionRows
  <2>4. RowShape(c.sess)
    BY <1>2, <2>1, <2>3 DEF RowShape
  <2> QED
    BY <1>3, <1>5, <2>1, <2>3, <2>4 DEF Matches
<1>6. CASE c.req.tool = "verify_identity" /\ c.verdict \notin Failures
  <2>1. c.loaded.state = "started"
    BY <1>3, <1>6 DEF ExpectedStates, Tools
  <2>2. /\ c.req.claim.pan \in Customers \ Sanctioned
        /\ c.sess = [c.loaded EXCEPT !.customer = c.req.claim.pan,
                                     !.state = "identity_matched"]
    BY <1>2, <1>6 DEF Effect, Failures
  <2>3. /\ c.sess.state = "identity_matched" /\ c.sess.customer = c.req.claim.pan
        /\ c.sess.identity_attempts = c.loaded.identity_attempts
        /\ c.sess.otp_resends = c.loaded.otp_resends
    BY <2>2 DEF SessionRows
  <2>4. RowShape(c.sess)
    BY <1>2, <2>2, <2>3 DEF RowShape
  <2> QED
    BY <1>3, <1>6, <2>1, <2>3, <2>4 DEF Matches
<1>7. CASE c.req.tool \in {"verify_otp", "resend_otp"}
  <2>1. c.loaded.state = "identity_matched"
    BY <1>3, <1>7 DEF ExpectedStates, Tools
  <2>2. \/ c.sess = c.loaded
        \/ c.sess = [c.loaded EXCEPT !.state = "identity_verified"]
        \/ /\ c.loaded.otp_resends < MaxResends
           /\ c.sess = [c.loaded EXCEPT !.otp_resends = @ + 1]
    BY <1>2, <1>7 DEF Effect
  <2>3. /\ c.sess.state \in {"identity_matched", "identity_verified"}
        /\ c.sess.customer = c.loaded.customer
        /\ c.sess.identity_attempts = c.loaded.identity_attempts
        /\ c.sess.otp_resends <= MaxResends
    BY <1>1, <1>2, <2>1, <2>2 DEF SessionRows, RowShape
  <2>4. RowShape(c.sess)
    BY <1>2, <2>1, <2>3 DEF RowShape
  <2> QED
    BY <1>3, <1>7, <2>1, <2>3, <2>4 DEF Matches
<1>8. CASE c.req.tool = "capture_lead"
  <2>1. c.loaded.state = "prospect"
    BY <1>3, <1>8 DEF ExpectedStates, Tools
  <2>2. c.sess = [c.loaded EXCEPT !.state = "lead_captured"]
    BY <1>2, <1>8 DEF Effect
  <2>3. /\ c.sess.state = "lead_captured" /\ c.sess.customer = c.loaded.customer
        /\ c.sess.identity_attempts = c.loaded.identity_attempts
        /\ c.sess.otp_resends = c.loaded.otp_resends
    BY <2>2 DEF SessionRows
  <2>4. RowShape(c.sess)
    BY <1>2, <2>1, <2>3 DEF RowShape
  <2> QED
    BY <1>3, <1>8, <2>1, <2>3, <2>4 DEF Matches
<1>9. CASE c.req.tool = "check_eligibility"
  <2>1. c.loaded.state = "identity_verified"
    BY <1>3, <1>9 DEF ExpectedStates, Tools
  <2>2. c.sess = [c.loaded EXCEPT !.state = "eligibility_assessed"]
    BY <1>2, <1>9 DEF Effect
  <2>3. /\ c.sess.state = "eligibility_assessed" /\ c.sess.customer = c.loaded.customer
        /\ c.sess.identity_attempts = c.loaded.identity_attempts
        /\ c.sess.otp_resends = c.loaded.otp_resends
    BY <2>2 DEF SessionRows
  <2>4. RowShape(c.sess)
    BY <1>2, <2>1, <2>3 DEF RowShape
  <2> QED
    BY <1>3, <1>9, <2>1, <2>3, <2>4 DEF Matches
<1>10. CASE c.req.tool = "record_consent"
  <2>1. c.loaded.state = "eligibility_assessed"
    BY <1>3, <1>10 DEF ExpectedStates, Tools
  <2>2. \/ c.verdict = "granted" /\ c.sess = [c.loaded EXCEPT !.state = "completed"]
        \/ c.verdict = "refused" /\ c.sess = c.loaded
    BY <1>2, <1>10 DEF Effect
  <2>3. /\ c.sess.state = IF c.verdict = "granted" THEN "completed" ELSE "eligibility_assessed"
        /\ c.sess.customer = c.loaded.customer
        /\ c.sess.identity_attempts = c.loaded.identity_attempts
        /\ c.sess.otp_resends = c.loaded.otp_resends
    BY <2>1, <2>2 DEF SessionRows
  <2>4. RowShape(c.sess)
    BY <1>2, <2>1, <2>3 DEF RowShape
  <2> QED
    BY <1>3, <1>10, <2>1, <2>3, <2>4 DEF Matches
<1>11. CASE c.req.tool = "escalate"
  <2>1. c.sess = [c.loaded EXCEPT !.state = "escalated"]
    BY <1>2, <1>11 DEF Effect
  <2>2. /\ c.sess.state = "escalated" /\ c.sess.customer = c.loaded.customer
        /\ c.sess.identity_attempts = c.loaded.identity_attempts
        /\ c.sess.otp_resends = c.loaded.otp_resends
    BY <2>1 DEF SessionRows
  <2>3. RowShape(c.sess)
    BY <1>2, <2>2 DEF RowShape
  <2> QED
    BY <1>3, <1>11, <2>2, <2>3 DEF Matches
<1> QED
  BY <1>2, <1>4, <1>5, <1>6, <1>7, <1>8, <1>9, <1>10, <1>11 DEF Effect

\* A commit touches the passcode it compared and the one it retires, both of its
\* own session, and adds the one it sent.
LEMMA TouchesOwn ==
  ASSUME IInv, TInv, NEW c, Commits(c)
  PROVE  /\ \A i \in DOMAIN challenges :
              /\ challenges'[i].session = challenges[i].session
              /\ challenges'[i].customer = challenges[i].customer
              /\ challenges[i].session # c.req.session => challenges'[i] = challenges[i]
         /\ \A t \in Sessions \ {c.req.session} : Own(t)' = Own(t)
         /\ Own(c.req.session)' = Own(c.req.session) \cup ({c.newId} \ {0})
         /\ c.newId # 0 =>
              /\ c.newId \notin DOMAIN challenges /\ challenges'[c.newId] = NewChallenge(c)
              /\ c.issue = c.sess.customer /\ c.sess.state = "identity_matched"
              /\ \A j \in Own(c.req.session) : j < c.newId
              /\ IsActive(c.req.session, c.retires)
<1> DEFINE s == c.req.session
<1>1. /\ Local(c) /\ Current(c) /\ s \in Sessions /\ c \in CallRecords
      /\ DOMAIN challenges' = DOMAIN challenges \cup ({c.newId} \ {0})
      /\ \A i \in DOMAIN challenges : challenges'[i] = UpdatedChallenge(challenges[i], i, c)
      /\ c.newId # 0 => /\ c.newId \notin DOMAIN challenges /\ c.issue # None
                        /\ challenges'[c.newId] = NewChallenge(c)
  BY DEF Commits
<1>2. \A i \in DOMAIN challenges : challenges[i] \in ChallengeRows /\ i # 0
  BY DEF IInv, TypeOK
<1>3. /\ c.guess.id # 0 => challenges[c.guess.id].session = s
      /\ c.retires # 0 => challenges[c.retires].session = s
  <2>1. c.guess.id # 0 => c.guess.id \in Unconsumed(s)
    BY <1>1 DEF Current, Compared
  <2>2. c.retires # 0 => c.retires \in Unconsumed(s)
    BY <1>1 DEF Local, Current, IsActive
  <2> QED
    BY <2>1, <2>2 DEF Unconsumed
<1>4. ASSUME NEW i \in DOMAIN challenges
      PROVE  /\ challenges'[i].session = challenges[i].session
             /\ challenges'[i].customer = challenges[i].customer
             /\ challenges[i].session # s => challenges'[i] = challenges[i]
  <2>1. challenges[i] \in ChallengeRows /\ challenges'[i] = UpdatedChallenge(challenges[i], i, c)
    BY <1>1, <1>2
  <2>2. /\ challenges'[i].session = challenges[i].session
        /\ challenges'[i].customer = challenges[i].customer
    BY <2>1 DEF UpdatedChallenge, ChallengeRows
  <2>3. ASSUME challenges[i].session # s PROVE challenges'[i] = challenges[i]
    <3>1. i # c.guess.id /\ i # c.retires
      BY <1>2, <1>3, <2>3
    <3>2. challenges[i].consumed \in BOOLEAN /\ challenges[i].proved \in BOOLEAN
      BY <2>1 DEF ChallengeRows
    <3>3. UpdatedChallenge(challenges[i], i, c) = challenges[i]
      BY <2>1, <3>1, <3>2 DEF UpdatedChallenge, ChallengeRows
    <3> QED
      BY <2>1, <3>3
  <2> QED
    BY <2>2, <2>3
<1>5. c.newId # 0 => NewChallenge(c).session = s
  BY DEF NewChallenge
<1>6. \A t \in Sessions \ {s} : Own(t)' = Own(t)
  BY <1>1, <1>4, <1>5 DEF Own
<1>7. Own(s)' = Own(s) \cup ({c.newId} \ {0})
  BY <1>1, <1>4, <1>5 DEF Own
<1>8. c.newId # 0 => /\ c.issue = c.sess.customer /\ c.sess.state = "identity_matched"
                     /\ \A j \in Own(s) : j < c.newId
                     /\ IsActive(s, c.retires)
  BY <1>1 DEF Local, Current
<1> QED
  BY <1>1, <1>4, <1>6, <1>7, <1>8

LEMMA CommitGoodSession ==
  ASSUME IInv, TInv, NEW c, Commits(c), NEW t \in Sessions
  PROVE  GoodSession(t)'
<1> DEFINE s == c.req.session
<1>1. /\ s \in Sessions /\ c.loaded \in SessionRows /\ c.sess \in SessionRows
      /\ Local(c) /\ c.loaded = sessions[s] /\ c.phase = "ready"
      /\ Matches(c.adds, c.req.tool, c.verdict)
      /\ sessions'[t] = IF t = s THEN c.sess ELSE sessions[t]
      /\ t # s => toolCalls'[t] = toolCalls[t]
      /\ \A k \in {"refused", "assessment"} :
           artefacts'[t][k] = IF t = s /\ k \in c.adds THEN artefacts[t][k] + 1
                              ELSE artefacts[t][k]
  BY DEF Commits, Current, Artefacts
<1>2. c.loaded # None /\ c.sess # None
  BY <1>1, ServiceAssumption
<1>3. GoodSession(t)
  BY DEF TInv
<1>4. CASE t # s
  <2>1. /\ Own(t)' = Own(t) /\ sessions'[t] = sessions[t] /\ toolCalls'[t] = toolCalls[t]
        /\ artefacts'[t]["refused"] = artefacts[t]["refused"]
        /\ artefacts'[t]["assessment"] = artefacts[t]["assessment"]
    BY <1>1, <1>4, TouchesOwn
  <2>2. \A i \in Own(t) : challenges'[i].customer = challenges[i].customer
    BY TouchesOwn DEF Own
  <2> QED
    BY <1>3, <2>1, <2>2 DEF GoodSession, RowShape
<1>5. CASE t = s
  <2>1. /\ RowShape(c.sess)
        /\ c.sess.state \in Anonymous => c.loaded.state \in Anonymous /\ "refused" \notin c.adds
        /\ c.sess.state \in Undecided =>
             c.loaded.state \in Undecided /\ "assessment" \notin c.adds
        /\ c.sess.customer = c.loaded.customer \/ c.loaded.state = "started"
    BY <1>1, EffectOK
  <2>2. /\ c.loaded.state \in Anonymous => Own(s) = {} /\ artefacts[s]["refused"] = 0
        /\ c.loaded.state \in Undecided => artefacts[s]["assessment"] = 0
        /\ \A i \in Own(s) : challenges[i].customer = c.loaded.customer
    BY <1>1, <1>2, <1>3, <1>5 DEF GoodSession
  <2>3. /\ Own(s)' = Own(s) \cup ({c.newId} \ {0})
        /\ c.newId # 0 => /\ challenges'[c.newId] = NewChallenge(c)
                          /\ c.issue = c.sess.customer /\ c.sess.state = "identity_matched"
        /\ \A i \in Own(s) : challenges'[i].customer = challenges[i].customer
    BY TouchesOwn DEF Own
  <2>4. c.newId # 0 => challenges'[c.newId].customer = c.sess.customer
    BY <2>3 DEF NewChallenge
  <2>5. \A i \in Own(s)' : challenges'[i].customer = c.sess.customer
    BY <2>1, <2>2, <2>3, <2>4
  <2>6. c.sess.state \in Anonymous => Own(s)' = {} /\ artefacts'[s]["refused"] = 0
    BY <1>1, <1>5, <2>1, <2>2, <2>3
  <2>7. c.sess.state \in Undecided => artefacts'[s]["assessment"] = 0
    BY <1>1, <1>5, <2>1, <2>2
  <2> QED
    BY <1>1, <1>2, <1>5, <2>1, <2>5, <2>6, <2>7 DEF GoodSession, RowShape
<1> QED
  BY <1>4, <1>5

\* The passcode that is retired is the newest, so the one that is sent is the only
\* one that can still be accepted.
LEMMA CommitGoodChallenge ==
  ASSUME IInv, TInv, NEW c, Commits(c), NEW i \in DOMAIN challenges'
  PROVE  GoodChallenge(i)'
<1> DEFINE s == c.req.session
<1>1. /\ Local(c) /\ Current(c) /\ c \in CallRecords /\ now' = now
      /\ DOMAIN challenges' = DOMAIN challenges \cup ({c.newId} \ {0})
      /\ \A j \in DOMAIN challenges : challenges'[j] = UpdatedChallenge(challenges[j], j, c)
  BY DEF Commits
<1>2. CASE i \in DOMAIN challenges /\ challenges[i].session # s
  <2>1. /\ challenges'[i] = challenges[i] /\ GoodChallenge(i)
        /\ challenges[i].session \in Sessions
    BY <1>2, TouchesOwn DEF TInv, IInv, TypeOK, ChallengeRows
  <2>2. Own(challenges[i].session)' = Own(challenges[i].session)
    BY <1>2, <2>1, TouchesOwn
  <2> QED
    BY <1>1, <2>1, <2>2 DEF GoodChallenge, Own
<1>3. CASE i \in DOMAIN challenges /\ challenges[i].session = s
  <2>1. GoodChallenge(i) /\ challenges[i] \in ChallengeRows
    BY <1>3 DEF TInv, IInv, TypeOK
  <2>2. /\ challenges'[i].session = s
        /\ challenges'[i].expires = challenges[i].expires
        /\ challenges'[i].created = challenges[i].created
        /\ challenges'[i].attempts = IF i = c.guess.id THEN c.guess.attempts
                                     ELSE challenges[i].attempts
        /\ challenges'[i].guesses = IF i = c.guess.id THEN challenges[i].guesses + 1
                                    ELSE challenges[i].guesses
        /\ ~challenges'[i].consumed => ~challenges[i].consumed /\ i # c.retires
    <3>1. PICK row \in ChallengeRows : row = challenges[i]
      BY <2>1
    <3>2. challenges'[i] = UpdatedChallenge(row, i, c) /\ row.session = s
      BY <1>1, <1>3, <3>1
    <3>3. /\ UpdatedChallenge(row, i, c).session = row.session
          /\ UpdatedChallenge(row, i, c).expires = row.expires
          /\ UpdatedChallenge(row, i, c).created = row.created
      BY DEF UpdatedChallenge, ChallengeRows
    <3>4. /\ UpdatedChallenge(row, i, c).attempts = IF i = c.guess.id THEN c.guess.attempts
                                                    ELSE row.attempts
          /\ UpdatedChallenge(row, i, c).guesses = IF i = c.guess.id THEN row.guesses + 1
                                                   ELSE row.guesses
      BY DEF UpdatedChallenge, ChallengeRows
    <3>5. ~UpdatedChallenge(row, i, c).consumed => ~row.consumed /\ i # c.retires
      BY DEF UpdatedChallenge, ChallengeRows
    <3> QED
      BY <3>1, <3>2, <3>3, <3>4, <3>5
  <2>3. /\ challenges'[i].attempts = challenges'[i].guesses
        /\ challenges'[i].guesses <= MaxVerifyAttempts
    <3>1. i = c.guess.id => /\ c.guess.attempts = challenges[i].attempts + 1
                            /\ c.guess.attempts <= MaxVerifyAttempts
      BY <1>1, <1>3 DEF Current, Compared, IInv, TypeOK
    <3> QED
      BY <2>1, <2>2, <3>1 DEF GoodChallenge
  <2>4. ASSUME ~challenges'[i].consumed PROVE \A j \in Own(s)' : j <= i
    <3>1. ~challenges[i].consumed /\ i # c.retires /\ i \in Unconsumed(s) /\ i \in Own(s)
      BY <1>3, <2>2, <2>4 DEF Unconsumed, Own
    <3>2. \A j \in Own(s) : j <= i
      BY <1>3, <2>1, <3>1 DEF GoodChallenge
    <3>3. c.newId = 0
      <4>1. SUFFICES ASSUME c.newId # 0 PROVE FALSE
        OBVIOUS
      <4>2. c.retires \in Unconsumed(s) /\ i <= c.retires
        BY <3>1, <4>1, TouchesOwn DEF IsActive
      <4>3. c.retires \in Own(s)
        BY <4>2 DEF Own, Unconsumed
      <4>4. i \in Nat /\ c.retires \in Nat
        BY <1>1, <1>3 DEF IInv, TypeOK, CallRecords
      <4> QED
        BY <3>1, <3>2, <4>2, <4>3, <4>4
    <3>4. Own(s)' = Own(s)
      BY <3>3, TouchesOwn, ZenonT(30)
    <3> QED
      BY <3>2, <3>4
  <2> QED
    BY <1>1, <2>1, <2>2, <2>3, <2>4 DEF GoodChallenge, Own
<1>4. CASE i \notin DOMAIN challenges
  <2>1. i = c.newId /\ c.newId # 0
    BY <1>1, <1>4
  <2>2. challenges'[i] = NewChallenge(c) /\ c.newAt <= now
    BY <1>1, <2>1, TouchesOwn DEF Local
  <2>3. /\ challenges'[i].session = s /\ challenges'[i].attempts = 0
        /\ challenges'[i].guesses = 0 /\ challenges'[i].created = c.newAt
        /\ challenges'[i].expires = c.newAt + CodeTtl
    BY <2>2 DEF NewChallenge
  <2>4. i \in Nat /\ \A j \in DOMAIN challenges : j \in Nat
    BY <1>1, <2>1 DEF IInv, TypeOK, CallRecords
  <2>5. \A j \in Own(s)' : j <= i
    BY <2>1, <2>4, TouchesOwn DEF Own
  <2>6. 0 <= MaxVerifyAttempts
    BY ServiceAssumption
  <2> QED
    BY <1>1, <2>2, <2>3, <2>5, <2>6 DEF GoodChallenge, Own
<1> QED
  BY <1>2, <1>3, <1>4

\* The counters of a session move with the audit rows that stand for them.
LEMMA EffectCounts ==
  ASSUME NEW c, Effect(c.req, c.loaded, c.sess, c.verdict, c.guess.ok),
         c.loaded \in SessionRows
  PROVE  /\ c.sess.identity_attempts =
              IF c.req.tool \in {"verify_identity"} /\ c.verdict \in Failures \ {"pan_not_found"}
              THEN c.loaded.identity_attempts + 1 ELSE c.loaded.identity_attempts
         /\ c.sess.otp_resends =
              IF c.req.tool \in {"resend_otp"} /\ c.verdict \in {"sent"}
              THEN c.loaded.otp_resends + 1 ELSE c.loaded.otp_resends
<1>1. CASE c.req.tool = "verify_identity"
  BY <1>1 DEF Effect, SessionRows, Failures
<1>2. CASE c.req.tool = "resend_otp"
  BY <1>2 DEF Effect, SessionRows
<1>3. CASE c.req.tool \notin {"verify_identity", "resend_otp"}
  <2>1. \/ c.sess = c.loaded
        \/ \E st : c.sess = [c.loaded EXCEPT !.state = st]
    BY <1>3 DEF Effect
  <2> QED
    BY <1>3, <2>1 DEF SessionRows
<1> QED
  BY <1>1, <1>2, <1>3

LEMMA CommitBudgets ==
  ASSUME IInv, TInv, NEW c, Commits(c)
  PROVE  AttemptBudget' /\ ResendBudget'
<1> DEFINE s == c.req.session
<1>1. /\ s \in Sessions /\ c.loaded \in SessionRows /\ c.sess \in SessionRows
      /\ Local(c) /\ c.loaded = sessions[s] /\ c.phase = "ready"
      /\ Matches(c.adds, c.req.tool, c.verdict)
      /\ Entry(c) \in AuditRows
      /\ \A t \in Sessions : sessions'[t] = IF t = s THEN c.sess ELSE sessions[t]
      /\ \A t \in Sessions :
           toolCalls'[t] = IF t = s THEN Append(toolCalls[s], Entry(c)) ELSE toolCalls[t]
  BY DEF Commits, Current
<1>2. RowShape(c.sess)
  BY <1>1, EffectOK
<1>3. Effect(c.req, c.loaded, c.sess, c.verdict, c.guess.ok)
  BY <1>1 DEF Local
<1>4. s \in Opened
  BY <1>1, ServiceAssumption DEF Opened
<1>5. /\ Entry(c).tool = c.req.tool /\ Entry(c).verdict = c.verdict
  BY DEF Entry
<1>6. ASSUME NEW T, NEW V
      PROVE  /\ RowCount(toolCalls[s], T, V) \in Nat
             /\ RowCount(toolCalls'[s], T, V) =
                  IF c.req.tool \in T /\ c.verdict \in V
                  THEN RowCount(toolCalls[s], T, V) + 1 ELSE RowCount(toolCalls[s], T, V)
  <2>1. toolCalls[s] \in Seq(AuditRows) /\ toolCalls'[s] = Append(toolCalls[s], Entry(c))
    BY <1>1 DEF IInv, TypeOK
  <2> QED
    BY <1>1, <1>5, <2>1, CountAppend
<1>7. ASSUME NEW t \in Opened', t # s
      PROVE  /\ t \in Opened /\ sessions'[t] = sessions[t] /\ toolCalls'[t] = toolCalls[t]
  BY <1>1, <1>7 DEF Opened
<1>8. ASSUME NEW t \in Opened', NEW T, NEW V
      PROVE  AuditCount(t, T, V)' = RowCount(toolCalls'[t], T, V)
  BY DEF AuditCount, RowCount
<1>9. /\ sessions[s].identity_attempts =
           RowCount(toolCalls[s], {"verify_identity"}, Failures \ {"pan_not_found"})
      /\ sessions[s].otp_resends = RowCount(toolCalls[s], {"resend_otp"}, {"sent"})
  BY <1>4, CountOf DEF TInv, AttemptBudget, ResendBudget
<1>10. AttemptBudget'
  <2> SUFFICES ASSUME NEW t \in Opened'
               PROVE  /\ sessions'[t].identity_attempts =
                           AuditCount(t, {"verify_identity"}, Failures \ {"pan_not_found"})'
                      /\ sessions'[t].identity_attempts <= MaxIdentityAttempts
    BY DEF AttemptBudget
  <2>1. CASE t = s
    <3>1. sessions'[s].identity_attempts =
            RowCount(toolCalls'[s], {"verify_identity"}, Failures \ {"pan_not_found"})
      BY <1>1, <1>3, <1>6, <1>9, EffectCounts
    <3>2. sessions'[s].identity_attempts <= MaxIdentityAttempts
      BY <1>1, <1>2 DEF RowShape
    <3> QED
      BY <1>8, <2>1, <3>1, <3>2
  <2>2. CASE t # s
    <3>1. /\ sessions[t].identity_attempts =
               RowCount(toolCalls[t], {"verify_identity"}, Failures \ {"pan_not_found"})
          /\ sessions[t].identity_attempts <= MaxIdentityAttempts
      BY <1>7, <2>2, CountOf DEF TInv, AttemptBudget
    <3> QED
      BY <1>7, <1>8, <2>2, <3>1
  <2> QED
    BY <2>1, <2>2
<1>11. ResendBudget'
  <2> SUFFICES ASSUME NEW t \in Opened'
               PROVE  /\ sessions'[t].otp_resends =
                           AuditCount(t, {"resend_otp"}, {"sent"})'
                      /\ sessions'[t].otp_resends <= MaxResends
    BY DEF ResendBudget
  <2>1. CASE t = s
    <3>1. sessions'[s].otp_resends = RowCount(toolCalls'[s], {"resend_otp"}, {"sent"})
      BY <1>1, <1>3, <1>6, <1>9, EffectCounts
    <3>2. sessions'[s].otp_resends <= MaxResends
      BY <1>1, <1>2 DEF RowShape
    <3> QED
      BY <1>8, <2>1, <3>1, <3>2
  <2>2. CASE t # s
    <3>1. /\ sessions[t].otp_resends = RowCount(toolCalls[t], {"resend_otp"}, {"sent"})
          /\ sessions[t].otp_resends <= MaxResends
      BY <1>7, <2>2, CountOf DEF TInv, ResendBudget
    <3> QED
      BY <1>7, <1>8, <2>2, <3>1
  <2> QED
    BY <2>1, <2>2
<1> QED
  BY <1>10, <1>11

LEMMA CommitLedger ==
  ASSUME IInv, TInv, NEW c, Commits(c)
  PROVE  AuditAgrees' /\ EndingBacked'
<1> DEFINE s == c.req.session
<1>1. /\ s \in Sessions /\ c.loaded \in SessionRows /\ c.sess \in SessionRows
      /\ Local(c) /\ c.loaded = sessions[s] /\ c.phase = "ready"
      /\ Matches(c.adds, c.req.tool, c.verdict)
      /\ Entry(c) \in AuditRows
      /\ \A t \in Sessions : sessions'[t] = IF t = s THEN c.sess ELSE sessions[t]
      /\ \A t \in Sessions :
           toolCalls'[t] = IF t = s THEN Append(toolCalls[s], Entry(c)) ELSE toolCalls[t]
      /\ \A t \in Sessions : \A k \in Artefacts :
           artefacts'[t][k] = IF t = s /\ k \in c.adds THEN artefacts[t][k] + 1
                              ELSE artefacts[t][k]
  BY DEF Commits, Current
<1>2. /\ c.loaded.state \notin TerminalStates
      /\ "granted" \in c.adds <=> c.sess.state = "completed"
      /\ "lead" \in c.adds <=> c.sess.state = "lead_captured"
      /\ "ticket" \in c.adds <=> c.sess.state = "escalated"
      /\ "assessment" \in c.adds => c.loaded.state = "identity_verified"
  BY <1>1, EffectOK
<1>3. s \in Opened
  BY <1>1, ServiceAssumption DEF Opened
<1>4. \A t \in Opened' : t # s =>
        /\ t \in Opened /\ sessions'[t] = sessions[t] /\ toolCalls'[t] = toolCalls[t]
        /\ \A k \in Artefacts : artefacts'[t][k] = artefacts[t][k]
  BY <1>1 DEF Opened
<1>5. AuditAgrees'
  <2> SUFFICES ASSUME NEW t \in Opened'
               PROVE  sessions'[t].state =
                        IF toolCalls'[t] = <<>> THEN "started"
                        ELSE toolCalls'[t][Len(toolCalls'[t])].reply.state
    BY DEF AuditAgrees
  <2>1. CASE t = s
    <3> DEFINE rows == toolCalls[s]
               more == Append(rows, Entry(c))
    <3>1. rows \in Seq(AuditRows) /\ Entry(c) \in AuditRows
      BY <1>1 DEF IInv, TypeOK
    <3>2. more # <<>> /\ more[Len(more)] = Entry(c)
      BY <3>1
    <3>3. Entry(c).reply.state = c.sess.state
      BY <1>1 DEF Entry, Local
    <3>4. toolCalls'[t] = more /\ sessions'[t] = c.sess
      BY <1>1, <2>1
    <3> HIDE DEF more
    <3> QED
      BY <3>2, <3>3, <3>4
  <2>2. CASE t # s
    BY <1>4, <2>2 DEF TInv, AuditAgrees
  <2> QED
    BY <2>1, <2>2
<1>6. EndingBacked'
  <2> SUFFICES ASSUME NEW t \in Opened'
               PROVE  /\ artefacts'[t]["granted"] = IF sessions'[t].state = "completed" THEN 1 ELSE 0
                      /\ artefacts'[t]["lead"] = IF sessions'[t].state = "lead_captured" THEN 1 ELSE 0
                      /\ artefacts'[t]["ticket"] = IF sessions'[t].state = "escalated" THEN 1 ELSE 0
                      /\ artefacts'[t]["assessment"] <= 1
    BY DEF EndingBacked
  <2>0. {"granted", "lead", "ticket", "assessment"} \subseteq Artefacts
    BY DEF Artefacts
  <2>1. CASE t = s
    <3>1. /\ artefacts[s]["granted"] = 0 /\ artefacts[s]["lead"] = 0
          /\ artefacts[s]["ticket"] = 0 /\ artefacts[s]["assessment"] <= 1
      BY <1>1, <1>2, <1>3 DEF TInv, EndingBacked, TerminalStates
    <3>2. c.loaded.state = "identity_verified" => artefacts[s]["assessment"] = 0
      BY <1>1, <1>3 DEF TInv, GoodSession, Opened
    <3>3. /\ sessions'[t] = c.sess
          /\ \A k \in {"granted", "lead", "ticket", "assessment"} :
               artefacts'[t][k] = IF k \in c.adds THEN artefacts[s][k] + 1 ELSE artefacts[s][k]
      BY <1>1, <2>0, <2>1
    <3> QED
      BY <1>2, <3>1, <3>2, <3>3
  <2>2. CASE t # s
    BY <1>4, <2>0, <2>2 DEF TInv, EndingBacked
  <2> QED
    BY <2>1, <2>2
<1> QED
  BY <1>5, <1>6

\* The commit takes the key of every other request in flight on the session, and
\* changes no row that one on another session has read.
LEMMA CommitTurn ==
  ASSUME IInv, TInv, NEW c, Commits(c), NEW d, Turn(d), d.req.session \in Sessions,
         d.phase \in InFlightPhases, Retries(c, d)
  PROVE  Turn(d)'
<1> DEFINE s == c.req.session
<1>1. /\ s \in Sessions /\ Entry(c) \in AuditRows /\ c.phase = "ready" /\ now' = now
      /\ \A t \in Sessions : sessions'[t] = IF t = s THEN c.sess ELSE sessions[t]
      /\ \A t \in Sessions :
           toolCalls'[t] = IF t = s THEN Append(toolCalls[s], Entry(c)) ELSE toolCalls[t]
      /\ DOMAIN challenges' = DOMAIN challenges \cup ({c.newId} \ {0})
  BY DEF Commits
<1>2. Local(d) /\ (KeyTaken(d.req) \/ Current(d))
  BY DEF Turn
<1>3. Local(d)'
  BY <1>1, <1>2 DEF Local, RowShape
<1>4. CASE d.req.session = s
  <2>1. d.req = c.req /\ c.req.key # None
    BY <1>1, <1>4 DEF Retries
  <2> DEFINE rows == toolCalls[s]
             more == Append(rows, Entry(c))
  <2>2. rows \in Seq(AuditRows)
    BY <1>1 DEF IInv, TypeOK
  <2>3. Len(rows) + 1 \in DOMAIN more /\ more[Len(rows) + 1] = Entry(c)
    BY <1>1, <2>2
  <2>4. toolCalls'[s] = more /\ Entry(c).key = c.req.key
    BY <1>1 DEF Entry
  <2> HIDE DEF more
  <2>5. KeyTaken(d.req)'
    BY <1>4, <2>1, <2>3, <2>4 DEF KeyTaken
  <2> QED
    BY <1>3, <2>5 DEF Turn
<1>5. CASE d.req.session # s
  <2> DEFINE t == d.req.session
  <2>1. /\ t \in Sessions /\ toolCalls'[t] = toolCalls[t] /\ sessions'[t] = sessions[t]
        /\ Own(t)' = Own(t)
    BY <1>1, <1>5, TouchesOwn
  <2>2. \A i \in Own(t) : challenges'[i] = challenges[i]
    BY <1>5, TouchesOwn DEF Own
  <2>3. \A i : i \in Unconsumed(t)' <=> i \in Unconsumed(t)
    <3> TAKE i
    <3>1. i \in Unconsumed(t) <=> i \in Own(t) /\ ~challenges[i].consumed
      BY DEF Own, Unconsumed
    <3>2. i \in Unconsumed(t)' <=> i \in Own(t)' /\ ~challenges'[i].consumed
      BY DEF Own, Unconsumed
    <3> QED
      BY <2>1, <2>2, <3>1, <3>2
  <2>4. KeyTaken(d.req) => KeyTaken(d.req)'
    BY <2>1 DEF KeyTaken
  <2>5. ASSUME Current(d) PROVE Current(d)'
    <3>1. d.loaded = sessions'[t]
      BY <2>1, <2>5 DEF Current
    <3>2. d.issue # None => IsActive(t, d.retires)'
      <4>1. \A i : IsActive(t, i) => IsActive(t, i)'
        BY <2>3 DEF IsActive
      <4> QED
        BY <2>5, <4>1 DEF Current
    <3>3. d.newId # 0 => \A j \in Own(t)' : j < d.newId
      BY <2>1, <2>5 DEF Current
    <3>4. Compared(d)'
      <4>1. d.guess.id \in Unconsumed(t) => challenges'[d.guess.id] = challenges[d.guess.id]
        BY <2>2 DEF Own, Unconsumed
      <4> QED
        BY <2>3, <2>5, <4>1 DEF Current, Compared
    <3> QED
      BY <3>1, <3>2, <3>3, <3>4 DEF Current
  <2> QED
    BY <1>2, <1>3, <2>4, <2>5 DEF Turn
<1> QED
  BY <1>4, <1>5

LEMMA TRecordCallStep ==
  ASSUME IInv, LInv, TInv, NEW p \in Handlers, RecordCall(p)
  PROVE  TInv'
<1>1. PICK c : c = calls[p] /\ Commits(c)
  BY CommitsCurrent
<1>2. \A r \in Handlers : calls'[r] = IF r = p THEN AnsweredCall(c.req, c.reply) ELSE calls[r]
  BY <1>1 DEF RecordCall, IInv, TypeOK
<1>3. AnsweredCall(c.req, c.reply).phase = "answered"
  BY DEF AnsweredCall, IdleCall
<1>4. c.phase = "ready"
  BY <1>1 DEF Commits
<1>5. ASSUME NEW r \in Handlers PROVE Turn(calls[r])'
  <2>1. CASE r = p \/ calls[r].phase \notin InFlightPhases
    BY <1>2, <1>3, <2>1 DEF Turn
  <2>2. CASE r # p /\ calls[r].phase \in InFlightPhases
    <3>1. PICK d : d = calls[r]
      OBVIOUS
    <3>2. calls'[r] = d
      BY <1>2, <2>2, <3>1
    <3>3. Turn(d) /\ Retries(c, d) /\ d.req.session \in Sessions /\ d.phase \in InFlightPhases
      BY <1>1, <2>2, <3>1, InFlightCall DEF TInv
    <3>4. Turn(d)'
      BY <1>1, <3>3, CommitTurn
    <3> QED
      BY <3>2, <3>4 DEF Turn, Local, Current, Compared
  <2> QED
    BY <2>1, <2>2
<1>6. ASSUME NEW r \in Handlers, NEW q \in Handlers, r # q
      PROVE  Retries(calls[r], calls[q])'
  BY <1>2, <1>3, <1>6 DEF TInv, Retries
<1>7. \A t \in Sessions : GoodSession(t)'
  BY <1>1, CommitGoodSession
<1>8. \A i \in DOMAIN challenges' : GoodChallenge(i)'
  BY <1>1, CommitGoodChallenge
<1>9. AuditAgrees' /\ EndingBacked' /\ AttemptBudget' /\ ResendBudget'
  BY <1>1, CommitBudgets, CommitLedger
<1> QED
  BY <1>5, <1>6, <1>7, <1>8, <1>9 DEF TInv
-----------------------------------------------------------------------------
(* The other steps *)

LEMMA TSuppressDuplicateStep ==
  ASSUME IInv, TInv, NEW p \in Handlers, SuppressDuplicate(p)
  PROVE  TInv'
<1>1. \E q, rep : Stay(p, AnsweredCall(q, rep))
  BY DEF SuppressDuplicate
<1> QED
  BY <1>1, TAnswerStep DEF Stay

LEMMA TIdleStep ==
  ASSUME IInv, TInv, NEW p \in Handlers, Return(p) \/ Abort(p)
  PROVE  TInv'
<1>1. Stay(p, IdleCall)
  BY DEF Return, Abort
<1>2. IdleCall.phase = "idle" /\ Turn(IdleCall)
  BY DEF Turn, IdleCall
<1> QED
  BY <1>1, <1>2, TCallStep DEF Stay

\* A new session has no rows but its own.
LEMMA TStartSessionStep ==
  ASSUME IInv, LInv, TInv, NEW s \in Sessions, StartSession(s)
  PROVE  TInv'
<1> DEFINE new == [state |-> "started", customer |-> None,
                   identity_attempts |-> 0, otp_resends |-> 0]
<1>1. /\ sessions[s] = None
      /\ \A t \in Sessions : sessions'[t] = IF t = s THEN new ELSE sessions[t]
      /\ UNCHANGED <<challenges, artefacts, toolCalls, lastId, sent, calls, now>>
  BY DEF StartSession, IInv, TypeOK
<1>2. /\ new.state = "started" /\ new.customer = None
      /\ new.identity_attempts = 0 /\ new.otp_resends = 0
  OBVIOUS
<1>3. RowShape(new) /\ new # None
  <2>1. 0 <= MaxIdentityAttempts /\ 0 <= MaxResends
    BY ServiceAssumption
  <2>2. new \in SessionRows
    BY DEF SessionRows, States
  <2> QED
    BY <1>2, <2>1, <2>2, ServiceAssumption DEF RowShape
<1> HIDE DEF new
<1>4. toolCalls[s] = <<>> /\ Own(s) = {}
  BY <1>1 DEF TInv, GoodSession
<1>5. \A T, V : AuditCount(s, T, V) = 0
  <2> TAKE T, V
  <2>1. {i \in DOMAIN toolCalls[s] :
           toolCalls[s][i].tool \in T /\ toolCalls[s][i].verdict \in V} = {}
    BY <1>4
  <2> QED
    BY <2>1, FS_EmptySet DEF AuditCount
<1>6. /\ artefacts[s]["ticket"] = 0 /\ artefacts[s]["lead"] = 0
      /\ artefacts[s]["assessment"] = 0 /\ artefacts[s]["granted"] = 0
      /\ artefacts[s]["refused"] = 0
  BY <1>5 DEF LInv, ArtefactsAudited
<1>7. \A t \in Opened' : t = s \/ (t \in Opened /\ sessions'[t] = sessions[t])
  BY <1>1 DEF Opened
<1>8. \A t : \A T, V : AuditCount(t, T, V)' = AuditCount(t, T, V)
  BY <1>1 DEF AuditCount
<1>9. ASSUME NEW r \in Handlers PROVE Turn(calls[r])'
  <2>1. CASE calls[r].phase \notin InFlightPhases
    BY <1>1, <2>1 DEF Turn
  <2>2. CASE calls[r].phase \in InFlightPhases
    <3>1. /\ Local(calls[r]) /\ (KeyTaken(calls[r].req) \/ Current(calls[r]))
          /\ sessions[calls[r].req.session] # None /\ calls[r].req.session \in Sessions
      BY <2>2, InTurn, InFlightCall DEF GoodCall
    <3>2. sessions'[calls[r].req.session] = sessions[calls[r].req.session]
      BY <1>1, <3>1
    <3>3. Local(calls[r])'
      BY <1>1, <3>1 DEF Local, RowShape
    <3>4. KeyTaken(calls[r].req) => KeyTaken(calls[r].req)'
      BY <1>1 DEF KeyTaken
    <3>5. Current(calls[r]) => Current(calls[r])'
      BY <1>1, <3>2 DEF Current, Compared, IsActive, Unconsumed, Own
    <3> QED
      BY <3>1, <3>3, <3>4, <3>5 DEF Turn
  <2> QED
    BY <2>1, <2>2
<1>10. \A r, q \in Handlers : r # q => Retries(calls[r], calls[q])'
  BY <1>1 DEF TInv, Retries
<1>11. ASSUME NEW t \in Sessions PROVE GoodSession(t)'
  <2>1. Own(t)' = Own(t)
    BY <1>1 DEF Own
  <2>2. CASE t = s
    BY <1>1, <1>2, <1>3, <1>4, <1>6, <2>1, <2>2 DEF GoodSession, RowShape
  <2>3. CASE t # s
    BY <1>1, <2>1, <2>3 DEF TInv, GoodSession, RowShape
  <2> QED
    BY <2>2, <2>3
<1>12. \A i \in DOMAIN challenges' : GoodChallenge(i)'
  BY <1>1 DEF TInv, GoodChallenge, Own
<1>13. AuditAgrees'
  BY <1>1, <1>2, <1>4, <1>7 DEF TInv, AuditAgrees
<1>14. EndingBacked'
  BY <1>1, <1>2, <1>6, <1>7 DEF TInv, EndingBacked
<1>15. AttemptBudget'
  BY <1>1, <1>2, <1>3, <1>5, <1>7, <1>8 DEF TInv, AttemptBudget, RowShape
<1>16. ResendBudget'
  BY <1>1, <1>2, <1>3, <1>5, <1>7, <1>8 DEF TInv, ResendBudget, RowShape
<1> QED
  BY <1>9, <1>10, <1>11, <1>12, <1>13, <1>14, <1>15, <1>16 DEF TInv

LEMMA TTickStep ==
  ASSUME IInv, TInv, Tick
  PROVE  TInv'
<1>1. now' = now + 1 /\ UNCHANGED <<sessions, challenges, artefacts, toolCalls, lastId, sent, calls>>
  BY DEF Tick
<1>2. now \in Nat
  BY DEF IInv, TypeOK
<1>3. ASSUME NEW r \in Handlers PROVE Turn(calls[r])'
  <2>1. CASE calls[r].phase \notin InFlightPhases
    BY <1>1, <2>1 DEF Turn
  <2>2. CASE calls[r].phase \in InFlightPhases
    <3>1. /\ calls[r] \in CallRecords /\ Local(calls[r])
          /\ KeyTaken(calls[r].req) \/ Current(calls[r])
      BY <2>2, InTurn
    <3>2. calls[r].newAt <= now => calls[r].newAt <= now'
      BY <1>1, <1>2, <3>1 DEF CallRecords
    <3>3. Local(calls[r])'
      BY <1>1, <3>1, <3>2 DEF Local, RowShape
    <3>4. KeyTaken(calls[r].req) => KeyTaken(calls[r].req)'
      BY <1>1 DEF KeyTaken
    <3>5. Current(calls[r]) => Current(calls[r])'
      BY <1>1 DEF Current, Compared, IsActive, Unconsumed, Own
    <3> QED
      BY <3>1, <3>3, <3>4, <3>5 DEF Turn
  <2> QED
    BY <2>1, <2>2
<1>4. \A r, q \in Handlers : r # q => Retries(calls[r], calls[q])'
  BY <1>1 DEF TInv, Retries
<1>5. \A t \in Sessions : GoodSession(t)'
  BY <1>1 DEF TInv, GoodSession, Own, RowShape
<1>6. ASSUME NEW i \in DOMAIN challenges' PROVE GoodChallenge(i)'
  <2>1. GoodChallenge(i) /\ challenges[i].created \in Nat
    BY <1>1, <1>6 DEF TInv, IInv, TypeOK, ChallengeRows
  <2>2. challenges[i].created <= now'
    BY <1>1, <1>2, <2>1 DEF GoodChallenge
  <2> QED
    BY <1>1, <2>1, <2>2 DEF GoodChallenge, Own
<1>7. \A s : \A T, V : AuditCount(s, T, V)' = AuditCount(s, T, V)
  BY <1>1 DEF AuditCount
<1>8. AuditAgrees' /\ EndingBacked' /\ AttemptBudget' /\ ResendBudget'
  BY <1>1, <1>7 DEF TInv, AuditAgrees, EndingBacked, AttemptBudget, ResendBudget, Opened
<1> QED
  BY <1>3, <1>4, <1>5, <1>6, <1>8 DEF TInv

LEMMA TStutterStep ==
  ASSUME IInv, TInv, UNCHANGED vars
  PROVE  TInv'
<1>1. UNCHANGED <<sessions, challenges, artefacts, toolCalls, calls, now>>
  BY DEF vars
<1>2. ASSUME NEW r \in Handlers PROVE Turn(calls[r])'
  <2>1. PICK d : d = calls[r]
    OBVIOUS
  <2>2. Turn(d)'
    BY <1>1, <2>1, SameTurn DEF TInv
  <2> QED
    BY <1>1, <2>1, <2>2 DEF Turn, Local, Current, Compared
<1>3. \A r, q \in Handlers : r # q => Retries(calls[r], calls[q])'
  BY <1>1 DEF TInv, Retries
<1> QED
  BY <1>1, <1>2, <1>3, SameRows DEF TInv

LEMMA NextTInv ==
  ASSUME OnlyRetriesOverlap
  PROVE  IInv /\ LInv /\ TInv /\ [Next]_vars => TInv'
<1> SUFFICES ASSUME IInv, LInv, TInv, [Next]_vars PROVE TInv'
  OBVIOUS
<1>1. ASSUME NEW p \in Handlers, Arrive(p) PROVE TInv'
  BY <1>1, TArriveStep
<1>2. ASSUME NEW p \in Handlers, Work(p) PROVE TInv'
  BY <1>2, TWorkStep
<1>3. ASSUME NEW p \in Handlers, Send(p) PROVE TInv'
  BY <1>3, TSendStep
<1>4. ASSUME NEW p \in Handlers, Finalize(p) PROVE TInv'
  BY <1>4, TRecordCallStep, TSuppressDuplicateStep DEF Finalize
<1>5. ASSUME NEW p \in Handlers, Return(p) \/ Abort(p) PROVE TInv'
  BY <1>5, TIdleStep
<1>6. ASSUME NEW s \in Sessions, StartSession(s) PROVE TInv'
  BY <1>6, TStartSessionStep
<1> QED
  BY <1>1, <1>2, <1>3, <1>4, <1>5, <1>6, TTickStep, TStutterStep DEF Next
-----------------------------------------------------------------------------
(* The theorems.  In all of them the platform may let a request overlap its *)
(* own retries and requests on other sessions, but nothing else.            *)

\* TInv holds in every reachable state.
THEOREM TurnInvariance ==
  ASSUME OnlyRetriesOverlap PROVE Spec => []TInv
<1> QED
  BY InitTInv, NextTInv, Invariance, LedgerInvariance, PTL DEF Spec

\* The audit trail ends in the state the session is in, so that what the audit
\* endpoint shows of a call is where the call is (admin.py:49-144).
THEOREM TrailTellsState ==
  ASSUME OnlyRetriesOverlap PROVE Spec => []AuditAgrees
<1>1. TInv => AuditAgrees
  BY DEF TInv
<1> QED
  BY <1>1, TurnInvariance, PTL

\* Every way a call can end left its one artefact, however requests are retried
\* (tools.py:447-450, 631-633, 691-694).
THEOREM EndingsAreBacked ==
  ASSUME OnlyRetriesOverlap PROVE Spec => []EndingBacked
<1>1. TInv => EndingBacked
  BY DEF TInv
<1> QED
  BY <1>1, TurnInvariance, PTL

\* The identity attempts of a session stay within their limit and are exactly the
\* audited failures (tools.py:199-200, 261).
THEOREM BudgetsHold ==
  ASSUME OnlyRetriesOverlap PROVE Spec => []AttemptBudget
<1>1. TInv => AttemptBudget
  BY DEF TInv
<1> QED
  BY <1>1, TurnInvariance, PTL

\* So are its resends, of which only the delivered ones count (otp.py:125-126,
\* 181-182).
THEOREM ResendsHold ==
  ASSUME OnlyRetriesOverlap PROVE Spec => []ResendBudget
<1>1. TInv => ResendBudget
  BY DEF TInv
<1> QED
  BY <1>1, TurnInvariance, PTL

\* No guess at a passcode goes uncounted, and there are never more than
\* otp_max_verify_attempts of them (otp.py:205-208).
THEOREM GuessesAreCounted ==
  ASSUME OnlyRetriesOverlap PROVE Spec => []GuessBudget
<1>1. TInv => GuessBudget
  BY DEF TInv, GoodChallenge, GuessBudget
<1> QED
  BY <1>1, TurnInvariance, PTL

\* A session has at most one passcode that could still be accepted (otp.py:137-140).
THEOREM OneCodeLives ==
  ASSUME OnlyRetriesOverlap PROVE Spec => []OneLiveCode
<1>1. ASSUME IInv, TInv PROVE OneLiveCode
  <2> SUFFICES ASSUME NEW s \in Sessions PROVE Cardinality(Unconsumed(s)) <= 1
    BY DEF OneLiveCode
  <2>1. \A i \in Unconsumed(s) : \A j \in Unconsumed(s) : j <= i /\ i \in Nat
    BY <1>1 DEF TInv, GoodChallenge, Own, Unconsumed, IInv, TypeOK
  <2>2. CASE Unconsumed(s) = {}
    BY <2>2, FS_EmptySet
  <2>3. CASE Unconsumed(s) # {}
    <3>1. PICK i : i \in Unconsumed(s)
      BY <2>3
    <3>2. \A j \in Unconsumed(s) : j = i
      BY <2>1, <3>1
    <3>3. Unconsumed(s) = {i}
      BY <3>1, <3>2
    <3>4. Cardinality({i}) = 1
      BY FS_Singleton
    <3> QED
      BY <3>3, <3>4
  <2> QED
    BY <2>2, <2>3
<1>2. IInv /\ TInv => OneLiveCode
  BY <1>1
<1> QED
  BY <1>2, Invariance, TurnInvariance, PTL

\* A caller on no file never gets a customer, a passcode or a credit decision
\* (tools.py:416-419).
THEOREM ProspectsStayApart ==
  ASSUME OnlyRetriesOverlap PROVE Spec => []ProspectsApart
<1>1. ASSUME IInv, TInv PROVE ProspectsApart
  <2> SUFFICES ASSUME NEW s \in Opened,
                      sessions[s].state \in {"prospect", "lead_captured"}
                        \/ artefacts[s]["lead"] > 0
               PROVE  /\ sessions[s].customer = None
                      /\ \A i \in DOMAIN challenges : challenges[i].session # s
                      /\ \A k \in {"assessment", "granted", "refused"} : artefacts[s][k] = 0
    BY DEF ProspectsApart
  <2>1. /\ artefacts[s]["granted"] = IF sessions[s].state = "completed" THEN 1 ELSE 0
        /\ artefacts[s]["lead"] = IF sessions[s].state = "lead_captured" THEN 1 ELSE 0
    BY <1>1 DEF TInv, EndingBacked
  <2>2. sessions[s].state \in {"prospect", "lead_captured"}
    BY <2>1
  <2>3. GoodSession(s) /\ sessions[s] # None
    BY <1>1 DEF TInv, Opened
  <2>4. /\ sessions[s].customer = None /\ Own(s) = {}
        /\ artefacts[s]["refused"] = 0 /\ artefacts[s]["assessment"] = 0
    BY <2>2, <2>3 DEF GoodSession, RowShape
  <2>5. artefacts[s]["granted"] = 0
    BY <2>1, <2>2
  <2> QED
    BY <2>4, <2>5 DEF Own
<1>2. IInv /\ TInv => ProspectsApart
  BY <1>1
<1> QED
  BY <1>2, Invariance, TurnInvariance, PTL

\* The passcode that verified a session went to the customer the session is about,
\* who is not sanctioned (otp.py:115-151, kyc.py:68-70).
THEOREM OwnerIsVerified ==
  ASSUME OnlyRetriesOverlap PROVE Spec => []VerifiedOwner
<1>1. ASSUME IInv, TInv PROVE VerifiedOwner
  <2> SUFFICES ASSUME NEW s \in Opened, sessions[s].state \in VerifiedStates
               PROVE  /\ sessions[s].customer \in Customers \ Sanctioned
                      /\ \E i \in DOMAIN challenges :
                           /\ challenges[i].session = s /\ challenges[i].proved
                           /\ challenges[i].customer = sessions[s].customer
    BY DEF VerifiedOwner
  <2>1. s \in Sessions /\ sessions[s] # None /\ GoodSession(s)
    BY <1>1 DEF Opened, TInv
  <2>2. sessions[s].customer \in Customers \ Sanctioned
    BY <2>1 DEF GoodSession, RowShape, VerifiedStates
  <2>3. PICK i \in DOMAIN challenges : challenges[i].session = s /\ challenges[i].proved
    BY <1>1, <2>1 DEF IInv, SecondFactor
  <2>4. challenges[i].customer = sessions[s].customer
    BY <2>1, <2>3 DEF GoodSession, Own
  <2> QED
    BY <2>2, <2>3, <2>4
<1>2. IInv /\ TInv => VerifiedOwner
  BY <1>1
<1> QED
  BY <1>2, Invariance, TurnInvariance, PTL
-----------------------------------------------------------------------------
(* What no step may do *)

\* Only a commit, or the start of a session, writes rows.
LEMMA WhoWrites ==
  ASSUME [Next]_vars
  PROVE  \/ \E p \in Handlers : RecordCall(p)
         \/ \E s \in Sessions : StartSession(s)
         \/ UNCHANGED <<sessions, challenges, artefacts, toolCalls>>
<1>1. ASSUME NEW p \in Handlers,
             Arrive(p) \/ Work(p) \/ Send(p) \/ SuppressDuplicate(p) \/ Return(p) \/ Abort(p)
      PROVE  UNCHANGED <<sessions, challenges, artefacts, toolCalls>>
  <2>1. CASE Arrive(p)
    BY <2>1 DEF Arrive, ReplayCall, RefuseCall, LoadCall
  <2>2. CASE Work(p)
    BY <2>2 DEF Work, VerifyIdentityMatched, VerifyIdentityUnknown, VerifyIdentityFailed,
       VerifyOtpUnchecked, VerifyOtpChecked, ResendOtp, CaptureLead, CheckEligibility,
       RecordConsent, Escalate, Proceed, Stay
  <2>3. CASE Send(p)
    BY <2>3 DEF Send, WriteSession, FlushChallenge, FlushLink, PasscodeDelivered, PasscodeUndelivered,
       LinkEmailed, Stay
  <2>4. CASE SuppressDuplicate(p) \/ Return(p) \/ Abort(p)
    BY <2>4 DEF SuppressDuplicate, Return, Abort, Stay
  <2> QED
    BY <1>1, <2>1, <2>2, <2>3, <2>4
<1>2. CASE Tick \/ UNCHANGED vars
  BY <1>2 DEF Tick, vars
<1> QED
  BY <1>1, <1>2 DEF Next, Finalize

\* The states a handler leads to from the one it loaded.
LEMMA EffectMoves ==
  ASSUME NEW c, c.phase = "ready", Local(c), c.loaded \in SessionRows, c.sess \in SessionRows
  PROVE  \/ c.sess.state = c.loaded.state
         \/ CanMove(c.loaded.state, c.sess.state)
         \/ /\ CanMove(c.loaded.state, "consent_recorded")
            /\ CanMove("consent_recorded", c.sess.state)
<1>1. /\ StateRefusal(c.loaded.state, c.req.tool) = "none"
      /\ Effect(c.req, c.loaded, c.sess, c.verdict, c.guess.ok)
      /\ c.loaded.state \in States
  BY DEF Local, SessionRows
<1>2. c.loaded.state \in LiveStates /\ c.loaded.state \in ExpectedStates[c.req.tool]
  BY <1>1 DEF StateRefusal, LiveStates
<1>3. CASE c.req.tool = "verify_identity"
  <2>1. c.loaded.state = "started"
    BY <1>2, <1>3 DEF ExpectedStates, Tools
  <2>2. c.sess.state \in {"started", "prospect", "identity_matched"}
    BY <1>1, <1>3, <2>1 DEF Effect, SessionRows
  <2> QED
    BY <2>1, <2>2 DEF CanMove, AllowedTransitions, States
<1>4. CASE c.req.tool \in {"verify_otp", "resend_otp"}
  <2>1. c.loaded.state = "identity_matched"
    BY <1>2, <1>4 DEF ExpectedStates, Tools
  <2>2. c.sess.state \in {"identity_matched", "identity_verified"}
    BY <1>1, <1>4, <2>1 DEF Effect, SessionRows
  <2> QED
    BY <2>1, <2>2 DEF CanMove, AllowedTransitions, States
<1>5. CASE c.req.tool = "capture_lead"
  <2>1. c.loaded.state = "prospect"
    BY <1>2, <1>5 DEF ExpectedStates, Tools
  <2>2. c.sess.state = "lead_captured"
    BY <1>1, <1>5 DEF Effect, SessionRows
  <2> QED
    BY <2>1, <2>2 DEF CanMove, AllowedTransitions, States
<1>6. CASE c.req.tool = "check_eligibility"
  <2>1. c.loaded.state = "identity_verified"
    BY <1>2, <1>6 DEF ExpectedStates, Tools
  <2>2. c.sess.state = "eligibility_assessed"
    BY <1>1, <1>6 DEF Effect, SessionRows
  <2> QED
    BY <2>1, <2>2 DEF CanMove, AllowedTransitions, States
<1>7. CASE c.req.tool = "record_consent"
  <2>1. c.loaded.state = "eligibility_assessed"
    BY <1>2, <1>7 DEF ExpectedStates, Tools
  <2>2. c.sess.state \in {"eligibility_assessed", "completed"}
    BY <1>1, <1>7, <2>1 DEF Effect, SessionRows
  <2> QED
    BY <2>1, <2>2 DEF CanMove, AllowedTransitions, States
<1>8. CASE c.req.tool = "escalate"
  <2>1. c.sess.state = "escalated"
    BY <1>1, <1>8 DEF Effect, SessionRows
  <2> QED
    BY <1>2, <2>1, LiveMayEscalate
<1> QED
  BY <1>1, <1>3, <1>4, <1>5, <1>6, <1>7, <1>8 DEF Effect

\* No commit writes to a call that is over (failure-modes.md:10, sessions.py:68-72).
THEOREM ClosedStaysFrozen ==
  ASSUME OnlyRetriesOverlap PROVE Spec => ClosedIsFrozen
<1> DEFINE Frozen == \A s \in Opened : sessions[s].state \in TerminalStates =>
             /\ sessions'[s] = sessions[s]
             /\ toolCalls'[s] = toolCalls[s]
             /\ artefacts'[s] = artefacts[s]
<1>1. ASSUME IInv, LInv, TInv, [Next]_vars PROVE [Frozen]_vars
  <2> SUFFICES ASSUME NEW s \in Opened, sessions[s].state \in TerminalStates
               PROVE  /\ sessions'[s] = sessions[s]
                      /\ toolCalls'[s] = toolCalls[s]
                      /\ artefacts'[s] = artefacts[s]
    OBVIOUS
  <2>0. s \in Sessions /\ sessions[s] # None
    BY DEF Opened
  <2>1. CASE \E p \in Handlers : RecordCall(p)
    <3>1. PICK p \in Handlers : RecordCall(p)
      BY <2>1
    <3>2. Commits(calls[p])
      BY <1>1, <3>1, CommitsCurrent
    <3>3. calls[p].req.session # s
      BY <2>0, <3>2, EffectOK DEF Commits, Current
    <3>4. sessions'[s] = sessions[s] /\ toolCalls'[s] = toolCalls[s]
      BY <2>0, <3>2, <3>3 DEF Commits
    <3>5. artefacts'[s] = artefacts[s]
      BY <1>1, <2>0, <3>1, <3>3 DEF RecordCall, IInv, TypeOK
    <3> QED
      BY <3>4, <3>5
  <2>2. CASE \E t \in Sessions : StartSession(t)
    <3>1. PICK t \in Sessions : StartSession(t)
      BY <2>2
    <3>2. t # s
      BY <2>0, <3>1 DEF StartSession
    <3> QED
      BY <3>1, <3>2 DEF StartSession
  <2> QED
    BY <1>1, <2>1, <2>2, WhoWrites
<1>2. IInv /\ LInv /\ TInv /\ [Next]_vars => [Frozen]_vars
  BY <1>1
<1> QED
  BY <1>2, Invariance, LedgerInvariance, TurnInvariance, PTL DEF Spec, ClosedIsFrozen

\* Sessions move along the edges of the state machine, record_consent along two at
\* once (models.py:64, tools.py:631-633).
THEOREM MovesAreAllowed ==
  ASSUME OnlyRetriesOverlap PROVE Spec => MovesAllowed
<1> DEFINE Moves == \A s \in Opened :
             \/ sessions'[s].state = sessions[s].state
             \/ CanMove(sessions[s].state, sessions'[s].state)
             \/ \E mid \in States : /\ CanMove(sessions[s].state, mid)
                                    /\ CanMove(mid, sessions'[s].state)
                                    /\ mid = "consent_recorded"
<1>1. ASSUME IInv, LInv, TInv, [Next]_vars PROVE [Moves]_vars
  <2> SUFFICES ASSUME NEW s \in Opened
               PROVE  \/ sessions'[s].state = sessions[s].state
                      \/ CanMove(sessions[s].state, sessions'[s].state)
                      \/ \E mid \in States : /\ CanMove(sessions[s].state, mid)
                                             /\ CanMove(mid, sessions'[s].state)
                                             /\ mid = "consent_recorded"
    OBVIOUS
  <2>0. s \in Sessions /\ sessions[s] # None /\ "consent_recorded" \in States
    BY DEF Opened, States
  <2>1. CASE \E p \in Handlers : RecordCall(p)
    <3>1. PICK p \in Handlers : RecordCall(p)
      BY <2>1
    <3>2. Commits(calls[p])
      BY <1>1, <3>1, CommitsCurrent
    <3>3. CASE calls[p].req.session = s
      BY <2>0, <3>2, <3>3, EffectMoves DEF Commits, Current
    <3>4. CASE calls[p].req.session # s
      BY <2>0, <3>2, <3>4 DEF Commits
    <3> QED
      BY <3>3, <3>4
  <2>2. CASE \E t \in Sessions : StartSession(t)
    <3>1. PICK t \in Sessions : StartSession(t)
      BY <2>2
    <3>2. t # s
      BY <2>0, <3>1 DEF StartSession
    <3> QED
      BY <3>1, <3>2 DEF StartSession
  <2> QED
    BY <1>1, <2>1, <2>2, WhoWrites
<1>2. IInv /\ LInv /\ TInv /\ [Next]_vars => [Moves]_vars
  BY <1>1
<1> QED
  BY <1>2, Invariance, LedgerInvariance, TurnInvariance, PTL DEF Spec, MovesAllowed

\* A resend retires every earlier passcode: only the newest is ever accepted
\* (otp.py:137).
THEOREM OldCodesStayDead ==
  ASSUME OnlyRetriesOverlap PROVE Spec => NewestCodeOnly
<1> DEFINE Newest == \A i \in DOMAIN challenges :
             challenges'[i].proved /\ ~challenges[i].proved =>
               \A j \in DOMAIN challenges :
                 challenges[j].session = challenges[i].session => j <= i
<1>1. ASSUME IInv, LInv, TInv, [Next]_vars PROVE [Newest]_vars
  <2> SUFFICES ASSUME NEW i \in DOMAIN challenges,
                      challenges'[i].proved, ~challenges[i].proved,
                      NEW j \in DOMAIN challenges,
                      challenges[j].session = challenges[i].session
               PROVE  j <= i
    OBVIOUS
  <2>1. PICK p \in Handlers : RecordCall(p)
    BY <1>1, WhoWrites DEF StartSession
  <2>2. PICK c : c = calls[p] /\ Commits(c)
    BY <1>1, <2>1, CommitsCurrent
  <2>3. /\ challenges'[i] = UpdatedChallenge(challenges[i], i, c) /\ Current(c)
        /\ challenges[i] \in ChallengeRows /\ i # 0
    BY <1>1, <2>2 DEF Commits, IInv, TypeOK
  <2>4. i = c.guess.id
    BY <2>3 DEF UpdatedChallenge, ChallengeRows
  <2>5. ~challenges[i].consumed
    BY <2>3, <2>4 DEF Current, Compared, Unconsumed
  <2> QED
    BY <1>1, <2>5 DEF TInv, GoodChallenge, Own
<1>2. IInv /\ LInv /\ TInv /\ [Next]_vars => [Newest]_vars
  BY <1>1
<1> QED
  BY <1>2, Invariance, LedgerInvariance, TurnInvariance, PTL DEF Spec, NewestCodeOnly

\* Only verify_challenge compares a passcode, one that has not expired.
LEMMA WhoCompares ==
  ASSUME IInv, [Next]_vars, NEW r \in Handlers,
         calls'[r].guess.id \notin {0, calls[r].guess.id}
  PROVE  calls'[r].guess.id \in DOMAIN challenges /\ ~Expired(calls'[r].guess.id)
<1> DEFINE Same(p) == calls'[p].guess.id \in {0, calls[p].guess.id}
           Fresh(p) == calls'[p].guess.id \in DOMAIN challenges /\ ~Expired(calls'[p].guess.id)
<1>0. \A p \in Handlers : \A c : calls' = [calls EXCEPT ![p] = c] => calls'[p] = c
  BY DEF IInv, TypeOK
<1>1. ASSUME NEW p \in Handlers, NEW q, NEW rep,
             calls' = [calls EXCEPT ![p] = AnsweredCall(q, rep)]
      PROVE  Same(p)
  <2>1. AnsweredCall(q, rep).guess.id = 0
    BY DEF AnsweredCall, IdleCall, NoGuess
  <2> QED
    BY <1>0, <1>1, <2>1
<1>2. ASSUME NEW p \in Handlers, NEW row, NEW adds, NEW outcome, NEW verdict,
             calls' = [calls EXCEPT ![p] = ReadyCall(calls[p], row, adds, outcome, verdict)]
      PROVE  Same(p)
  <2>1. ReadyCall(calls[p], row, adds, outcome, verdict).guess = calls[p].guess
    BY DEF ReadyCall, IInv, TypeOK, CallRecords
  <2> QED
    BY <1>0, <1>2, <2>1
<1>3. ASSUME NEW p \in Handlers, NEW row, NEW cust, NEW prev,
             calls' = [calls EXCEPT ![p] = Issuing(p, row, cust, prev)]
      PROVE  Same(p)
  <2>1. Issuing(p, row, cust, prev).guess = calls[p].guess
    BY DEF Issuing, IInv, TypeOK, CallRecords
  <2> QED
    BY <1>0, <1>3, <2>1
<1>4. ASSUME NEW p \in Handlers, Arrive(p) PROVE Same(p)
  <2>1. PICK q : ReplayCall(p, q) \/ RefuseCall(p, q) \/ LoadCall(p, q)
    BY <1>4 DEF Arrive
  <2>2. CASE LoadCall(p, q)
    <3>1. calls' = [calls EXCEPT ![p] = LoadedCall(q, sessions[q.session])]
      BY <2>2 DEF LoadCall
    <3>2. LoadedCall(q, sessions[q.session]).guess.id = 0
      BY DEF LoadedCall, IdleCall, NoGuess
    <3> QED
      BY <1>0, <3>1, <3>2
  <2>3. CASE ReplayCall(p, q) \/ RefuseCall(p, q)
    <3>1. PICK rep : calls' = [calls EXCEPT ![p] = AnsweredCall(q, rep)]
      BY <2>3 DEF ReplayCall, RefuseCall
    <3> QED
      BY <1>1, <3>1
  <2> QED
    BY <2>1, <2>2, <2>3
<1>5. ASSUME NEW p \in Handlers, VerifyIdentityMatched(p) PROVE Same(p)
  <2>1. \/ \E q, rep : calls' = [calls EXCEPT ![p] = AnsweredCall(q, rep)]
        \/ \E row, stop : calls' = [calls EXCEPT ![p] = ReadyCall(calls[p], row, {}, "blocked", stop)]
        \/ \E row, cust, prev : calls' = [calls EXCEPT ![p] = Issuing(p, row, cust, prev)]
    BY <1>5 DEF VerifyIdentityMatched, Proceed
  <2> QED
    BY <1>1, <1>2, <1>3, <2>1
<1>6. ASSUME NEW p \in Handlers,
             VerifyIdentityUnknown(p) \/ VerifyIdentityFailed(p) \/ CheckEligibility(p)
               \/ RecordConsent(p) \/ Escalate(p)
      PROVE  Same(p)
  <2>1. \/ \E q, rep : calls' = [calls EXCEPT ![p] = AnsweredCall(q, rep)]
        \/ \E row, adds, outcome, verdict :
             calls' = [calls EXCEPT ![p] = ReadyCall(calls[p], row, adds, outcome, verdict)]
    <3>1. CASE VerifyIdentityUnknown(p)
      BY <3>1 DEF VerifyIdentityUnknown, Proceed
    <3>2. CASE VerifyIdentityFailed(p)
      BY <3>2 DEF VerifyIdentityFailed, Stay
    <3>3. CASE CheckEligibility(p)
      BY <3>3 DEF CheckEligibility, Proceed
    <3>4. CASE RecordConsent(p)
      BY <3>4 DEF RecordConsent, Proceed, Stay
    <3>5. CASE Escalate(p)
      BY <3>5 DEF Escalate, Proceed
    <3> QED
      BY <1>6, <3>1, <3>2, <3>3, <3>4, <3>5
  <2> QED
    BY <1>1, <1>2, <2>1
<1>7. ASSUME NEW p \in Handlers, VerifyOtpUnchecked(p) PROVE Same(p)
  <2>1. PICK outcome, verdict :
          calls' = [calls EXCEPT ![p] = ReadyCall(calls[p], calls[p].sess, {}, outcome, verdict)]
    BY <1>7 DEF VerifyOtpUnchecked, Stay
  <2> QED
    BY <1>2, <2>1
<1>8. ASSUME NEW p \in Handlers, VerifyOtpChecked(p) PROVE Same(p) \/ Fresh(p)
  <2>1. PICK i \in DOMAIN challenges :
          LET tries == challenges[i].attempts + 1
              hit   == calls[p].req.code = i
              row   == [calls[p].sess EXCEPT !.state = "identity_verified"]
              try   == [calls[p] EXCEPT !.guess = [id |-> i, attempts |-> tries, ok |-> hit]]
          IN /\ ~Expired(i)
             /\ IF hit
                THEN Proceed(p, row.state, ReadyCall(try, row, {}, "ok", "ok"))
                ELSE IF tries >= MaxVerifyAttempts
                THEN Stay(p, ReadyCall(try, calls[p].sess, {}, "blocked", "attempts_exhausted"))
                ELSE Stay(p, ReadyCall(try, calls[p].sess, {}, "retry", "wrong_code"))
    BY <1>8 DEF VerifyOtpChecked
  <2> DEFINE g == [id |-> i, attempts |-> challenges[i].attempts + 1, ok |-> calls[p].req.code = i]
             try == [calls[p] EXCEPT !.guess = g]
  <2>2. try.guess = g /\ g.id = i
    BY DEF IInv, TypeOK, CallRecords
  <2>3. \A row, adds, outcome, verdict :
          ReadyCall(try, row, adds, outcome, verdict).guess = g
    BY <2>2 DEF ReadyCall, IInv, TypeOK, CallRecords
  <2>4. \/ \E q, rep : calls' = [calls EXCEPT ![p] = AnsweredCall(q, rep)]
        \/ \E row, outcome, verdict :
             calls' = [calls EXCEPT ![p] = ReadyCall(try, row, {}, outcome, verdict)]
    BY <2>1 DEF Proceed, Stay
  <2> HIDE DEF g, try
  <2> QED
    BY <1>0, <1>1, <2>1, <2>2, <2>3, <2>4
<1>9. ASSUME NEW p \in Handlers, ResendOtp(p) PROVE Same(p)
  <2>1. \/ \E stop : calls' = [calls EXCEPT ![p] =
                                 ReadyCall(calls[p], calls[p].sess, {}, "blocked", stop)]
        \/ \E row, cust, prev : calls' = [calls EXCEPT ![p] = Issuing(p, row, cust, prev)]
    BY <1>9 DEF ResendOtp, Stay
  <2> QED
    BY <1>2, <1>3, <2>1
<1>10. ASSUME NEW p \in Handlers, CaptureLead(p) PROVE Same(p)
  <2> DEFINE c == [calls[p] EXCEPT !.phase = "staged", !.adds = {"lead", "link"},
                    !.sess = [calls[p].sess EXCEPT !.state = "lead_captured"]]
  <2>1. \/ \E q, rep : calls' = [calls EXCEPT ![p] = AnsweredCall(q, rep)]
        \/ calls' = [calls EXCEPT ![p] = c]
    BY <1>10 DEF CaptureLead, Proceed
  <2>2. c.guess = calls[p].guess
    BY DEF IInv, TypeOK, CallRecords
  <2> HIDE DEF c
  <2>3. CASE calls' = [calls EXCEPT ![p] = c]
    BY <1>0, <2>2, <2>3
  <2> QED
    BY <1>1, <2>1, <2>3
<1>11. ASSUME NEW p \in Handlers, Send(p) PROVE Same(p)
  <2>1. CASE FlushChallenge(p)
    <3> DEFINE f == [calls[p] EXCEPT !.newId = lastId + 1, !.newAt = now,
                                     !.written = WritesSession(calls[p])]
               c == IF calls[p].issue \in Addressed THEN [f EXCEPT !.phase = "sending"]
                    ELSE ReadyCall(f, calls[p].sess, {}, "error", "delivery_failed")
    <3>1. calls' = [calls EXCEPT ![p] = c]
      BY <2>1 DEF FlushChallenge
    <3>2. c.guess = calls[p].guess
      BY DEF ReadyCall, IInv, TypeOK, CallRecords
    <3> HIDE DEF c
    <3> QED
      BY <1>0, <3>1, <3>2
  <2>2. CASE FlushLink(p)
    <3>1. PICK d : /\ d = [calls[p] EXCEPT !.phase = "sending",
                                            !.written = WritesSession(calls[p])]
                   /\ calls' = [calls EXCEPT ![p] = d]
      BY <2>2 DEF FlushLink, Stay
    <3>2. d.guess = calls[p].guess
      BY <3>1 DEF IInv, TypeOK, CallRecords
    <3> QED
      BY <1>0, <3>1, <3>2
  <2>3. CASE PasscodeDelivered(p) \/ PasscodeUndelivered(p) \/ LinkEmailed(p)
    <3>1. PICK row, adds, outcome, verdict :
            calls' = [calls EXCEPT ![p] = ReadyCall(calls[p], row, adds, outcome, verdict)]
      BY <2>3 DEF PasscodeDelivered, PasscodeUndelivered, LinkEmailed, Stay
    <3> QED
      BY <1>2, <3>1
  <2>4. CASE WriteSession(p)
    <3>1. calls' = [calls EXCEPT ![p] = Written(calls[p])]
      BY <2>4 DEF WriteSession, Stay
    <3>2. Written(calls[p]).guess = calls[p].guess
      BY WrittenOK DEF IInv, TypeOK
    <3> QED
      BY <1>0, <3>1, <3>2
  <2> QED
    BY <1>11, <2>1, <2>2, <2>3, <2>4 DEF Send
<1>12. ASSUME NEW p \in Handlers, Finalize(p) \/ Return(p) \/ Abort(p) PROVE Same(p)
  <2>1. \/ \E q, rep : calls' = [calls EXCEPT ![p] = AnsweredCall(q, rep)]
        \/ calls' = [calls EXCEPT ![p] = IdleCall]
    BY <1>12 DEF Finalize, RecordCall, SuppressDuplicate, Return, Abort, Stay
  <2>2. IdleCall.guess.id = 0
    BY DEF IdleCall, NoGuess
  <2> QED
    BY <1>0, <1>1, <2>1, <2>2
<1>13. ASSUME NEW p \in Handlers, Arrive(p) \/ Work(p) \/ Send(p) \/ Finalize(p)
                                   \/ Return(p) \/ Abort(p)
       PROVE  Same(p) \/ Fresh(p)
  BY <1>4, <1>5, <1>6, <1>7, <1>8, <1>9, <1>10, <1>11, <1>12, <1>13 DEF Work
<1>14. PICK p \in Handlers : Arrive(p) \/ Work(p) \/ Send(p) \/ Finalize(p)
                              \/ Return(p) \/ Abort(p)
  BY DEF Next, StartSession, Tick, vars
<1>15. \E c : calls' = [calls EXCEPT ![p] = c]
  BY <1>14 DEF Arrive, ReplayCall, RefuseCall, LoadCall, Work, VerifyIdentityMatched,
     VerifyIdentityUnknown, VerifyIdentityFailed, VerifyOtpUnchecked, VerifyOtpChecked,
     ResendOtp, CaptureLead, CheckEligibility, RecordConsent, Escalate, Proceed, Stay,
     Send, WriteSession, FlushChallenge, FlushLink, PasscodeDelivered, PasscodeUndelivered,
     LinkEmailed, Finalize, RecordCall, SuppressDuplicate, Return, Abort
<1>16. r = p
  BY <1>15 DEF IInv, TypeOK
<1> QED
  BY <1>13, <1>14, <1>16

\* A passcode is compared only while it is valid, however long the request took
\* (otp.py:198-208).
THEOREM ExpiredCodesAreDead ==
  ASSUME OnlyRetriesOverlap PROVE Spec => CodesExpire
<1> DEFINE InTime == \A p \in Handlers :
             LET i == calls'[p].guess.id
             IN i \notin {0, calls[p].guess.id} => now - challenges[i].created \in 0..CodeTtl
<1>1. ASSUME IInv, TInv, [Next]_vars PROVE [InTime]_vars
  <2> SUFFICES ASSUME NEW p \in Handlers, calls'[p].guess.id \notin {0, calls[p].guess.id}
               PROVE  now - challenges[calls'[p].guess.id].created \in 0..CodeTtl
    OBVIOUS
  <2>1. PICK i : i = calls'[p].guess.id
    OBVIOUS
  <2>2. i \in DOMAIN challenges /\ ~Expired(i)
    BY <1>1, <2>1, WhoCompares
  <2>3. /\ challenges[i] \in ChallengeRows /\ now \in Nat /\ CodeTtl \in Nat
        /\ challenges[i].expires = challenges[i].created + CodeTtl
        /\ challenges[i].created <= now
    BY <1>1, <2>2, ServiceAssumption DEF IInv, TypeOK, TInv, GoodChallenge
  <2>4. now - challenges[i].created \in 0..CodeTtl
    BY <2>2, <2>3 DEF Expired, ChallengeRows
  <2> QED
    BY <2>1, <2>4
<1>2. IInv /\ TInv /\ [Next]_vars => [InTime]_vars
  BY <1>1
<1> QED
  BY <1>2, Invariance, TurnInvariance, PTL DEF Spec, CodesExpire

\* A resend and a check of one session are no retries of one another.
NoDeadlock == \A p \in Handlers : ~Deadlocked(p)

\* As long as only retries overlap no two requests wait for each other, and nothing
\* is left for PostgreSQL to break (tools.py:193-407).
THEOREM RetriesNeverDeadlock ==
  ASSUME OnlyRetriesOverlap PROVE Spec => []NoDeadlock
<1>1. IInv /\ TInv /\ PairsAreResends => NoDeadlock
  <2> SUFFICES ASSUME IInv, TInv, PairsAreResends, NEW p \in Handlers, NEW r \in Handlers,
                      WaitsFor(p, r), WaitsFor(r, p)
               PROVE  FALSE
    BY DEF NoDeadlock, Deadlocked
  <2>1. /\ calls[p].req.session = calls[r].req.session
        /\ calls[p].req.tool # calls[r].req.tool
    BY DEF PairsAreResends, ResendAndCheck
  <2>2. p # r /\ calls[p].phase \in InFlightPhases /\ calls[r].phase \in InFlightPhases
    BY DEF WaitsFor
  <2> QED
    BY <2>1, <2>2 DEF TInv, Retries
<1> QED
  BY <1>1, Invariance, WaitingEnds, TurnInvariance, PTL
=============================================================================
