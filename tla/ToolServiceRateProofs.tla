------------------------ MODULE ToolServiceRateProofs ------------------------
(***************************************************************************)
(* The rate limit of the passcodes on record over all calls of a customer, *)
(* for all values of the constants, where the platform lets at most one    *)
(* request that issues passcodes be in progress at a time: the window is   *)
(* counted before the passcode is sent and the row committed later, so the *)
(* count must not move in between.  What is bounded is the rows the code   *)
(* counts: a passcode that was sent by a request that was then rolled back *)
(* leaves none, and nothing bounds how many of those a customer gets.      *)
(*                                                                         *)
(* The argument: from the count to the commit a request keeps a moment t   *)
(* such that fewer passcodes than the limit were created since t minus the *)
(* window.  Its own passcode is created at t or later, so any window that  *)
(* holds it holds no others.                                               *)
(*                                                                         *)
(* Without that, the limit can be passed, and the second part proves by    *)
(* how much: when a request finds room, the window holds fewer than the    *)
(* limit and only the other handlers can be on their way into it.  So the  *)
(* two together never reach the limit and the number of handlers together. *)
(***************************************************************************)
EXTENDS ToolServiceTurnProofs

OneIssuer == Overlap \in {"never", "one_issuer"}

\* The passcodes of a customer in one window, and since one window before t.
Window(cust, t) ==
  {i \in DOMAIN challenges : /\ challenges[i].customer = cust
                             /\ challenges[i].created \in t..(t + RateWindow)}
Since(cust, t) ==
  {i \in DOMAIN challenges : /\ challenges[i].customer = cust
                             /\ challenges[i].created >= t - RateWindow}

\* There is room for the passcode the request is about to add.
Room(c) ==
  \E t \in Nat : /\ t <= now
                 /\ c.newId # 0 => t <= c.newAt
                 /\ Cardinality(Since(c.issue, t)) < MaxPerWindow

RInv ==
  /\ \A p \in Handlers :
       calls[p].phase \in InFlightPhases /\ calls[p].issue # None => Room(calls[p])
  /\ \A p, r \in Handlers :
       /\ p # r /\ calls[p].phase \in InFlightPhases /\ calls[r].phase \in InFlightPhases
       => ~(Issues(calls[p].req) /\ Issues(calls[r].req))
  /\ \A cust \in Customers, t \in Nat : Cardinality(Window(cust, t)) <= MaxPerWindow

USE DEF Issues, OneIssuer, InFlightPhases
-----------------------------------------------------------------------------
(* How a request goes on *)

\* A request that goes on keeps its passcode, gives it an id now, or has just
\* counted the window of the customer it is for.
GoesOn(d, c) ==
  c.phase \in InFlightPhases =>
    /\ d.phase \in InFlightPhases /\ c.req = d.req
    /\ \/ c.issue = d.issue /\ c.newId = d.newId /\ c.newAt = d.newAt
       \/ c.issue = d.issue /\ d.newId = 0 /\ c.newId # 0 /\ c.newAt = now
       \/ d.newId = 0 /\ c.newId = 0 /\ RecentCount(c.issue) < MaxPerWindow

Steps(p) == \E c : calls' = [calls EXCEPT ![p] = c] /\ GoesOn(calls[p], c)

LEMMA OverStep ==
  ASSUME NEW p, NEW q, NEW rep, calls' = [calls EXCEPT ![p] = AnsweredCall(q, rep)]
  PROVE  Steps(p)
<1>1. AnsweredCall(q, rep).phase = "answered"
  BY DEF AnsweredCall, IdleCall
<1>2. GoesOn(calls[p], AnsweredCall(q, rep))
  BY <1>1 DEF GoesOn
<1> QED
  BY <1>2 DEF Steps

LEMMA BuiltStep ==
  ASSUME NEW p, NEW b \in CallRecords, calls[p].phase \in InFlightPhases,
         b.req = calls[p].req, b.issue = calls[p].issue,
         \/ b.newId = calls[p].newId /\ b.newAt = calls[p].newAt
         \/ calls[p].newId = 0 /\ b.newId # 0 /\ b.newAt = now,
         NEW row, NEW adds, NEW outcome, NEW verdict,
         calls' = [calls EXCEPT ![p] = ReadyCall(b, row, adds, outcome, verdict)]
  PROVE  Steps(p)
<1> DEFINE c == ReadyCall(b, row, adds, outcome, verdict)
<1>1. c.req = b.req /\ c.issue = b.issue /\ c.newId = b.newId /\ c.newAt = b.newAt
  BY DEF ReadyCall, CallRecords
<1>2. GoesOn(calls[p], c)
  BY <1>1 DEF GoesOn
<1> QED
  BY <1>2 DEF Steps

LEMMA IssuingStep ==
  ASSUME NEW p, calls[p] \in CallRecords, calls[p].phase \in InFlightPhases,
         calls[p].newId = 0, NEW row, NEW cust, NEW prev,
         IssueLimit(row, cust, FALSE) = "none" \/ IssueLimit(row, cust, TRUE) = "none",
         RecentCount(cust) \in Nat,
         calls' = [calls EXCEPT ![p] = Issuing(p, row, cust, prev)]
  PROVE  Steps(p)
<1> DEFINE c == Issuing(p, row, cust, prev)
<1>1. c.req = calls[p].req /\ c.issue = cust /\ c.newId = 0
  BY DEF Issuing, CallRecords
<1>2. RecentCount(cust) < MaxPerWindow
  <2>1. ~(RecentCount(cust) >= MaxPerWindow)
    BY DEF IssueLimit
  <2> QED
    BY <2>1, ServiceAssumption
<1>3. GoesOn(calls[p], c)
  BY <1>1, <1>2 DEF GoesOn
<1> QED
  BY <1>3 DEF Steps

\* The passcodes are finitely many.
LEMMA FewCodes ==
  ASSUME TypeOK, NEW S, S \subseteq DOMAIN challenges
  PROVE  IsFiniteSet(S) /\ Cardinality(S) \in Nat
<1>1. IsFiniteSet(1..lastId) /\ S \subseteq 1..lastId
  BY FS_Interval DEF TypeOK
<1>2. IsFiniteSet(S)
  BY <1>1, FS_Subset
<1> QED
  BY <1>2, FS_CardinalityType

LEMMA WorkGoesOn ==
  ASSUME IInv, NEW p \in Handlers, Work(p)
  PROVE  Steps(p)
<1> DEFINE d == calls[p]
<1>1. /\ d \in CallRecords /\ d.phase \in InFlightPhases /\ d.newId = 0
  <2>1. \E t \in Tools : Working(p, t)
    BY DEF Work, VerifyIdentityMatched, VerifyIdentityUnknown, VerifyIdentityFailed,
       VerifyOtpUnchecked, VerifyOtpChecked, ResendOtp, CaptureLead, CheckEligibility,
       RecordConsent, Escalate, Tools
  <2> QED
    BY <2>1 DEF Working, IInv, TypeOK, GoodCall
<1>2. \A cust : RecentCount(cust) \in Nat
  BY FewCodes DEF RecentCount, IInv
<1>3. CASE VerifyIdentityMatched(p)
  <2> DEFINE cust == d.req.claim.pan
             row  == [d.sess EXCEPT !.customer = cust, !.state = "identity_matched"]
             stop == IssueLimit(row, cust, FALSE)
  <2>1. \/ \E q, rep : calls' = [calls EXCEPT ![p] = AnsweredCall(q, rep)]
        \/ calls' = [calls EXCEPT ![p] = ReadyCall(d, row, {}, "blocked", stop)]
        \/ /\ stop = "none"
           /\ \E prev : calls' = [calls EXCEPT ![p] = Issuing(p, row, cust, prev)]
    BY <1>3 DEF VerifyIdentityMatched, Proceed
  <2> HIDE DEF row
  <2> QED
    BY <1>1, <1>2, <2>1, OverStep, BuiltStep, IssuingStep
<1>4. CASE ResendOtp(p)
  <2> DEFINE stop == IssueLimit(d.sess, d.sess.customer, TRUE)
  <2>1. \/ calls' = [calls EXCEPT ![p] = ReadyCall(d, d.sess, {}, "blocked", stop)]
        \/ /\ stop = "none"
           /\ \E prev : calls' = [calls EXCEPT ![p] = Issuing(p, d.sess, d.sess.customer, prev)]
    BY <1>4 DEF ResendOtp, Stay
  <2> DEFINE row == d.sess
             cust == d.sess.customer
  <2>2. PICK r, k : r = row /\ k = cust
    OBVIOUS
  <2>3. \/ calls' = [calls EXCEPT ![p] = ReadyCall(calls[p], r, {}, "blocked", stop)]
        \/ /\ IssueLimit(r, k, TRUE) = "none"
           /\ \E prev : calls' = [calls EXCEPT ![p] = Issuing(p, r, k, prev)]
    BY <2>1, <2>2
  <2> HIDE DEF stop, row, cust
  <2>4. CASE calls' = [calls EXCEPT ![p] = ReadyCall(calls[p], r, {}, "blocked", stop)]
    BY <1>1, <2>4, BuiltStep
  <2>5. CASE /\ IssueLimit(r, k, TRUE) = "none"
             /\ \E prev : calls' = [calls EXCEPT ![p] = Issuing(p, r, k, prev)]
    BY <1>1, <1>2, <2>5, IssuingStep
  <2> QED
    BY <2>3, <2>4, <2>5
<1>5. CASE VerifyIdentityUnknown(p) \/ VerifyIdentityFailed(p) \/ VerifyOtpUnchecked(p)
             \/ CheckEligibility(p) \/ RecordConsent(p) \/ Escalate(p)
  <2>1. \/ \E q, rep : calls' = [calls EXCEPT ![p] = AnsweredCall(q, rep)]
        \/ \E row, adds, outcome, verdict :
             calls' = [calls EXCEPT ![p] = ReadyCall(d, row, adds, outcome, verdict)]
    <3>1. CASE VerifyIdentityUnknown(p)
      BY <3>1 DEF VerifyIdentityUnknown, Proceed
    <3>2. CASE VerifyIdentityFailed(p)
      BY <3>2 DEF VerifyIdentityFailed, Stay
    <3>3. CASE VerifyOtpUnchecked(p)
      BY <3>3 DEF VerifyOtpUnchecked, Stay
    <3>4. CASE CheckEligibility(p)
      BY <3>4 DEF CheckEligibility, Proceed
    <3>5. CASE RecordConsent(p)
      BY <3>5 DEF RecordConsent, Proceed, Stay
    <3>6. CASE Escalate(p)
      BY <3>6 DEF Escalate, Proceed
    <3> QED
      BY <1>5, <3>1, <3>2, <3>3, <3>4, <3>5, <3>6
  <2> QED
    BY <1>1, <2>1, OverStep, BuiltStep
<1>6. CASE VerifyOtpChecked(p)
  <2>1. PICK i \in DOMAIN challenges :
          LET tries == challenges[i].attempts + 1
              hit   == d.req.code = i
              row   == [d.sess EXCEPT !.state = "identity_verified"]
              try   == [d EXCEPT !.guess = [id |-> i, attempts |-> tries, ok |-> hit]]
          IN IF hit
             THEN Proceed(p, row.state, ReadyCall(try, row, {}, "ok", "ok"))
             ELSE IF tries >= MaxVerifyAttempts
             THEN Stay(p, ReadyCall(try, d.sess, {}, "blocked", "attempts_exhausted"))
             ELSE Stay(p, ReadyCall(try, d.sess, {}, "retry", "wrong_code"))
    BY <1>6 DEF VerifyOtpChecked
  <2> DEFINE tries == challenges[i].attempts + 1
             hit   == d.req.code = i
             try   == [d EXCEPT !.guess = [id |-> i, attempts |-> tries, ok |-> hit]]
  <2>2. /\ try \in CallRecords /\ try.req = d.req /\ try.issue = d.issue
        /\ try.newId = d.newId /\ try.newAt = d.newAt
    <3>1. challenges[i].attempts \in Nat /\ i \in Nat
      BY DEF IInv, TypeOK, ChallengeRows
    <3>2. [id |-> i, attempts |-> tries, ok |-> hit] \in Guesses
      BY <3>1 DEF Guesses
    <3> HIDE DEF tries, hit
    <3> QED
      BY <1>1, <3>2 DEF CallRecords
  <2>3. \/ \E q, rep : calls' = [calls EXCEPT ![p] = AnsweredCall(q, rep)]
        \/ \E row, outcome, verdict :
             calls' = [calls EXCEPT ![p] = ReadyCall(try, row, {}, outcome, verdict)]
    BY <2>1 DEF Proceed, Stay
  <2> HIDE DEF try
  <2> QED
    BY <1>1, <2>2, <2>3, OverStep, BuiltStep
<1>7. CASE CaptureLead(p)
  <2> DEFINE c == [d EXCEPT !.phase = "staged", !.adds = {"lead", "link"},
                            !.sess = [d.sess EXCEPT !.state = "lead_captured"]]
  <2>1. \/ \E q, rep : calls' = [calls EXCEPT ![p] = AnsweredCall(q, rep)]
        \/ calls' = [calls EXCEPT ![p] = c]
    BY <1>7 DEF CaptureLead, Proceed
  <2>2. c.req = d.req /\ c.issue = d.issue /\ c.newId = d.newId /\ c.newAt = d.newAt
    BY <1>1 DEF CallRecords
  <2> HIDE DEF c
  <2>3. GoesOn(calls[p], c)
    BY <1>1, <2>2 DEF GoesOn
  <2> QED
    BY <2>1, <2>3, OverStep DEF Steps
<1> QED
  BY <1>3, <1>4, <1>5, <1>6, <1>7 DEF Work

LEMMA SendGoesOn ==
  ASSUME IInv, NEW p \in Handlers, Send(p)
  PROVE  Steps(p)
<1> DEFINE d == calls[p]
<1>1. d \in CallRecords /\ lastId \in Nat /\ now \in Nat
  BY DEF IInv, TypeOK
<1>2. CASE FlushChallenge(p)
  <2> DEFINE f == Numbered(d, lastId + 1, now)
             c == [f EXCEPT !.phase = "sending"]
  <2>1. /\ d.phase \in InFlightPhases /\ d.newId = 0
        /\ calls' = [calls EXCEPT ![p] =
             IF d.issue \in Addressed THEN c
             ELSE ReadyCall(f, d.sess, {}, "error", "delivery_failed")]
    BY <1>2 DEF FlushChallenge, Numbered, IInv, GoodCall
  <2>2. /\ f \in CallRecords /\ f.req = d.req /\ f.issue = d.issue
        /\ f.newId # 0 /\ f.newAt = now
    <3>1. PICK m \in Nat, n \in Nat : m = lastId + 1 /\ n = now
      BY <1>1
    <3>2. f = Numbered(d, m, n)
      BY <3>1
    <3> HIDE DEF f
    <3>3. /\ f \in CallRecords /\ f.req = d.req /\ f.issue = d.issue /\ f.newId = m
      BY <1>1, <3>2, NumberedCallOK
    <3>4. f.newAt = n
      BY <1>1, <3>2 DEF Numbered, CallRecords
    <3> QED
      BY <1>1, <3>1, <3>3, <3>4
  <2>3. c.req = f.req /\ c.issue = f.issue /\ c.newId = f.newId /\ c.newAt = f.newAt
    <3> HIDE DEF f
    <3> QED
      BY <2>2 DEF CallRecords
  <2> HIDE DEF c, f
  <2>4. GoesOn(calls[p], c)
    BY <2>1, <2>2, <2>3 DEF GoesOn
  <2>5. CASE d.issue \in Addressed
    BY <2>1, <2>4, <2>5 DEF Steps
  <2>6. CASE d.issue \notin Addressed
    <3>1. PICK b \in CallRecords : b = f
      BY <2>2
    <3>2. calls' = [calls EXCEPT ![p] = ReadyCall(b, d.sess, {}, "error", "delivery_failed")]
      BY <2>1, <2>6, <3>1
    <3>3. /\ calls[p].phase \in InFlightPhases
          /\ b.req = calls[p].req /\ b.issue = calls[p].issue
          /\ calls[p].newId = 0 /\ b.newId # 0 /\ b.newAt = now
      BY <2>1, <2>2, <3>1
    <3>4. PICK row : calls' = [calls EXCEPT ![p] =
                                 ReadyCall(b, row, {}, "error", "delivery_failed")]
      BY <3>2
    <3> QED
      BY <3>3, <3>4, BuiltStep
  <2> QED
    BY <2>5, <2>6
<1>3. CASE FlushLink(p)
  <2> DEFINE c == [d EXCEPT !.phase = "sending", !.written = WritesSession(d)]
  <2>1. d.phase \in InFlightPhases /\ calls' = [calls EXCEPT ![p] = c]
    BY <1>3 DEF FlushLink, Stay
  <2>2. c.req = d.req /\ c.issue = d.issue /\ c.newId = d.newId /\ c.newAt = d.newAt
    BY <1>1 DEF CallRecords
  <2> HIDE DEF c
  <2>3. GoesOn(calls[p], c)
    BY <2>1, <2>2 DEF GoesOn
  <2> QED
    BY <2>1, <2>3 DEF Steps
<1>4. CASE PasscodeDelivered(p) \/ PasscodeUndelivered(p) \/ LinkEmailed(p)
  <2>1. d.phase \in InFlightPhases
    BY <1>4 DEF PasscodeDelivered, PasscodeUndelivered, LinkEmailed
  <2>2. PICK row, adds, outcome, verdict :
          calls' = [calls EXCEPT ![p] = ReadyCall(calls[p], row, adds, outcome, verdict)]
    BY <1>4 DEF PasscodeDelivered, PasscodeUndelivered, LinkEmailed, Stay
  <2> QED
    BY <1>1, <2>1, <2>2, BuiltStep
<1>5. CASE WriteSession(p)
  <2>1. PICK c : c = Written(d) /\ calls' = [calls EXCEPT ![p] = c]
    BY <1>5 DEF WriteSession, Stay
  <2>2. d.phase \in InFlightPhases
    BY <1>5 DEF WriteSession
  <2>3. c.req = d.req /\ c.issue = d.issue /\ c.newId = d.newId /\ c.newAt = d.newAt
    BY <1>1, <2>1, WrittenOK
  <2>4. GoesOn(calls[p], c)
    BY <2>2, <2>3 DEF GoesOn
  <2> QED
    BY <2>1, <2>4 DEF Steps
<1> QED
  BY <1>2, <1>3, <1>4, <1>5 DEF Send

LEMMA EndGoesOn ==
  ASSUME NEW p \in Handlers, Finalize(p) \/ Return(p) \/ Abort(p)
  PROVE  Steps(p)
<1>1. \/ \E q, rep : calls' = [calls EXCEPT ![p] = AnsweredCall(q, rep)]
      \/ calls' = [calls EXCEPT ![p] = IdleCall]
  BY DEF Finalize, RecordCall, SuppressDuplicate, Return, Abort, Stay
<1>2. GoesOn(calls[p], IdleCall)
  BY DEF GoesOn, IdleCall
<1> QED
  BY <1>1, <1>2, OverStep DEF Steps
-----------------------------------------------------------------------------
(* Steps that change one request and add no passcode *)

LEMMA RoomAfter ==
  ASSUME IInv, NEW d, NEW c, GoesOn(d, c), c.phase \in InFlightPhases, c.issue # None,
         d.issue # None => Room(d)
  PROVE  Room(c)
<1>1. now \in Nat
  BY DEF IInv, TypeOK
<1>2. CASE c.issue = d.issue /\ c.newId = d.newId /\ c.newAt = d.newAt
  BY <1>2 DEF Room
<1>3. CASE c.issue = d.issue /\ d.newId = 0 /\ c.newId # 0 /\ c.newAt = now
  BY <1>3 DEF Room
<1>4. CASE d.newId = 0 /\ c.newId = 0 /\ RecentCount(c.issue) < MaxPerWindow
  <2>1. Since(c.issue, now) = {i \in DOMAIN challenges :
                                 /\ challenges[i].customer = c.issue
                                 /\ challenges[i].created >= now - RateWindow}
    BY DEF Since
  <2>2. Cardinality(Since(c.issue, now)) < MaxPerWindow
    BY <1>4, <2>1 DEF RecentCount
  <2> QED
    BY <1>1, <1>4, <2>2 DEF Room
<1> QED
  BY <1>2, <1>3, <1>4 DEF GoesOn

\* What RInv says of one request depends on the passcodes and the clock only.
LEMMA SameRoom ==
  ASSUME UNCHANGED <<challenges, now>>
  PROVE  /\ \A c : Room(c) => Room(c)'
         /\ \A cust, t : Window(cust, t)' = Window(cust, t)
<1>1. \A cust, t : Since(cust, t)' = Since(cust, t)
  BY DEF Since
<1>2. \A cust, t : Window(cust, t)' = Window(cust, t)
  BY DEF Window
<1>3. ASSUME NEW c, Room(c) PROVE Room(c)'
  BY <1>1, <1>3 DEF Room
<1> QED
  BY <1>2, <1>3

LEMMA RCallStep ==
  ASSUME IInv, RInv, NEW p \in Handlers, NEW c,
         calls' = [calls EXCEPT ![p] = c],
         UNCHANGED <<challenges, now>>,
         c.phase \in InFlightPhases /\ c.issue # None => Room(c),
         c.phase \in InFlightPhases =>
           \/ calls[p].phase \in InFlightPhases /\ c.req = calls[p].req
           \/ \A r \in Handlers \ {p} :
                ~(calls[r].phase \in InFlightPhases /\ Issues(c.req) /\ Issues(calls[r].req))
  PROVE  RInv'
<1>1. \A r \in Handlers : calls'[r] = IF r = p THEN c ELSE calls[r]
  BY DEF IInv, TypeOK
<1>2. ASSUME NEW r \in Handlers,
             (calls[r].phase \in InFlightPhases /\ calls[r].issue # None)'
      PROVE  Room(calls[r])'
  <2>1. PICK d : d = calls'[r]
    OBVIOUS
  <2>2. Room(d)
    BY <1>1, <1>2, <2>1 DEF RInv
  <2>3. Room(d)'
    BY <2>2, SameRoom
  <2> QED
    BY <2>1, <2>3 DEF Room
<1>3. ASSUME NEW r \in Handlers, NEW q \in Handlers, r # q,
             (calls[r].phase \in InFlightPhases /\ calls[q].phase \in InFlightPhases)'
      PROVE  ~(Issues(calls[r].req) /\ Issues(calls[q].req))'
  BY <1>1, <1>3 DEF RInv
<1>4. \A cust \in Customers, t \in Nat : (Cardinality(Window(cust, t)) <= MaxPerWindow)'
  BY SameRoom DEF RInv
<1> QED
  BY <1>2, <1>3, <1>4 DEF RInv

LEMMA StepsKeepRoom ==
  ASSUME IInv, RInv, NEW p \in Handlers, Steps(p), UNCHANGED <<challenges, now>>
  PROVE  RInv'
<1>1. PICK c : calls' = [calls EXCEPT ![p] = c] /\ GoesOn(calls[p], c)
  BY DEF Steps
<1>2. PICK d : d = calls[p]
  OBVIOUS
<1>3. c.phase \in InFlightPhases => d.phase \in InFlightPhases /\ c.req = d.req
  BY <1>1, <1>2 DEF GoesOn
<1>4. c.phase \in InFlightPhases /\ c.issue # None => Room(c)
  <2>1. d.phase \in InFlightPhases /\ d.issue # None => Room(d)
    BY <1>2 DEF RInv
  <2> QED
    BY <1>1, <1>2, <1>3, <2>1, RoomAfter
<1> QED
  BY <1>1, <1>2, <1>3, <1>4, RCallStep

\* A request that issues passcodes is let in alone.
LEMMA ArriveKeepsRoom ==
  ASSUME OneIssuer, IInv, RInv, NEW p \in Handlers, Arrive(p)
  PROVE  RInv'
<1>1. PICK s \in Sessions, t \in Tools :
        \E q \in RequestsFor(s, t) : ReplayCall(p, q) \/ RefuseCall(p, q) \/ LoadCall(p, q)
  BY DEF Arrive
<1>2. PICK q \in RequestsFor(s, t) : ReplayCall(p, q) \/ RefuseCall(p, q) \/ LoadCall(p, q)
  BY <1>1
<1>3. CASE ReplayCall(p, q) \/ RefuseCall(p, q)
  <2>1. Steps(p) /\ UNCHANGED <<challenges, now>>
    BY <1>3, OverStep DEF ReplayCall, RefuseCall
  <2> QED
    BY <2>1, StepsKeepRoom
<1>4. CASE LoadCall(p, q)
  <2> DEFINE c == LoadedCall(q, sessions[q.session])
  <2>1. /\ calls' = [calls EXCEPT ![p] = c] /\ Admissible(q)
        /\ UNCHANGED <<challenges, now>>
    BY <1>4 DEF LoadCall, Arrives
  <2>2. c.issue = None /\ c.req = q
    BY DEF LoadedCall, IdleCall
  <2>3. ASSUME NEW r \in Handlers, calls[r].phase \in InFlightPhases
        PROVE  ~(Issues(q) /\ Issues(calls[r].req))
    <3>1. r \in InFlight
      BY <2>3 DEF InFlight
    <3> QED
      BY <2>1, <3>1 DEF Admissible
  <2> HIDE DEF c
  <2> QED
    BY <2>1, <2>2, <2>3, RCallStep
<1> QED
  BY <1>2, <1>3, <1>4
-----------------------------------------------------------------------------
(* The commit of a passcode *)

LEMMA RecordKeepsRoom ==
  ASSUME IInv, TInv, RInv, NEW p \in Handlers, RecordCall(p)
  PROVE  RInv'
<1>1. PICK c : c = calls[p]
  OBVIOUS
<1> DEFINE added == {c.newId} \ {0}
<1>2. /\ c.phase \in InFlightPhases /\ UNCHANGED now
      /\ challenges' = [i \in DOMAIN challenges \cup added |->
                          IF i \in added THEN NewChallenge(c)
                          ELSE UpdatedChallenge(challenges[i], i, c)]
      /\ calls' = [calls EXCEPT ![p] = AnsweredCall(c.req, c.reply)]
  BY <1>1 DEF RecordCall
<1>3. Local(c) /\ c \in CallRecords
  BY <1>1, <1>2, InTurn
<1>4. /\ DOMAIN challenges' = DOMAIN challenges \cup added
      /\ \A i \in DOMAIN challenges \ added :
           /\ challenges'[i].customer = challenges[i].customer
           /\ challenges'[i].created = challenges[i].created
  <2>1. ASSUME NEW i \in DOMAIN challenges \ added
        PROVE  /\ challenges'[i].customer = challenges[i].customer
               /\ challenges'[i].created = challenges[i].created
    <3>1. PICK row \in ChallengeRows : row = challenges[i]
      BY DEF IInv, TypeOK
    <3>2. challenges'[i] = UpdatedChallenge(row, i, c)
      BY <1>2, <3>1
    <3> QED
      BY <3>1, <3>2 DEF UpdatedChallenge, ChallengeRows
  <2> QED
    BY <1>2, <2>1
<1>5. c.newId # 0 => /\ challenges'[c.newId].customer = c.issue
                     /\ challenges'[c.newId].created = c.newAt
                     /\ c.issue # None
  BY <1>2, <1>3 DEF NewChallenge, Local
<1>6. \A r \in Handlers : calls'[r] = IF r = p THEN AnsweredCall(c.req, c.reply) ELSE calls[r]
  BY <1>2 DEF IInv, TypeOK
<1>7. calls'[p].phase = "answered"
  BY <1>6 DEF AnsweredCall, IdleCall
<1>8. ASSUME NEW r \in Handlers,
             (calls[r].phase \in InFlightPhases /\ calls[r].issue # None)'
      PROVE  Room(calls[r])'
  <2>1. PICK d : d = calls[r]
    OBVIOUS
  <2>2. r # p /\ calls'[r] = d /\ d.phase \in InFlightPhases /\ d.issue # None
    BY <1>6, <1>7, <1>8, <2>1
  <2>3. Issues(d.req) /\ Room(d)
    BY <2>1, <2>2, InTurn DEF Local, RInv
  <2>4. ~Issues(c.req)
    BY <1>1, <1>2, <2>1, <2>2, <2>3 DEF RInv
  <2>5. c.newId = 0
    BY <1>3, <2>4 DEF Local
  <2>6. \A cust, t : Since(cust, t)' = Since(cust, t)
    BY <1>4, <2>5 DEF Since
  <2>7. Room(d)'
    BY <1>2, <2>3, <2>6 DEF Room
  <2> QED
    BY <2>2, <2>7 DEF Room
<1>9. ASSUME NEW r \in Handlers, NEW q \in Handlers, r # q,
             (calls[r].phase \in InFlightPhases /\ calls[q].phase \in InFlightPhases)'
      PROVE  ~(Issues(calls[r].req) /\ Issues(calls[q].req))'
  BY <1>6, <1>7, <1>9 DEF RInv
<1>10. ASSUME NEW cust \in Customers, NEW t \in Nat
       PROVE  (Cardinality(Window(cust, t)) <= MaxPerWindow)'
  <2>1. PICK W : W = Window(cust, t)'
    OBVIOUS
  <2>2. W \subseteq DOMAIN challenges \cup added /\ W \ added \subseteq Window(cust, t)
    BY <1>4, <2>1 DEF Window
  <2>3. /\ Cardinality(Window(cust, t)) <= MaxPerWindow
        /\ IsFiniteSet(Window(cust, t)) /\ Cardinality(Window(cust, t)) \in Nat
    BY FewCodes DEF RInv, Window, IInv
  <2>4. CASE W \cap added = {}
    <3>1. W \subseteq Window(cust, t)
      BY <2>2, <2>4
    <3>2. Cardinality(W) <= Cardinality(Window(cust, t)) /\ Cardinality(W) \in Nat
      BY <2>3, <3>1, FS_Subset, FS_CardinalityType
    <3> QED
      BY <2>1, <2>3, <3>2, ServiceAssumption
  <2>5. CASE W \cap added # {}
    <3>1. c.newId # 0 /\ c.newId \in W
      BY <2>5
    <3>2. cust = c.issue /\ c.newAt \in t..(t + RateWindow) /\ c.issue # None
      BY <1>5, <2>1, <3>1 DEF Window
    <3>3. PICK u \in Nat : u <= c.newAt /\ Cardinality(Since(c.issue, u)) < MaxPerWindow
      BY <1>1, <1>2, <3>1, <3>2 DEF RInv, Room
    <3> DEFINE S == Since(c.issue, u)
    <3>4. W \ added \subseteq S
      <4>1. ASSUME NEW i \in W \ added PROVE i \in S
        <5>1. /\ i \in DOMAIN challenges /\ challenges[i].customer = c.issue
              /\ challenges[i].created \in t..(t + RateWindow)
          BY <2>2, <3>2, <4>1 DEF Window
        <5>2. challenges[i].created >= u - RateWindow
          BY <3>2, <3>3, <5>1, ServiceAssumption
        <5> QED
          BY <5>1, <5>2 DEF Since
      <4> QED
        BY <4>1
    <3>5. IsFiniteSet(S) /\ Cardinality(S) \in Nat
      BY FewCodes DEF Since, IInv
    <3>6. W \subseteq S \cup {c.newId}
      BY <3>4
    <3> HIDE DEF S
    <3>7. IsFiniteSet(S \cup {c.newId}) /\ Cardinality(S \cup {c.newId}) <= Cardinality(S) + 1
      BY <3>5, FS_AddElement
    <3>8. Cardinality(W) <= Cardinality(S \cup {c.newId})
      BY <3>6, <3>7, FS_Subset
    <3>9. Cardinality(W) \in Nat /\ Cardinality(S \cup {c.newId}) \in Nat
      BY <3>6, <3>7, FS_Subset, FS_CardinalityType
    <3>10. Cardinality(S) < MaxPerWindow
      BY <3>3 DEF S
    <3> QED
      BY <2>1, <3>5, <3>7, <3>8, <3>9, <3>10, ServiceAssumption
  <2> QED
    BY <2>4, <2>5
<1> QED
  BY <1>8, <1>9, <1>10 DEF RInv
-----------------------------------------------------------------------------
(* The invariant *)

LEMMA InitRInv == Init => RInv
<1> SUFFICES ASSUME Init PROVE RInv
  OBVIOUS
<1>1. \A p \in Handlers : calls[p].phase = "idle"
  BY DEF Init, IdleCall
<1>2. \A cust, t : Window(cust, t) = {}
  BY DEF Init, Window
<1>3. Cardinality({}) <= MaxPerWindow
  BY FS_EmptySet, ServiceAssumption
<1> QED
  BY <1>1, <1>2, <1>3 DEF RInv

\* Only a commit adds a passcode or changes one.
LEMMA RowsStay ==
  ASSUME NEW p \in Handlers,
         Work(p) \/ Send(p) \/ SuppressDuplicate(p) \/ Return(p) \/ Abort(p)
  PROVE  UNCHANGED <<challenges, now>>
<1>1. CASE Work(p)
  BY <1>1 DEF Work, VerifyIdentityMatched, VerifyIdentityUnknown, VerifyIdentityFailed,
     VerifyOtpUnchecked, VerifyOtpChecked, ResendOtp, CaptureLead, CheckEligibility,
     RecordConsent, Escalate, Proceed, Stay
<1>2. CASE Send(p)
  BY <1>2 DEF Send, WriteSession, FlushChallenge, FlushLink, PasscodeDelivered,
     PasscodeUndelivered, LinkEmailed, Stay
<1>3. CASE SuppressDuplicate(p) \/ Return(p) \/ Abort(p)
  BY <1>3 DEF SuppressDuplicate, Return, Abort, Stay
<1> QED
  BY <1>1, <1>2, <1>3

LEMMA NextRInv ==
  ASSUME OneIssuer
  PROVE  IInv /\ TInv /\ RInv /\ [Next]_vars => RInv'
<1> SUFFICES ASSUME IInv, TInv, RInv, [Next]_vars PROVE RInv'
  OBVIOUS
<1>1. ASSUME NEW p \in Handlers, Arrive(p) PROVE RInv'
  BY <1>1, ArriveKeepsRoom
<1>2. ASSUME NEW p \in Handlers,
             Work(p) \/ Send(p) \/ SuppressDuplicate(p) \/ Return(p) \/ Abort(p)
      PROVE  RInv'
  BY <1>2, RowsStay, WorkGoesOn, SendGoesOn, EndGoesOn, StepsKeepRoom DEF Finalize
<1>3. ASSUME NEW p \in Handlers, RecordCall(p) PROVE RInv'
  BY <1>3, RecordKeepsRoom
<1>4. CASE Tick
  <2>1. now' = now + 1 /\ now \in Nat /\ UNCHANGED <<challenges, calls>>
    BY <1>4 DEF Tick, IInv, TypeOK
  <2>2. /\ \A cust, t : Since(cust, t)' = Since(cust, t)
        /\ \A cust, t : Window(cust, t)' = Window(cust, t)
    BY <2>1 DEF Since, Window
  <2>3. ASSUME NEW p \in Handlers, Room(calls[p]) PROVE Room(calls[p])'
    BY <2>1, <2>2, <2>3 DEF Room
  <2> QED
    BY <2>1, <2>2, <2>3 DEF RInv
<1>5. CASE \/ \E s \in Sessions : StartSession(s)
           \/ UNCHANGED vars
  <2>1. UNCHANGED <<challenges, calls, now>>
    BY <1>5 DEF StartSession, vars
  <2>2. ASSUME NEW p \in Handlers, Room(calls[p]) PROVE Room(calls[p])'
    BY <2>1, <2>2 DEF Room, Since
  <2>3. \A cust, t : Window(cust, t)' = Window(cust, t)
    BY <2>1, SameRoom
  <2> QED
    BY <2>1, <2>2, <2>3 DEF RInv
<1> QED
  BY <1>1, <1>2, <1>3, <1>4, <1>5 DEF Next, Finalize

\* In no window of time are more passcodes of a customer on record than the
\* limit, over all the calls he makes, if the platform lets one request that
\* issues passcodes be in progress at a time.  It bounds the rows the limit is
\* counted from, not the messages: a code whose request was rolled back after
\* the send has no row (otp.py:89-94, 132-135).
THEOREM RateHolds ==
  ASSUME OneIssuer PROVE Spec => []RateLimit
<1>1. OnlyRetriesOverlap
  BY DEF OnlyRetriesOverlap
<1>2. ASSUME IInv, RInv PROVE RateLimit
  <2>1. 0..now \subseteq Nat
    BY <1>2 DEF IInv, TypeOK
  <2>2. \A cust \in Customers, t \in 0..now : Cardinality(Window(cust, t)) <= MaxPerWindow
    BY <1>2, <2>1 DEF RInv
  <2> QED
    BY <2>2 DEF RateLimit, Window
<1>3. IInv /\ TInv /\ RInv /\ [Next]_vars => RInv'
  BY NextRInv
<1>4. Spec => []TInv
  BY <1>1, TurnInvariance
<1> QED
  BY InitRInv, <1>2, <1>3, <1>4, Invariance, PTL DEF Spec
-----------------------------------------------------------------------------
(* How far overlapping requests pass the limit.  Each counted the window     *)
(* before the others had committed, but at the last count fewer passcodes    *)
(* than the limit were there, and every other passcode of the window that    *)
(* was counted by then belongs to a request in progress, one per handler.    *)

\* Requests that have counted the window of a customer, and whose passcode falls
\* into the window from t on, or may still do so.
Headed(cust, t) ==
  {p \in Handlers :
     /\ calls[p].phase \in InFlightPhases /\ calls[p].issue = cust
     /\ IF calls[p].newId = 0 THEN now <= t + RateWindow
        ELSE calls[p].newAt \in t..(t + RateWindow)}

SomeHandlers == IsFiniteSet(Handlers) /\ Handlers # {}

OInv ==
  \A cust \in Customers, t \in Nat :
    Cardinality(Window(cust, t)) + Cardinality(Headed(cust, t))
      < MaxPerWindow + Cardinality(Handlers)

LEMMA FewHandlers ==
  ASSUME SomeHandlers, NEW S, S \subseteq Handlers
  PROVE  /\ IsFiniteSet(S) /\ Cardinality(S) \in Nat
         /\ Cardinality(S) <= Cardinality(Handlers)
         /\ Cardinality(Handlers) \in Nat \ {0}
<1>1. IsFiniteSet(Handlers)
  BY DEF SomeHandlers
<1>2. IsFiniteSet(S) /\ Cardinality(S) <= Cardinality(Handlers)
  BY <1>1, FS_Subset
<1>3. Cardinality(S) \in Nat /\ Cardinality(Handlers) \in Nat
  BY <1>1, <1>2, FS_CardinalityType
<1>4. Cardinality(Handlers) # 0
  BY <1>1, FS_EmptySet DEF SomeHandlers
<1> QED
  BY <1>2, <1>3, <1>4

\* Nothing added to a window, and nobody new headed for it.
LEMMA SameOverrun ==
  ASSUME SomeHandlers, IInv, OInv, NEW cust \in Customers, NEW t \in Nat,
         Window(cust, t)' = Window(cust, t), Headed(cust, t)' \subseteq Headed(cust, t)
  PROVE  (Cardinality(Window(cust, t)) + Cardinality(Headed(cust, t))
            < MaxPerWindow + Cardinality(Handlers))'
<1>1. Headed(cust, t) \subseteq Handlers
  BY DEF Headed
<1>2. IsFiniteSet(Headed(cust, t)) /\ Cardinality(Headed(cust, t)) \in Nat
  BY <1>1, FewHandlers
<1>3. PICK H : H = Headed(cust, t)'
  OBVIOUS
<1>4. Cardinality(H) <= Cardinality(Headed(cust, t)) /\ Cardinality(H) \in Nat
  BY <1>2, <1>3, FS_Subset, FS_CardinalityType
<1>5. Cardinality(Window(cust, t)) \in Nat
  BY FewCodes DEF Window, IInv
<1>6. Cardinality(Window(cust, t)) + Cardinality(H) < MaxPerWindow + Cardinality(Handlers)
  BY <1>2, <1>4, <1>5, FewHandlers, ServiceAssumption DEF OInv
<1> QED
  BY <1>3, <1>6

\* A request that comes to be headed for a window has just counted it.
LEMMA StepsOverrun ==
  ASSUME SomeHandlers, IInv, OInv, NEW p \in Handlers, Steps(p),
         UNCHANGED <<challenges, now>>
  PROVE  OInv'
<1> SUFFICES ASSUME NEW cust \in Customers, NEW t \in Nat
             PROVE  (Cardinality(Window(cust, t)) + Cardinality(Headed(cust, t))
                       < MaxPerWindow + Cardinality(Handlers))'
  BY DEF OInv
<1>1. PICK c, d : /\ calls' = [calls EXCEPT ![p] = c] /\ GoesOn(d, c)
                  /\ d = calls[p]
  BY DEF Steps
<1>2. \A r \in Handlers : calls'[r] = IF r = p THEN c ELSE calls[r]
  BY <1>1 DEF IInv, TypeOK
<1>3. Window(cust, t)' = Window(cust, t)
  BY DEF Window
<1>4. now \in Nat /\ RateWindow \in Nat
  BY ServiceAssumption DEF IInv, TypeOK
<1>5. CASE Headed(cust, t)' \subseteq Headed(cust, t)
  BY <1>3, <1>5, SameOverrun
<1>6. CASE ~(Headed(cust, t)' \subseteq Headed(cust, t))
  <2>1. p \in Headed(cust, t)' /\ p \notin Headed(cust, t)
    BY <1>2, <1>6 DEF Headed
  <2>2. /\ c.phase \in InFlightPhases /\ c.issue = cust
        /\ IF c.newId = 0 THEN now <= t + RateWindow
           ELSE c.newAt \in t..(t + RateWindow)
    BY <1>2, <2>1 DEF Headed
  <2>3. /\ d.phase \in InFlightPhases
        /\ ~(/\ d.issue = cust
             /\ IF d.newId = 0 THEN now <= t + RateWindow
                ELSE d.newAt \in t..(t + RateWindow))
    BY <1>1, <2>1, <2>2 DEF Headed, GoesOn
  <2>4. c.newId = 0 /\ RecentCount(cust) < MaxPerWindow
    BY <1>1, <1>4, <2>2, <2>3 DEF GoesOn
  <2> DEFINE S == {i \in DOMAIN challenges :
                     /\ challenges[i].customer = cust
                     /\ challenges[i].created >= now - RateWindow}
  <2>5. Window(cust, t) \subseteq S
    <3>1. \A i \in DOMAIN challenges : challenges[i].created \in Nat
      BY DEF IInv, TypeOK, ChallengeRows
    <3> QED
      BY <1>4, <2>2, <2>4, <3>1 DEF Window
  <2>6. IsFiniteSet(S) /\ Cardinality(S) \in Nat /\ Cardinality(S) < MaxPerWindow
    BY <2>4, FewCodes DEF RecentCount, IInv
  <2> HIDE DEF S
  <2>7. /\ Cardinality(Window(cust, t)) <= Cardinality(S)
        /\ Cardinality(Window(cust, t)) \in Nat
    BY <2>5, <2>6, FS_Subset, FS_CardinalityType
  <2>8. PICK H : H = Headed(cust, t)'
    OBVIOUS
  <2>9. H \subseteq Handlers
    BY <2>8 DEF Headed
  <2>10. Cardinality(Window(cust, t)) + Cardinality(H) < MaxPerWindow + Cardinality(Handlers)
    BY <2>6, <2>7, <2>9, FewHandlers, ServiceAssumption
  <2> QED
    BY <1>3, <2>8, <2>10
<1> QED
  BY <1>5, <1>6

\* A commit takes a request out of the number headed for a window and may put its
\* passcode into it.
LEMMA RecordOverrun ==
  ASSUME SomeHandlers, IInv, OInv, NEW p \in Handlers, RecordCall(p)
  PROVE  OInv'
<1> SUFFICES ASSUME NEW cust \in Customers, NEW t \in Nat
             PROVE  (Cardinality(Window(cust, t)) + Cardinality(Headed(cust, t))
                       < MaxPerWindow + Cardinality(Handlers))'
  BY DEF OInv
<1>1. PICK c : c = calls[p]
  OBVIOUS
<1> DEFINE added == {c.newId} \ {0}
<1>2. /\ c.phase \in InFlightPhases /\ UNCHANGED now
      /\ challenges' = [i \in DOMAIN challenges \cup added |->
                          IF i \in added THEN NewChallenge(c)
                          ELSE UpdatedChallenge(challenges[i], i, c)]
      /\ calls' = [calls EXCEPT ![p] = AnsweredCall(c.req, c.reply)]
  BY <1>1 DEF RecordCall
<1>3. c.newId # 0 => c.newId \notin DOMAIN challenges
  BY <1>1, <1>2 DEF IInv, GoodCall
<1>4. /\ DOMAIN challenges' = DOMAIN challenges \cup added
      /\ \A i \in DOMAIN challenges : /\ challenges'[i].customer = challenges[i].customer
                                      /\ challenges'[i].created = challenges[i].created
  <2>1. ASSUME NEW i \in DOMAIN challenges
        PROVE  /\ challenges'[i].customer = challenges[i].customer
               /\ challenges'[i].created = challenges[i].created
    <3>1. PICK row \in ChallengeRows : row = challenges[i]
      BY DEF IInv, TypeOK
    <3>2. challenges'[i] = UpdatedChallenge(row, i, c)
      BY <1>2, <1>3, <3>1
    <3> QED
      BY <3>1, <3>2 DEF UpdatedChallenge, ChallengeRows
  <2> QED
    BY <1>2, <2>1
<1>5. c.newId # 0 => /\ challenges'[c.newId].customer = c.issue
                     /\ challenges'[c.newId].created = c.newAt
  BY <1>2 DEF NewChallenge
<1>6. \A r \in Handlers : calls'[r] = IF r = p THEN AnsweredCall(c.req, c.reply) ELSE calls[r]
  BY <1>2 DEF IInv, TypeOK
<1>7. AnsweredCall(c.req, c.reply).phase \notin InFlightPhases
  BY DEF AnsweredCall, IdleCall
<1>8. Headed(cust, t)' = Headed(cust, t) \ {p}
  BY <1>2, <1>6, <1>7 DEF Headed
<1>9. CASE c.newId # 0 /\ c.issue = cust /\ c.newAt \in t..(t + RateWindow)
  <2>1. Window(cust, t)' = Window(cust, t) \cup {c.newId} /\ c.newId \notin Window(cust, t)
    BY <1>3, <1>4, <1>5, <1>9 DEF Window
  <2>2. p \in Headed(cust, t)
    BY <1>1, <1>2, <1>9 DEF Headed
  <2>3. /\ IsFiniteSet(Headed(cust, t)) /\ Cardinality(Headed(cust, t)) \in Nat
        /\ IsFiniteSet(Window(cust, t)) /\ Cardinality(Window(cust, t)) \in Nat
    BY FewHandlers, FewCodes DEF Headed, Window, IInv
  <2>4. Cardinality(Headed(cust, t) \ {p}) = Cardinality(Headed(cust, t)) - 1
    BY <2>2, <2>3, FS_RemoveElement
  <2>5. Cardinality(Window(cust, t) \cup {c.newId}) = Cardinality(Window(cust, t)) + 1
    BY <2>1, <2>3, FS_AddElement
  <2>6. Cardinality(Window(cust, t)) + Cardinality(Headed(cust, t))
          < MaxPerWindow + Cardinality(Handlers)
    BY DEF OInv
  <2>7. Cardinality(Window(cust, t) \cup {c.newId}) + Cardinality(Headed(cust, t) \ {p})
          < MaxPerWindow + Cardinality(Handlers)
    BY <2>3, <2>4, <2>5, <2>6
  <2> QED
    BY <1>8, <2>1, <2>7
<1>10. CASE ~(c.newId # 0 /\ c.issue = cust /\ c.newAt \in t..(t + RateWindow))
  <2>1. Window(cust, t)' = Window(cust, t)
    BY <1>3, <1>4, <1>5, <1>10 DEF Window
  <2> QED
    BY <1>8, <2>1, SameOverrun
<1> QED
  BY <1>9, <1>10

LEMMA NextOInv ==
  ASSUME SomeHandlers
  PROVE  IInv /\ OInv /\ [Next]_vars => OInv'
<1> SUFFICES ASSUME IInv, OInv, [Next]_vars PROVE OInv'
  OBVIOUS
<1>1. ASSUME NEW p \in Handlers, Arrive(p) PROVE OInv'
  <2>1. PICK q : ReplayCall(p, q) \/ RefuseCall(p, q) \/ LoadCall(p, q)
    BY <1>1 DEF Arrive
  <2>2. CASE ReplayCall(p, q) \/ RefuseCall(p, q)
    BY <2>2, OverStep, StepsOverrun DEF ReplayCall, RefuseCall
  <2>3. CASE LoadCall(p, q)
    <3>1. /\ calls' = [calls EXCEPT ![p] = LoadedCall(q, sessions[q.session])]
          /\ UNCHANGED <<challenges, now>>
      BY <2>3 DEF LoadCall
    <3>2. \A r \in Handlers : calls'[r] = IF r = p THEN LoadedCall(q, sessions[q.session])
                                          ELSE calls[r]
      BY <3>1 DEF IInv, TypeOK
    <3>3. LoadedCall(q, sessions[q.session]).issue = None
      BY DEF LoadedCall, IdleCall
    <3>4. ASSUME NEW cust \in Customers, NEW t \in Nat
          PROVE  /\ Window(cust, t)' = Window(cust, t)
                 /\ Headed(cust, t)' \subseteq Headed(cust, t)
      BY <3>1, <3>2, <3>3, ServiceAssumption DEF Window, Headed
    <3> QED
      BY <3>4, SameOverrun DEF OInv
  <2> QED
    BY <2>1, <2>2, <2>3
<1>2. ASSUME NEW p \in Handlers,
             Work(p) \/ Send(p) \/ SuppressDuplicate(p) \/ Return(p) \/ Abort(p)
      PROVE  OInv'
  BY <1>2, RowsStay, WorkGoesOn, SendGoesOn, EndGoesOn, StepsOverrun DEF Finalize
<1>3. ASSUME NEW p \in Handlers, RecordCall(p) PROVE OInv'
  BY <1>3, RecordOverrun
<1>4. CASE Tick
  <2>1. now' = now + 1 /\ now \in Nat /\ UNCHANGED <<challenges, calls>>
    BY <1>4 DEF Tick, IInv, TypeOK
  <2>2. ASSUME NEW cust \in Customers, NEW t \in Nat
        PROVE  /\ Window(cust, t)' = Window(cust, t)
               /\ Headed(cust, t)' \subseteq Headed(cust, t)
    BY <2>1, ServiceAssumption DEF Window, Headed
  <2> QED
    BY <2>2, SameOverrun DEF OInv
<1>5. CASE \/ \E s \in Sessions : StartSession(s)
           \/ UNCHANGED vars
  <2>1. UNCHANGED <<challenges, calls, now>>
    BY <1>5 DEF StartSession, vars
  <2>2. ASSUME NEW cust \in Customers, NEW t \in Nat
        PROVE  /\ Window(cust, t)' = Window(cust, t)
               /\ Headed(cust, t)' \subseteq Headed(cust, t)
    BY <2>1 DEF Window, Headed
  <2> QED
    BY <2>2, SameOverrun DEF OInv
<1> QED
  BY <1>1, <1>2, <1>3, <1>4, <1>5 DEF Next, Finalize

LEMMA InitOInv == ASSUME SomeHandlers PROVE Init => OInv
<1> SUFFICES ASSUME Init, NEW cust \in Customers, NEW t \in Nat
             PROVE  Cardinality(Window(cust, t)) + Cardinality(Headed(cust, t))
                      < MaxPerWindow + Cardinality(Handlers)
  BY DEF OInv
<1>1. Window(cust, t) = {} /\ Headed(cust, t) = {}
  BY DEF Init, IdleCall, Window, Headed
<1>2. Cardinality({}) = 0
  BY FS_EmptySet
<1>3. Cardinality(Handlers) \in Nat \ {0} /\ MaxPerWindow \in Nat
  BY FewHandlers, ServiceAssumption
<1> QED
  BY <1>1, <1>2, <1>3

\* However requests overlap, fewer passcodes of a customer are on record in a
\* window of time than the limit and the handlers together: every handler beyond
\* the first lets one more row pass the count.  Like the limit itself it bounds
\* rows, not messages (otp.py:89-94, 132-135).
OverrunBounded ==
  \A cust \in Customers, t \in 0..now :
    Cardinality({i \in DOMAIN challenges :
                   /\ challenges[i].customer = cust
                   /\ challenges[i].created \in t..(t + RateWindow)})
      < MaxPerWindow + Cardinality(Handlers)

THEOREM OverrunHolds ==
  ASSUME SomeHandlers PROVE Spec => []OverrunBounded
<1>1. ASSUME IInv, OInv PROVE OverrunBounded
  <2> SUFFICES ASSUME NEW cust \in Customers, NEW t \in 0..now
               PROVE  Cardinality(Window(cust, t)) < MaxPerWindow + Cardinality(Handlers)
    BY DEF OverrunBounded, Window
  <2>1. t \in Nat
    BY <1>1 DEF IInv, TypeOK
  <2>2. Cardinality(Window(cust, t)) + Cardinality(Headed(cust, t))
          < MaxPerWindow + Cardinality(Handlers)
    BY <1>1, <2>1 DEF OInv
  <2>3. Cardinality(Window(cust, t)) \in Nat /\ Cardinality(Headed(cust, t)) \in Nat
    BY <1>1, FewCodes, FewHandlers DEF Window, Headed, IInv
  <2> QED
    BY <2>2, <2>3, FewHandlers, ServiceAssumption
<1>2. IInv /\ OInv /\ [Next]_vars => OInv'
  BY NextOInv
<1>3. Init => OInv
  BY InitOInv
<1> QED
  BY <1>1, <1>2, <1>3, Invariance, PTL DEF Spec
=============================================================================
