--------------------------- MODULE AuditTrailProofs ---------------------------
(***************************************************************************)
(* What the record of a call shows, for any number of calls, limits and    *)
(* handlers, and wherever the commits of others fall between the           *)
(* statements that read it.                                                *)
(*                                                                         *)
(* However requests overlap, a record shows nothing its audit trail does   *)
(* not answer for.  The argument: what is stored has its rows at every     *)
(* commit (ToolServiceLedgerProofs), rows are never taken back, and the    *)
(* trail is read last; so what any statement saw stays covered until then. *)
(*                                                                         *)
(* As long as the platform lets requests overlap only as retries or on     *)
(* different sessions, the state it shows is also backed by the rows it    *)
(* shows: a state is written with what backs it, and both are kept.        *)
(*                                                                         *)
(* And what the evaluation, a client that sends one request at a time,     *)
(* concludes from a record and from the replies it heard.  The argument:   *)
(* every row of the trail was a reply it heard, in the same order, but for *)
(* the one on its way; a retry was answered from a row it had heard of     *)
(* before; and a record read while nothing happened is what is stored.     *)
(***************************************************************************)
EXTENDS AuditTrail, ToolServiceTurnProofs

\* What the caller is told of a request that did its work: never a refusal, and
\* of a consent what was written down.
Says(t, verdict, outcome) ==
  /\ outcome \notin Refusals
  /\ t = "record_consent" =>
       /\ outcome = "ok" <=> verdict = "granted"
       /\ outcome = "declined" <=> verdict = "refused"

\* A request about to be recorded says what it did, and if it sent the first
\* passcode it has made one.
Filed(c) ==
  /\ c.phase = "sending" /\ c.issue # None => c.newId # 0
  /\ c.phase = "ready" =>
       /\ c.req.tool = "verify_identity" /\ c.verdict = "sent" => c.newId # 0
       /\ Says(c.req.tool, c.verdict, c.reply.outcome)

FInv == \A p \in Handlers : Filed(calls[p])

\* How the tables of one session agree at every commit.
TablesAgree(s) ==
  /\ RowCount(toolCalls[s], {"verify_identity"}, {"sent"}) > 0 => Own(s) # {}
  /\ s \in Opened /\ sessions[s].state \in {"eligibility_assessed", "completed"} =>
       artefacts[s]["assessment"] > 0
  /\ \A i \in DOMAIN toolCalls[s] :
       Says(toolCalls[s][i].tool, toolCalls[s][i].verdict, toolCalls[s][i].reply.outcome)

DInv == \A s \in Sessions : TablesAgree(s)

USE DEF CodeSent, Compares, Issuers, InFlightPhases
-----------------------------------------------------------------------------
(* Requests on their way to the commit *)

LEMMA FiledStep ==
  ASSUME IInv, FInv, NEW p \in Handlers, NEW c,
         calls' = [calls EXCEPT ![p] = c], Filed(c)
  PROVE  FInv'
<1>1. \A r \in Handlers : calls'[r] = IF r = p THEN c ELSE calls[r]
  BY DEF IInv, TypeOK
<1> QED
  BY <1>1 DEF FInv, Filed

\* One that goes on, but builds no response yet.
LEMMA FiledStaged ==
  ASSUME IInv, FInv, NEW p \in Handlers, calls[p].phase \in InFlightPhases,
         NEW c, c.phase = "staged", c.req = calls[p].req,
         calls' = [calls EXCEPT ![p] = c]
  PROVE  FInv'
<1>1. Filed(c)
  BY DEF FInv, Filed
<1> QED
  BY <1>1, FiledStep

\* One that is over.
LEMMA FiledOver ==
  ASSUME IInv, FInv, NEW p \in Handlers,
         \/ \E q, rep : calls' = [calls EXCEPT ![p] = AnsweredCall(q, rep)]
         \/ calls' = [calls EXCEPT ![p] = IdleCall]
  PROVE  FInv'
<1>1. \A q, rep : AnsweredCall(q, rep).phase = "answered"
  BY DEF AnsweredCall, IdleCall
<1>2. IdleCall.phase = "idle"
  BY DEF IdleCall
<1>3. PICK c : c.phase \in {"idle", "answered"} /\ calls' = [calls EXCEPT ![p] = c]
  BY <1>1, <1>2
<1>4. Filed(c)
  BY <1>3 DEF Filed
<1> QED
  BY <1>3, <1>4, FiledStep

LEMMA FiledReady ==
  ASSUME IInv, FInv, NEW p \in Handlers, calls[p].phase \in InFlightPhases,
         NEW b \in CallRecords, b.req = calls[p].req,
         NEW row, NEW adds, NEW outcome, NEW verdict,
         calls' = [calls EXCEPT ![p] = ReadyCall(b, row, adds, outcome, verdict)],
         b.req.tool = "verify_identity" /\ verdict = "sent" => b.newId # 0,
         Says(b.req.tool, verdict, outcome)
  PROVE  FInv'
<1> DEFINE c == ReadyCall(b, row, adds, outcome, verdict)
<1>1. /\ c.phase = "ready" /\ c.req = b.req /\ c.newId = b.newId
      /\ c.verdict = verdict /\ c.reply.outcome = outcome
  BY DEF ReadyCall, CallRecords, Reply
<1>2. Filed(c)
  BY <1>1 DEF FInv, Filed
<1>3. calls' = [calls EXCEPT ![p] = c]
  OBVIOUS
<1> HIDE DEF c
<1> QED
  BY <1>2, <1>3, FiledStep

LEMMA ArriveFiled ==
  ASSUME IInv, FInv, NEW p \in Handlers, Arrive(p)
  PROVE  FInv'
<1>1. PICK s \in Sessions, t \in Tools :
        \E q \in RequestsFor(s, t) : ReplayCall(p, q) \/ RefuseCall(p, q) \/ LoadCall(p, q)
  BY DEF Arrive
<1>2. PICK q \in RequestsFor(s, t) : ReplayCall(p, q) \/ RefuseCall(p, q) \/ LoadCall(p, q)
  BY <1>1
<1>3. CASE ReplayCall(p, q) \/ RefuseCall(p, q)
  BY <1>3, FiledOver DEF ReplayCall, RefuseCall
<1>4. CASE LoadCall(p, q)
  <2>1. PICK c : c = LoadedCall(q, sessions[q.session])
    OBVIOUS
  <2>2. c.phase = "loaded"
    BY <2>1, UnlockedForms
  <2>3. Filed(c)
    BY <2>2 DEF Filed
  <2> QED
    BY <1>4, <2>1, <2>3, FiledStep DEF LoadCall
<1> QED
  BY <1>2, <1>3, <1>4

\* A handler at work that has neither a passcode nor a guess yet.
LEMMA WorkFiled ==
  ASSUME IInv, TInv, FInv, NEW p \in Handlers, Work(p)
  PROVE  FInv'
<1> DEFINE d == calls[p]
<1>1. d \in CallRecords /\ d.newId = 0 /\ d.phase \in InFlightPhases
  <2>1. \E t \in Tools : Working(p, t)
    BY DEF Work, VerifyIdentityMatched, VerifyIdentityUnknown, VerifyIdentityFailed,
       VerifyOtpUnchecked, VerifyOtpChecked, ResendOtp, CaptureLead, CheckEligibility,
       RecordConsent, Escalate, Tools
  <2> QED
    BY <2>1, TWorking
<1>2. ASSUME NEW row, NEW adds, NEW outcome, NEW verdict,
             verdict = "sent" => d.req.tool # "verify_identity",
             Says(d.req.tool, verdict, outcome),
             calls' = [calls EXCEPT ![p] = ReadyCall(d, row, adds, outcome, verdict)]
      PROVE  FInv'
  <2>1. PICK b \in CallRecords : b = d
    BY <1>1
  <2>2. /\ calls' = [calls EXCEPT ![p] = ReadyCall(b, row, adds, outcome, verdict)]
        /\ calls[p].phase \in InFlightPhases /\ b.req = calls[p].req
        /\ verdict = "sent" => b.req.tool # "verify_identity"
        /\ Says(b.req.tool, verdict, outcome)
    BY <1>1, <1>2, <2>1
  <2> HIDE DEF d
  <2> QED
    BY <2>2, FiledReady
<1>3. ASSUME NEW row, NEW cust, NEW prev,
             calls' = [calls EXCEPT ![p] = Issuing(p, row, cust, prev)]
      PROVE  FInv'
  <2>1. PICK c : c = Issuing(p, row, cust, prev)
    OBVIOUS
  <2>2. c.phase = "staged" /\ c.req = calls[p].req
    BY <1>1, <2>1 DEF Issuing, CallRecords
  <2> QED
    BY <1>1, <1>3, <2>1, <2>2, FiledStaged
<1>4. \A row, cust, again : IssueLimit(row, cust, again) # "sent"
  BY DEF IssueLimit
<1>5. CASE VerifyIdentityMatched(p)
  <2> DEFINE cust == d.req.claim.pan
             row  == [d.sess EXCEPT !.customer = cust, !.state = "identity_matched"]
             stop == IssueLimit(row, cust, FALSE)
  <2>1. \/ \E q, rep : calls' = [calls EXCEPT ![p] = AnsweredCall(q, rep)]
        \/ calls' = [calls EXCEPT ![p] = ReadyCall(d, row, {}, "blocked", stop)]
        \/ \E prev : calls' = [calls EXCEPT ![p] = Issuing(p, row, cust, prev)]
    BY <1>5 DEF VerifyIdentityMatched, Proceed
  <2>2. stop # "sent" /\ Says(d.req.tool, stop, "blocked")
    BY <1>4, <1>5 DEF VerifyIdentityMatched, Working, Says, Refusals
  <2> HIDE DEF row, stop
  <2> QED
    BY <1>2, <1>3, <2>1, <2>2, FiledOver
<1>6. CASE VerifyIdentityUnknown(p) \/ VerifyIdentityFailed(p)
  <2>1. \/ \E q, rep : calls' = [calls EXCEPT ![p] = AnsweredCall(q, rep)]
        \/ \E row, outcome, verdict :
             /\ verdict # "sent"
             /\ Says(d.req.tool, verdict, outcome)
             /\ calls' = [calls EXCEPT ![p] = ReadyCall(d, row, {}, outcome, verdict)]
    BY <1>6 DEF VerifyIdentityUnknown, VerifyIdentityFailed, Proceed, Stay, Kyc, Working,
                Says, Refusals
  <2> QED
    BY <1>2, <2>1, FiledOver
<1>7. CASE VerifyOtpUnchecked(p)
  <2>1. \E row, outcome, verdict :
             /\ verdict # "sent"
             /\ Says(d.req.tool, verdict, outcome)
             /\ calls' = [calls EXCEPT ![p] = ReadyCall(d, row, {}, outcome, verdict)]
    BY <1>7 DEF VerifyOtpUnchecked, Stay, Working, Says, Refusals
  <2> QED
    BY <1>2, <2>1
<1>8. CASE VerifyOtpChecked(p)
  <2>1. d.req.tool = "verify_otp"
    BY <1>8 DEF VerifyOtpChecked, Working
  <2>2. PICK i \in DOMAIN challenges, hit \in BOOLEAN :
          LET row == [d.sess EXCEPT !.state = "identity_verified"]
              try == [d EXCEPT !.guess = [id |-> i, attempts |-> challenges[i].attempts + 1,
                                          ok |-> hit]]
          IN \/ \E q, rep : calls' = [calls EXCEPT ![p] = AnsweredCall(q, rep)]
             \/ calls' = [calls EXCEPT ![p] = ReadyCall(try, row, {}, "ok", "ok")]
             \/ calls' = [calls EXCEPT ![p] = ReadyCall(try, d.sess, {}, "blocked",
                                                        "attempts_exhausted")]
             \/ calls' = [calls EXCEPT ![p] = ReadyCall(try, d.sess, {}, "retry",
                                                        "wrong_code")]
    BY <1>8 DEF VerifyOtpChecked, Proceed, Stay
  <2> DEFINE try == [d EXCEPT !.guess = [id |-> i, attempts |-> challenges[i].attempts + 1,
                                          ok |-> hit]]
  <2>3. try \in CallRecords /\ try.req = d.req
    <3>1. challenges[i].attempts + 1 \in Nat /\ i \in Nat
      BY DEF IInv, TypeOK, ChallengeRows
    <3> QED
      BY <1>1, <3>1 DEF CallRecords, Guesses
  <2>4. \/ \E q, rep : calls' = [calls EXCEPT ![p] = AnsweredCall(q, rep)]
        \/ \E row, outcome, verdict :
             /\ Says(d.req.tool, verdict, outcome)
             /\ calls' = [calls EXCEPT ![p] = ReadyCall(try, row, {}, outcome, verdict)]
    BY <2>1, <2>2 DEF Says, Refusals
  <2> HIDE DEF try
  <2> QED
    BY <1>1, <2>1, <2>3, <2>4, FiledOver, FiledReady
<1>9. CASE ResendOtp(p)
  <2> DEFINE stop == IssueLimit(d.sess, d.sess.customer, TRUE)
  <2>1. \/ calls' = [calls EXCEPT ![p] = ReadyCall(d, d.sess, {}, "blocked", stop)]
        \/ \E prev : calls' = [calls EXCEPT ![p] = Issuing(p, d.sess, d.sess.customer, prev)]
    BY <1>9 DEF ResendOtp, Stay
  <2>2. stop # "sent" /\ Says(d.req.tool, stop, "blocked")
    BY <1>4, <1>9 DEF ResendOtp, Working, Says, Refusals
  <2> HIDE DEF stop
  <2> QED
    BY <1>2, <1>3, <2>1, <2>2
<1>10. CASE CaptureLead(p)
  <2>1. \/ \E q, rep : calls' = [calls EXCEPT ![p] = AnsweredCall(q, rep)]
        \/ \E row : calls' = [calls EXCEPT ![p] =
             [d EXCEPT !.phase = "staged", !.sess = row, !.adds = {"lead", "link"}]]
    BY <1>10 DEF CaptureLead, Proceed
  <2>2. \A row : LET c == [d EXCEPT !.phase = "staged", !.sess = row,
                                    !.adds = {"lead", "link"}]
                 IN c.phase = "staged" /\ c.req = d.req
    BY <1>1 DEF CallRecords
  <2>3. ASSUME NEW c, c.phase = "staged", c.req = d.req, calls' = [calls EXCEPT ![p] = c]
        PROVE  FInv'
    BY <1>1, <2>3, FiledStaged
  <2> QED
    BY <2>1, <2>2, <2>3, FiledOver
<1>11. CASE CheckEligibility(p) \/ RecordConsent(p) \/ Escalate(p)
  <2>1. \/ \E q, rep : calls' = [calls EXCEPT ![p] = AnsweredCall(q, rep)]
        \/ \E row, adds, outcome, verdict :
             /\ verdict = "sent" => d.req.tool # "verify_identity"
             /\ Says(d.req.tool, verdict, outcome)
             /\ calls' = [calls EXCEPT ![p] = ReadyCall(d, row, adds, outcome, verdict)]
    BY <1>1, <1>11 DEF CheckEligibility, RecordConsent, Escalate, Proceed, Stay, Working,
                       Says, Refusals
  <2> QED
    BY <1>2, <2>1, FiledOver
<1> QED
  BY <1>5, <1>6, <1>7, <1>8, <1>9, <1>10, <1>11 DEF Work

LEMMA SendFiled ==
  ASSUME IInv, TInv, FInv, NEW p \in Handlers, Send(p)
  PROVE  FInv'
<1> DEFINE d == calls[p]
<1>1. d \in CallRecords /\ lastId \in Nat /\ now \in Nat /\ Filed(d)
  BY DEF IInv, TypeOK, FInv
<1> SUFFICES ASSUME ~WriteSession(p) PROVE FInv'
  <2>1. CASE WriteSession(p)
    <3>1. PICK b, c : b = d /\ c = Written(b) /\ calls' = [calls EXCEPT ![p] = c]
      BY <2>1 DEF WriteSession, Stay
    <3>2. c.phase = b.phase /\ c.req = b.req /\ c.verdict = b.verdict /\ c.reply = b.reply
      BY <1>1, <3>1, WrittenOK
    <3>3. c.newId = b.newId /\ c.issue = b.issue
      BY <1>1, <3>1, WrittenOK
    <3>4. b.phase # "sending"
      BY <2>1, <3>1 DEF WriteSession
    <3>5. Filed(c)
      BY <1>1, <3>1, <3>2, <3>3, <3>4 DEF Filed
    <3> QED
      BY <3>1, <3>5, FiledStep
  <2> QED
    BY <2>1
<1>2. /\ d.phase \in {"staged", "sending"}
      /\ Staged(d.req, d.loaded, d.sess, d.issue)
      /\ d.issue = None => d.newId = 0
  <2>1. d.phase \in {"staged", "sending"}
    BY DEF Send, FlushChallenge, FlushLink, PasscodeDelivered, PasscodeUndelivered, LinkEmailed
  <2> QED
    BY <1>1, <2>1, InTurn DEF Local, CallRecords
<1>3. \A verdict : \A outcome \in Outcomes \ Refusals :
        Says(d.req.tool, verdict, outcome)
  BY <1>2 DEF Staged, Says
<1>4. CASE FlushChallenge(p)
  <2> DEFINE f == Numbered(d, lastId + 1, now)
             c == [f EXCEPT !.phase = "sending"]
  <2>1. calls' = [calls EXCEPT ![p] =
           IF d.issue \in Addressed THEN c
           ELSE ReadyCall(f, d.sess, {}, "error", "delivery_failed")]
    BY <1>4 DEF FlushChallenge, Numbered
  <2>2. PICK b \in CallRecords : b = f /\ b.newId # 0 /\ b.req = d.req
    <3>1. PICK m \in Nat, n \in Nat : m = lastId + 1 /\ n = now
      BY <1>1
    <3>2. f = Numbered(d, m, n)
      BY <3>1
    <3> HIDE DEF f
    <3>3. f \in CallRecords /\ f.newId = m /\ f.req = d.req
      BY <1>1, <3>2, NumberedCallOK
    <3> QED
      BY <1>1, <3>1, <3>3
  <2>3. PICK e : e = [b EXCEPT !.phase = "sending"]
    OBVIOUS
  <2>4. Filed(e)
    BY <1>3, <2>2, <2>3 DEF CallRecords, Filed
  <2>5. PICK row : row = d.sess
    OBVIOUS
  <2>6. \/ calls' = [calls EXCEPT ![p] = e]
        \/ calls' = [calls EXCEPT ![p] = ReadyCall(b, row, {}, "error", "delivery_failed")]
    BY <2>1, <2>2, <2>3, <2>5
  <2>7. Says(b.req.tool, "delivery_failed", "error")
    BY <1>3, <2>2 DEF Outcomes, Refusals
  <2> HIDE DEF c, f
  <2> QED
    BY <1>2, <1>3, <2>2, <2>4, <2>6, <2>7, FiledStep, FiledReady
<1>5. CASE FlushLink(p)
  <2>1. PICK c : c = [d EXCEPT !.phase = "sending", !.written = WritesSession(d)]
    OBVIOUS
  <2>2. calls' = [calls EXCEPT ![p] = c] /\ d.issue = None
    BY <1>5, <2>1 DEF FlushLink, Stay
  <2>3. Filed(c)
    BY <1>1, <1>3, <2>1, <2>2 DEF CallRecords, Filed
  <2> QED
    BY <2>2, <2>3, FiledStep
<1>6. CASE PasscodeDelivered(p) \/ PasscodeUndelivered(p) \/ LinkEmailed(p)
  <2>1. PICK b \in CallRecords : b = d
    BY <1>1
  <2>2. PICK row, adds, outcome, verdict :
          /\ outcome \in Outcomes \ Refusals
          /\ calls' = [calls EXCEPT ![p] = ReadyCall(b, row, adds, outcome, verdict)]
    BY <1>6, <2>1 DEF PasscodeDelivered, PasscodeUndelivered, LinkEmailed, Stay,
                      Outcomes, Refusals
  <2>3. b.req.tool = "verify_identity" => b.newId # 0
    <3>1. b.req.tool = "verify_identity" => b.issue # None
      BY <1>2, <2>1, ServiceAssumption DEF Staged
    <3>2. b.phase = "sending"
      BY <1>6, <2>1 DEF PasscodeDelivered, PasscodeUndelivered, LinkEmailed
    <3> QED
      BY <1>1, <2>1, <3>1, <3>2 DEF Filed
  <2> QED
    BY <1>2, <1>3, <2>1, <2>2, <2>3, FiledReady
<1> QED
  BY <1>4, <1>5, <1>6 DEF Send

LEMMA NextFInv ==
  ASSUME IInv, TInv, FInv, [Next]_vars
  PROVE  FInv'
<1>1. ASSUME NEW p \in Handlers, Finalize(p) \/ Return(p) \/ Abort(p) PROVE FInv'
  BY <1>1, FiledOver DEF Finalize, RecordCall, SuppressDuplicate, Return, Abort, Stay
<1>2. CASE Tick \/ (\E s \in Sessions : StartSession(s)) \/ UNCHANGED vars
  BY <1>2 DEF Tick, StartSession, vars, FInv, Filed
<1> QED
  BY <1>1, <1>2, ArriveFiled, WorkFiled, SendFiled DEF Next

LEMMA InitFInv == Init => FInv
<1>1. IdleCall.phase = "idle"
  BY DEF IdleCall
<1> QED
  BY <1>1 DEF Init, FInv, Filed
-----------------------------------------------------------------------------
(* The tables at a commit *)

\* The rows of the trail a commit adds to.
LEMMA CommitCounts ==
  ASSUME IInv, NEW c, Commits(c), NEW t \in Sessions, NEW T, NEW V
  PROVE  /\ RowCount(toolCalls[t], T, V) \in Nat
         /\ RowCount(toolCalls'[t], T, V) =
              IF t = c.req.session /\ c.req.tool \in T /\ c.verdict \in V
              THEN RowCount(toolCalls[t], T, V) + 1 ELSE RowCount(toolCalls[t], T, V)
<1>1. toolCalls[t] \in Seq(AuditRows) /\ Entry(c) \in AuditRows
  BY DEF IInv, TypeOK, Commits
<1>2. Entry(c).tool = c.req.tool /\ Entry(c).verdict = c.verdict
  BY DEF Entry
<1>3. toolCalls'[t] = IF t = c.req.session THEN Append(toolCalls[t], Entry(c)) ELSE toolCalls[t]
  BY DEF Commits
<1> QED
  BY <1>1, <1>2, <1>3, CountAppend

\* A session is assessed by the commit that adds the assessment.
LEMMA EffectAssesses ==
  ASSUME NEW c, Local(c), c.phase = "ready", Matches(c.adds, c.req.tool, c.verdict),
         c.loaded \in SessionRows, c.sess \in SessionRows,
         c.sess.state \in {"eligibility_assessed", "completed"}
  PROVE  c.loaded.state = "eligibility_assessed" \/ "assessment" \in c.adds
<1>1. /\ Effect(c.req, c.loaded, c.sess, c.verdict, c.guess.ok)
      /\ c.loaded.state \notin TerminalStates /\ c.loaded.state \in ExpectedStates[c.req.tool]
  BY DEF Local, StateRefusal
<1>2. CASE c.req.tool \in {"verify_identity", "verify_otp", "resend_otp", "capture_lead", "escalate"}
  <2>1. \/ c.sess.state = c.loaded.state
        \/ c.sess.state \in {"prospect", "identity_matched", "identity_verified",
                             "lead_captured", "escalated"}
    BY <1>1, <1>2 DEF Effect, SessionRows
  <2> QED
    BY <1>1, <2>1 DEF TerminalStates
<1>3. CASE c.req.tool = "check_eligibility"
  BY <1>3 DEF Matches
<1>4. CASE c.req.tool = "record_consent"
  BY <1>1, <1>4 DEF ExpectedStates, Tools
<1> QED
  BY <1>1, <1>2, <1>3, <1>4 DEF Effect

LEMMA CommitTables ==
  ASSUME IInv, TInv, DInv, NEW c, Commits(c), Filed(c), NEW t \in Sessions
  PROVE  TablesAgree(t)'
<1> DEFINE s == c.req.session
           First(u) == RowCount(toolCalls[u], {"verify_identity"}, {"sent"})
<1>1. /\ c \in CallRecords /\ c.phase = "ready" /\ s \in Sessions
      /\ c.loaded \in SessionRows /\ c.sess \in SessionRows
      /\ Local(c) /\ Current(c) /\ Matches(c.adds, c.req.tool, c.verdict)
      /\ sessions'[t] = IF t = s THEN c.sess ELSE sessions[t]
      /\ artefacts'[t]["assessment"] =
           IF t = s /\ "assessment" \in c.adds THEN artefacts[t]["assessment"] + 1
           ELSE artefacts[t]["assessment"]
  BY DEF Commits, Artefacts
<1>2. /\ c.req.tool = "verify_identity" /\ c.verdict = "sent" => c.newId # 0
      /\ c.loaded = sessions[s] /\ s \in Opened
  BY <1>1, ServiceAssumption DEF Filed, Local, Current, Opened, Matches
<1>3. /\ Own(t)' = IF t = s THEN Own(t) \cup ({c.newId} \ {0}) ELSE Own(t)
      /\ c.newId # 0 => c.newId \notin Own(s)
  <2>1. CASE t = s
    BY <2>1, TouchesOwn DEF Own
  <2>2. CASE t # s
    BY <1>1, <2>2, TouchesOwn DEF Own
  <2> QED
    BY <2>1, <2>2
<1>4. ASSUME NEW T, NEW V
      PROVE  /\ RowCount(toolCalls[t], T, V) \in Nat
             /\ RowCount(toolCalls'[t], T, V) =
                  IF t = s /\ c.req.tool \in T /\ c.verdict \in V
                  THEN RowCount(toolCalls[t], T, V) + 1 ELSE RowCount(toolCalls[t], T, V)
  BY CommitCounts
<1>5. /\ First(t) \in Nat
      /\ First(t)' = IF t = s /\ c.req.tool = "verify_identity" /\ c.verdict = "sent"
                     THEN First(t) + 1 ELSE First(t)
  BY <1>4
<1>6. /\ First(t) > 0 => Own(t) # {}
      /\ t \in Opened /\ sessions[t].state \in {"eligibility_assessed", "completed"} =>
           artefacts[t]["assessment"] > 0
  BY DEF DInv, TablesAgree
<1> HIDE DEF First
<1>7. First(t)' > 0 => Own(t)' # {}
  BY <1>2, <1>3, <1>5, <1>6
<1>8. ASSUME t \in Opened', sessions'[t].state \in {"eligibility_assessed", "completed"}
       PROVE  artefacts'[t]["assessment"] > 0
  <2>1. artefacts[t]["assessment"] \in Nat
    BY DEF IInv, TypeOK, Artefacts
  <2>2. CASE t = s
    <3>1. c.loaded.state = "eligibility_assessed" \/ "assessment" \in c.adds
      BY <1>1, <1>8, <2>2, EffectAssesses
    <3> QED
      BY <1>1, <1>2, <1>6, <2>1, <2>2, <3>1
  <2>3. CASE t # s
    BY <1>1, <1>6, <1>8, <2>3 DEF Opened
  <2> QED
    BY <2>2, <2>3
<1>9. \A i \in DOMAIN toolCalls'[t] :
         Says(toolCalls'[t][i].tool, toolCalls'[t][i].verdict, toolCalls'[t][i].reply.outcome)
  <2>1. toolCalls'[t] = IF t = s THEN Append(toolCalls[t], Entry(c)) ELSE toolCalls[t]
    BY DEF Commits
  <2>2. /\ Entry(c).tool = c.req.tool /\ Entry(c).verdict = c.verdict
        /\ Entry(c).reply = c.reply
    BY DEF Entry
  <2>3. Says(Entry(c).tool, Entry(c).verdict, Entry(c).reply.outcome)
    BY <1>1, <2>2 DEF Filed
  <2>4. PICK rows \in Seq(AuditRows) : rows = toolCalls[t]
    BY DEF IInv, TypeOK
  <2>5. \A i \in DOMAIN rows : Says(rows[i].tool, rows[i].verdict, rows[i].reply.outcome)
    BY <2>4 DEF DInv, TablesAgree
  <2>6. PICK e \in AuditRows : e = Entry(c)
    BY DEF Commits
  <2>7. \A i \in DOMAIN Append(rows, e) :
          \/ Append(rows, e)[i] = e
          \/ i \in DOMAIN rows /\ Append(rows, e)[i] = rows[i]
    OBVIOUS
  <2> QED
    BY <2>1, <2>3, <2>4, <2>5, <2>6, <2>7
<1> QED
  BY <1>7, <1>8, <1>9 DEF TablesAgree, First

LEMMA NextDInv ==
  ASSUME IInv, LInv, TInv, FInv, DInv, [Next]_vars
  PROVE  DInv'
<1>1. CASE \E p \in Handlers : RecordCall(p)
  <2>1. PICK p \in Handlers : RecordCall(p)
    BY <1>1
  <2>2. PICK c : c = calls[p] /\ Commits(c) /\ Filed(c)
    BY <2>1, CommitsCurrent DEF FInv
  <2> QED
    BY <2>2, CommitTables DEF DInv
<1>2. CASE \E s \in Sessions : StartSession(s)
  <2>1. PICK s \in Sessions : StartSession(s)
    BY <1>2
  <2> DEFINE new == [state |-> "started", customer |-> None,
                     identity_attempts |-> 0, otp_resends |-> 0]
  <2>2. /\ \A t \in Sessions : sessions'[t] = IF t = s THEN new ELSE sessions[t]
        /\ UNCHANGED <<challenges, artefacts, toolCalls>> /\ new.state = "started"
    BY <2>1 DEF StartSession, IInv, TypeOK
  <2> HIDE DEF new
  <2> QED
    BY <2>2 DEF DInv, TablesAgree, Own, RowCount, Opened
<1>3. CASE UNCHANGED <<sessions, challenges, artefacts, toolCalls>>
  BY <1>3 DEF DInv, TablesAgree, Own, RowCount, Opened
<1> QED
  BY <1>1, <1>2, <1>3, WhoWrites

LEMMA InitDInv == Init => DInv
<1> SUFFICES ASSUME Init, NEW s \in Sessions PROVE TablesAgree(s)
  BY DEF DInv
<1>1. /\ toolCalls[s] = <<>> /\ Own(s) = {} /\ s \notin Opened
      /\ artefacts[s]["assessment"] = 0
  BY DEF Init, Own, Opened, Artefacts
<1>2. \A T, V : RowCount(toolCalls[s], T, V) = 0
  <2> TAKE T, V
  <2>1. {i \in DOMAIN toolCalls[s] : toolCalls[s][i].tool \in T
                                     /\ toolCalls[s][i].verdict \in V} = {}
    BY <1>1
  <2> QED
    BY <2>1, FS_EmptySet DEF RowCount
<1>3. DOMAIN toolCalls[s] = {}
  BY <1>1
<1> QED
  BY <1>1, <1>2, <1>3 DEF TablesAgree
-----------------------------------------------------------------------------
(* The record, read statement by statement *)

Codes == UNION {[D -> Nat] : D \in SUBSET Nat}

Views == [session : Sessions \cup {None}, next : 0..8, row : SessionRows \cup {None},
          found : [Artefacts -> Nat], codes : Codes, trail : Seq(AuditRows), quiet : BOOLEAN]

\* Each part of a record is covered by the rows given, its row by CoversRow, ...
CoversFound(found, rows) ==
  /\ found["assessment"] <= RowCount(rows, {"check_eligibility"}, Decisions)
  /\ found["ticket"] <= RowCount(rows, {"escalate"}, Verdicts)
  /\ found["lead"] <= RowCount(rows, {"capture_lead"}, Verdicts)
  /\ \A a \in Answers : found[a] <= RowCount(rows, {"record_consent"}, {a})

CoversCodes(codes, rows) ==
  /\ IsFiniteSet(DOMAIN codes)
  /\ Cardinality(DOMAIN codes) <= RowCount(rows, Issuers, CodeSent)
  /\ (\E i \in DOMAIN codes : codes[i] > 0) => RowCount(rows, {"verify_otp"}, Compares) > 0

Covered(v, rows) ==
  /\ v.next > 1 => v.row # None /\ CoversRow(v.row, rows)
  /\ CoversFound(v.found, rows) /\ CoversCodes(v.codes, rows)

\* ... a state that was shown is followed by one that keeps what backs it, ...
StaysBacked(v, row, owned) ==
  v.next > 1 =>
    /\ row # None
    /\ v.row.state \in TerminalStates => row.state = v.row.state
    /\ v.row.state \in {"eligibility_assessed", "completed"} => owned["assessment"] > 0
    /\ v.row.state \in {"identity_matched", "identity_verified"} => row.state # "started"

\* ... and is backed by the parts read after it.
ShownBacked(v, rows) ==
  /\ v.next > 2 /\ v.row.state \in {"eligibility_assessed", "completed"} =>
       v.found["assessment"] = 1
  /\ v.next > 3 /\ v.row.state = "completed" => v.found["granted"] = 1
  /\ v.next > 4 /\ v.row.state = "escalated" => v.found["ticket"] = 1
  /\ v.next > 5 /\ v.row.state = "lead_captured" => v.found["lead"] = 1
  /\ v.next > 6 /\ v.row.state \in {"identity_matched", "identity_verified"}
       /\ RowCount(rows, {"verify_identity"}, {"sent"}) > 0 => DOMAIN v.codes # {}

CInv ==
  /\ view \in Views
  /\ view.next > 0 =>
       /\ view.session \in Sessions /\ sessions[view.session] # None
       /\ Covered(view, toolCalls[view.session])
  /\ Complete => Covered(view, view.trail)

VInv ==
  /\ view.next > 0 =>
       /\ StaysBacked(view, sessions[view.session], artefacts[view.session])
       /\ ShownBacked(view, toolCalls[view.session])
  /\ Complete => ShownBacked(view, view.trail)

LEMMA SevenStatements ==
  /\ Len(Statements) = 7 /\ DOMAIN Statements = 1..7
  /\ Statements[1] = "session" /\ Statements[2] = "assessment" /\ Statements[3] = "consents"
  /\ Statements[4] = "escalation" /\ Statements[5] = "lead"
  /\ Statements[6] = "challenges" /\ Statements[7] = "tool_calls"
BY DEF Statements

\* A longer trail covers what a shorter one did.
LEMMA CoversMore ==
  ASSUME NEW v \in Views, NEW rows \in Seq(AuditRows), NEW more \in Seq(AuditRows),
         \A i \in DOMAIN rows : i \in DOMAIN more /\ more[i] = rows[i],
         \A T, V : RowCount(rows, T, V) <= RowCount(more, T, V),
         Covered(v, rows)
  PROVE  Covered(v, more)
<1>1. \A T, V : RowCount(rows, T, V) \in Nat /\ RowCount(more, T, V) \in Nat
  BY RowCountNat
<1>2. v.next > 1 => CoversRow(v.row, more)
  <2> SUFFICES ASSUME v.next > 1 PROVE CoversRow(v.row, more)
    OBVIOUS
  <2>1. CoversRow(v.row, rows) /\ v.row \in SessionRows
    BY DEF Covered, Views
  <2>2. v.row.state \in {"started"} \cup {more[i].reply.state : i \in DOMAIN more}
    BY <2>1 DEF CoversRow
  <2>3. v.row.identity_attempts \in Nat /\ v.row.otp_resends \in Nat
    BY <2>1 DEF SessionRows
  <2>4. /\ v.row.identity_attempts <= RowCount(more, {"verify_identity"}, Failures)
        /\ v.row.otp_resends <= RowCount(more, {"resend_otp"}, {"sent"})
    BY <1>1, <2>1, <2>3, SMTT(30) DEF CoversRow
  <2> QED
    BY <2>2, <2>4 DEF CoversRow
<1>3. CoversFound(v.found, more)
  <2>1. \A k \in Artefacts : v.found[k] \in Nat
    BY DEF Views
  <2>2. CoversFound(v.found, rows)
    BY DEF Covered
  <2>3. /\ v.found["assessment"] <= RowCount(more, {"check_eligibility"}, Decisions)
        /\ v.found["ticket"] <= RowCount(more, {"escalate"}, Verdicts)
        /\ v.found["lead"] <= RowCount(more, {"capture_lead"}, Verdicts)
    BY <1>1, <2>1, <2>2, SMTT(30) DEF CoversFound, Artefacts
  <2>4. ASSUME NEW a \in Answers
        PROVE  v.found[a] <= RowCount(more, {"record_consent"}, {a})
    <3>1. v.found[a] \in Nat /\ v.found[a] <= RowCount(rows, {"record_consent"}, {a})
      BY <2>1, <2>2 DEF CoversFound, Artefacts, Answers
    <3> QED
      BY <1>1, <3>1
  <2> QED
    BY <2>3, <2>4 DEF CoversFound
<1>4. CoversCodes(v.codes, more)
  <2>1. CoversCodes(v.codes, rows)
    BY DEF Covered
  <2>2. Cardinality(DOMAIN v.codes) \in Nat
    BY <2>1, FS_CardinalityType DEF CoversCodes
  <2> QED
    BY <1>1, <2>1, <2>2 DEF CoversCodes
<1> QED
  BY <1>2, <1>3, <1>4 DEF Covered
-----------------------------------------------------------------------------
(* The service goes on between the statements *)

\* A commit keeps the rows of the session a record is read of.
LEMMA RowsGrow ==
  ASSUME IInv, IInv', [Next]_vars, NEW s \in Sessions, sessions[s] # None
  PROVE  /\ sessions'[s] # None
         /\ toolCalls[s] \in Seq(AuditRows) /\ toolCalls'[s] \in Seq(AuditRows)
         /\ \A i \in DOMAIN toolCalls[s] :
              i \in DOMAIN toolCalls'[s] /\ toolCalls'[s][i] = toolCalls[s][i]
         /\ \A T, V : RowCount(toolCalls[s], T, V) <= RowCount(toolCalls'[s], T, V)
<1>1. toolCalls[s] \in Seq(AuditRows) /\ toolCalls'[s] \in Seq(AuditRows)
  BY DEF IInv, TypeOK
<1>2. \A T, V : RowCount(toolCalls[s], T, V) \in Nat
  BY <1>1, RowCountNat
<1>3. CASE \E p \in Handlers : RecordCall(p)
  <2>1. PICK p \in Handlers : RecordCall(p)
    BY <1>3
  <2>2. PICK c, u, entry :
          /\ c = calls[p] /\ u = c.req.session
          /\ entry = [tool |-> c.req.tool, key |-> c.req.key,
                      verdict |-> c.verdict, reply |-> c.reply]
    OBVIOUS
  <2>3. /\ c.phase = "ready"
        /\ sessions' = [sessions EXCEPT ![u] = UpdatedRow(sessions[u], c.loaded, c.sess)]
        /\ toolCalls' = [toolCalls EXCEPT ![u] = Append(toolCalls[u], entry)]
    BY <2>1, <2>2 DEF RecordCall
  <2>4. /\ c \in CallRecords /\ GoodCall(c) /\ u \in Sessions /\ c.req \in Requests
        /\ c.loaded \in SessionRows /\ c.sess \in SessionRows
    BY <2>2, <2>3, InFlightCall
  <2>5. entry \in AuditRows
    BY <2>2, <2>3, <2>4 DEF GoodCall, AuditRows, CallRecords, Requests
  <2>6. sessions'[s] # None
    <3>1. sessions[s] \in SessionRows
      BY DEF IInv, TypeOK
    <3>2. UpdatedRow(sessions[s], c.loaded, c.sess) \in SessionRows
      BY <2>4, <3>1, UpdatedRowOK
    <3>3. sessions'[s] = IF s = u THEN UpdatedRow(sessions[s], c.loaded, c.sess) ELSE sessions[s]
      BY <2>3, <2>4 DEF IInv, TypeOK
    <3> QED
      BY <3>1, <3>2, <3>3, ServiceAssumption
  <2>7. toolCalls'[s] = IF s = u THEN Append(toolCalls[s], entry) ELSE toolCalls[s]
    BY <2>3, <2>4 DEF IInv, TypeOK
  <2>8. \A i \in DOMAIN toolCalls[s] :
          i \in DOMAIN toolCalls'[s] /\ toolCalls'[s][i] = toolCalls[s][i]
    BY <1>1, <2>5, <2>7
  <2>9. \A T, V : RowCount(toolCalls[s], T, V) <= RowCount(toolCalls'[s], T, V)
    <3> TAKE T, V
    <3>1. PICK n \in Nat : n = RowCount(toolCalls[s], T, V)
      BY <1>2
    <3>2. CASE s = u
      <4>1. RowCount(toolCalls'[s], T, V) =
              IF entry.tool \in T /\ entry.verdict \in V
              THEN RowCount(toolCalls[s], T, V) + 1 ELSE RowCount(toolCalls[s], T, V)
        BY <1>1, <2>5, <2>7, <3>2, CountAppend
      <4>2. RowCount(toolCalls'[s], T, V) = n \/ RowCount(toolCalls'[s], T, V) = n + 1
        BY <3>1, <4>1
      <4> QED
        BY <3>1, <4>2
    <3>3. CASE s # u
      BY <2>7, <3>1, <3>3
    <3> QED
      BY <3>2, <3>3
  <2> QED
    BY <1>1, <1>2, <2>6, <2>8, <2>9
<1>4. CASE \E t \in Sessions : StartSession(t)
  <2>1. PICK t \in Sessions : StartSession(t)
    BY <1>4
  <2>2. s # t /\ sessions'[s] = sessions[s] /\ UNCHANGED toolCalls
    BY <2>1 DEF StartSession, IInv, TypeOK
  <2> QED
    BY <1>1, <1>2, <2>2
<1>5. CASE UNCHANGED <<sessions, challenges, artefacts, toolCalls>>
  BY <1>1, <1>2, <1>5
<1> QED
  BY <1>3, <1>4, <1>5, WhoWrites

\* And what backs its state, where no request commits on rows that have changed.
LEMMA BackingKept ==
  ASSUME IInv, LInv, TInv, [Next]_vars, NEW s \in Sessions, sessions[s] # None
  PROVE  /\ artefacts[s]["assessment"] > 0 => artefacts'[s]["assessment"] > 0
         /\ sessions[s].state \in TerminalStates => sessions'[s].state = sessions[s].state
         /\ sessions[s].state # "started" =>
              /\ sessions'[s].state # "started"
              /\ RowCount(toolCalls'[s], {"verify_identity"}, {"sent"})
                   = RowCount(toolCalls[s], {"verify_identity"}, {"sent"})
<1>1. CASE \E p \in Handlers : RecordCall(p)
  <2>1. PICK c : Commits(c)
    BY <1>1, CommitsCurrent
  <2>2. /\ c.phase = "ready" /\ Local(c) /\ Current(c)
        /\ c.loaded \in SessionRows /\ c.sess \in SessionRows
        /\ sessions'[s] = IF s = c.req.session THEN c.sess ELSE sessions[s]
        /\ artefacts'[s]["assessment"] =
             IF s = c.req.session /\ "assessment" \in c.adds
             THEN artefacts[s]["assessment"] + 1 ELSE artefacts[s]["assessment"]
    BY <2>1 DEF Commits, Artefacts
  <2>3. /\ s = c.req.session => c.loaded = sessions[s]
        /\ Effect(c.req, c.loaded, c.sess, c.verdict, c.guess.ok)
        /\ StateRefusal(c.loaded.state, c.req.tool) = "none"
    BY <2>2 DEF Local, Current
  <2>4. artefacts[s]["assessment"] > 0 => artefacts'[s]["assessment"] > 0
    <3>1. artefacts[s]["assessment"] \in Nat
      BY DEF IInv, TypeOK, Artefacts
    <3> QED
      BY <2>2, <3>1
  <2>5. s = c.req.session => c.loaded.state \notin TerminalStates
    BY <2>3 DEF StateRefusal
  <2>6. c.req.tool = "verify_identity" => c.loaded.state = "started"
    <3>1. c.req.tool = "verify_identity" => ExpectedStates[c.req.tool] = {"started"}
      BY DEF ExpectedStates, Tools
    <3> QED
      BY <2>3, <3>1 DEF StateRefusal
  <2>7. c.loaded.state # "started" => c.sess.state # "started"
    BY <2>2, <2>3 DEF Effect, SessionRows
  <2>8. sessions[s].state \in TerminalStates => sessions'[s].state = sessions[s].state
    BY <2>2, <2>3, <2>5
  <2>9. sessions[s].state # "started" => sessions'[s].state # "started"
    BY <2>2, <2>3, <2>7
  <2>10. sessions[s].state # "started" =>
           RowCount(toolCalls'[s], {"verify_identity"}, {"sent"})
             = RowCount(toolCalls[s], {"verify_identity"}, {"sent"})
    BY <2>1, <2>3, <2>6, CommitCounts
  <2> QED
    BY <2>4, <2>8, <2>9, <2>10
<1>2. CASE \E t \in Sessions : StartSession(t)
  <2>1. PICK t \in Sessions : StartSession(t)
    BY <1>2
  <2>2. s # t /\ sessions'[s] = sessions[s] /\ UNCHANGED <<toolCalls, artefacts>>
    BY <2>1 DEF StartSession, IInv, TypeOK
  <2> QED
    BY <2>2
<1>3. CASE UNCHANGED <<sessions, challenges, artefacts, toolCalls>>
  BY <1>3
<1> QED
  BY <1>1, <1>2, <1>3, WhoWrites

LEMMA ServeSteps ==
  ASSUME Serve
  PROVE  [Next]_vars /\ view' = [view EXCEPT !.quiet = FALSE]
BY DEF Serve, Disturbed, Next, Finalize

\* What the service does meanwhile leaves the record as it was.
LEMMA ServeKeepsView ==
  ASSUME CInv, Serve, NEW v, v = view'
  PROVE  /\ v \in Views /\ v.session = view.session /\ v.next = view.next /\ v.row = view.row
         /\ v.found = view.found /\ v.codes = view.codes /\ v.trail = view.trail
<1>1. view' = [view EXCEPT !.quiet = FALSE] /\ view \in Views
  BY ServeSteps DEF CInv
<1> QED
  BY <1>1 DEF Views

LEMMA ServeCInv ==
  ASSUME IInv, IInv', CInv, Serve
  PROVE  CInv'
<1>1. PICK v : v = view'
  OBVIOUS
<1>2. /\ v \in Views /\ v.session = view.session /\ v.next = view.next /\ v.row = view.row
      /\ v.found = view.found /\ v.codes = view.codes /\ v.trail = view.trail
  BY <1>1, ServeKeepsView
<1>3. ASSUME v.next > 0
      PROVE  /\ v.session \in Sessions /\ sessions'[v.session] # None
             /\ Covered(v, toolCalls'[v.session])
  <2>1. PICK s : s = v.session
    OBVIOUS
  <2>2. s \in Sessions /\ sessions[s] # None /\ Covered(v, toolCalls[s])
    BY <1>2, <1>3, <2>1 DEF CInv, Covered
  <2>3. /\ sessions'[s] # None
        /\ toolCalls[s] \in Seq(AuditRows) /\ toolCalls'[s] \in Seq(AuditRows)
        /\ \A i \in DOMAIN toolCalls[s] :
             i \in DOMAIN toolCalls'[s] /\ toolCalls'[s][i] = toolCalls[s][i]
        /\ \A T, V : RowCount(toolCalls[s], T, V) <= RowCount(toolCalls'[s], T, V)
    BY <2>2, ServeSteps, RowsGrow
  <2>4. Covered(v, toolCalls'[s])
    BY <1>2, <2>2, <2>3, CoversMore
  <2> QED
    BY <2>1, <2>2, <2>3, <2>4
<1>4. Complete' => Covered(v, v.trail)
  <2>1. Complete' <=> Complete
    BY <1>1, <1>2 DEF Complete
  <2> QED
    BY <1>2, <2>1 DEF CInv, Covered
<1> QED
  BY <1>1, <1>2, <1>3, <1>4 DEF CInv

LEMMA ServeVInv ==
  ASSUME IInv, IInv', LInv, TInv, CInv, VInv, Serve
  PROVE  VInv'
<1>1. PICK v : v = view'
  OBVIOUS
<1>2. /\ v \in Views /\ v.session = view.session /\ v.next = view.next /\ v.row = view.row
      /\ v.found = view.found /\ v.codes = view.codes /\ v.trail = view.trail
  BY <1>1, ServeKeepsView
<1>3. ASSUME v.next > 0
      PROVE  /\ StaysBacked(v, sessions'[v.session], artefacts'[v.session])
             /\ ShownBacked(v, toolCalls'[v.session])
  <2>1. PICK s : s = v.session
    OBVIOUS
  <2>2. /\ s \in Sessions /\ sessions[s] # None
        /\ StaysBacked(v, sessions[s], artefacts[s]) /\ ShownBacked(v, toolCalls[s])
    BY <1>2, <1>3, <2>1 DEF CInv, VInv, StaysBacked, ShownBacked
  <2>3. /\ artefacts[s]["assessment"] > 0 => artefacts'[s]["assessment"] > 0
        /\ sessions[s].state \in TerminalStates => sessions'[s].state = sessions[s].state
        /\ sessions[s].state # "started" =>
             /\ sessions'[s].state # "started"
             /\ RowCount(toolCalls'[s], {"verify_identity"}, {"sent"})
                  = RowCount(toolCalls[s], {"verify_identity"}, {"sent"})
    BY <2>2, ServeSteps, BackingKept
  <2>6. sessions'[s] # None
    BY <2>2, ServeSteps, RowsGrow
  <2>4. StaysBacked(v, sessions'[s], artefacts'[s])
    BY <2>2, <2>3, <2>6 DEF StaysBacked
  <2>5. ShownBacked(v, toolCalls'[s])
    BY <1>2, <2>2, <2>3 DEF ShownBacked, StaysBacked, Views
  <2> QED
    BY <2>1, <2>4, <2>5
<1>4. Complete' => ShownBacked(v, v.trail)
  <2>1. Complete' <=> Complete
    BY <1>1, <1>2 DEF Complete
  <2> QED
    BY <1>2, <2>1 DEF VInv, ShownBacked
<1> QED
  BY <1>1, <1>3, <1>4 DEF VInv
-----------------------------------------------------------------------------
(* The statements *)

\* What a statement finds in a table has its audit rows.
LEMMA FoundCovered ==
  ASSUME IInv, LInv, GInv, NEW s \in Sessions, NEW kinds \in SUBSET Artefacts,
         view \in Views, CoversFound(view.found, toolCalls[s])
  PROVE  /\ Found(s, kinds) \in [Artefacts -> Nat]
         /\ CoversFound(Found(s, kinds), toolCalls[s])
<1>1. /\ view.found \in [Artefacts -> Nat] /\ artefacts[s] \in [Artefacts -> Nat]
      /\ toolCalls[s] \in Seq(AuditRows)
  BY DEF Views, IInv, TypeOK
<1>2. \A T, V : RowCount(toolCalls[s], T, V) \in Nat
  BY <1>1, RowCountNat
<1>3. Found(s, kinds) \in [Artefacts -> Nat]
  BY <1>1 DEF Found
<1>4. ASSUME NEW k \in Artefacts
      PROVE  Found(s, kinds)[k] <= view.found[k] \/ Found(s, kinds)[k] <= artefacts[s][k]
  <2>1. PICK m \in Nat, n \in Nat : m = view.found[k] /\ n = artefacts[s][k]
    BY <1>1
  <2>2. Found(s, kinds)[k] = IF k \notin kinds THEN m ELSE IF k \in Answers THEN n
                             ELSE IF n > 0 THEN 1 ELSE 0
    BY <2>1 DEF Found
  <2>3. Found(s, kinds)[k] <= m \/ Found(s, kinds)[k] <= n
    BY <2>2
  <2> QED
    BY <2>1, <2>3
<1>5. ASSUME NEW k \in Artefacts, NEW n \in Nat, view.found[k] <= n, artefacts[s][k] <= n
      PROVE  Found(s, kinds)[k] <= n
  <2>1. PICK x \in Nat, y \in Nat, z \in Nat :
          x = view.found[k] /\ y = artefacts[s][k] /\ z = Found(s, kinds)[k]
    BY <1>1, <1>3
  <2> QED
    BY <1>4, <1>5, <2>1
<1>6. /\ artefacts[s]["ticket"] = RowCount(toolCalls[s], {"escalate"}, Verdicts)
      /\ artefacts[s]["lead"] = RowCount(toolCalls[s], {"capture_lead"}, Verdicts)
      /\ \A a \in Answers : artefacts[s][a] = RowCount(toolCalls[s], {"record_consent"}, {a})
  BY CountOf DEF LInv, ArtefactsAudited, Answers
<1>7. artefacts[s]["assessment"] <= RowCount(toolCalls[s], {"check_eligibility"}, Decisions)
  BY DEF GInv, TablesCovered
<1>8. \A k \in Artefacts : artefacts[s][k] \in Nat /\ artefacts[s][k] <= artefacts[s][k]
  BY <1>1
<1>9. Answers \subseteq Artefacts /\ {"assessment", "ticket", "lead"} \subseteq Artefacts
  BY DEF Answers, Artefacts
<1>10. /\ Found(s, kinds)["assessment"]
            <= RowCount(toolCalls[s], {"check_eligibility"}, Decisions)
       /\ Found(s, kinds)["ticket"] <= RowCount(toolCalls[s], {"escalate"}, Verdicts)
       /\ Found(s, kinds)["lead"] <= RowCount(toolCalls[s], {"capture_lead"}, Verdicts)
  BY <1>2, <1>5, <1>6, <1>7, <1>8, <1>9 DEF CoversFound
<1>11. ASSUME NEW a \in Answers
       PROVE  Found(s, kinds)[a] <= RowCount(toolCalls[s], {"record_consent"}, {a})
  BY <1>2, <1>5, <1>6, <1>8, <1>9 DEF CoversFound
<1> QED
  BY <1>3, <1>10, <1>11 DEF CoversFound

LEMMA CodesRead ==
  ASSUME IInv, NEW s \in Sessions
  PROVE  CodesOf(s) \in Codes /\ DOMAIN CodesOf(s) = Own(s)
<1>1. DOMAIN CodesOf(s) = Own(s)
  BY DEF CodesOf, Own
<1>2. \A i \in Own(s) : i \in Nat /\ challenges[i].attempts \in Nat
  BY DEF Own, IInv, TypeOK, ChallengeRows
<1>3. CodesOf(s) \in [Own(s) -> Nat] /\ Own(s) \in SUBSET Nat
  BY <1>2 DEF CodesOf, Own
<1> QED
  BY <1>1, <1>3 DEF Codes

\* The passcodes of a session have their audit rows.
LEMMA CodesCovered ==
  ASSUME IInv, GInv, NEW s \in Sessions
  PROVE  CoversCodes(CodesOf(s), toolCalls[s])
<1>1. \A i \in Own(s) : CodesOf(s)[i] = challenges[i].attempts
  BY DEF CodesOf, Own
<1>2. DOMAIN CodesOf(s) = Own(s) /\ IsFiniteSet(Own(s))
  BY CodesRead, FewOwn
<1> QED
  BY <1>1, <1>2 DEF CoversCodes, GInv, TablesCovered

\* The record with one part of it replaced.
LEMMA PartOf ==
  ASSUME NEW v \in Views, NEW x, NEW r,
         \/ x \in SessionRows /\ r = [v EXCEPT !.row = x]
         \/ x \in [Artefacts -> Nat] /\ r = [v EXCEPT !.found = x]
         \/ x \in Codes /\ r = [v EXCEPT !.codes = x]
         \/ x \in Seq(AuditRows) /\ r = [v EXCEPT !.trail = x]
  PROVE  /\ r \in Views /\ r.next = v.next /\ r.session = v.session /\ r.quiet = v.quiet
         /\ r = [v EXCEPT !.row = x] =>
              r.row = x /\ r.found = v.found /\ r.codes = v.codes
         /\ r = [v EXCEPT !.found = x] =>
              r.row = v.row /\ r.found = x /\ r.codes = v.codes
         /\ r = [v EXCEPT !.codes = x] =>
              r.row = v.row /\ r.found = v.found /\ r.codes = x
         /\ r = [v EXCEPT !.trail = x] =>
              r.row = v.row /\ r.found = v.found /\ r.codes = v.codes /\ r.trail = x
BY DEF Views

LEMMA NextOf ==
  ASSUME NEW r \in Views, r.next \in 1..7, NEW w, w = [r EXCEPT !.next = @ + 1]
  PROVE  /\ w \in Views /\ w.next = r.next + 1 /\ w.session = r.session
         /\ w.row = r.row /\ w.found = r.found /\ w.codes = r.codes /\ w.trail = r.trail
         /\ w.quiet = r.quiet
<1>1. PICK m \in 0..8 : m = r.next + 1
  OBVIOUS
<1>2. w = [r EXCEPT !.next = m]
  BY <1>1
<1>3. w \in Views /\ w.next = m
  BY <1>2 DEF Views
<1> QED
  BY <1>1, <1>2, <1>3 DEF Views

\* What each statement does to the record.
LEMMA StatementReads ==
  ASSUME ReadNext, NEW v \in Views, v = view, v.next \in 1..7, NEW s, s = v.session
  PROVE  \E r : /\ view' = [r EXCEPT !.next = @ + 1]
                /\ v.next = 1 => r = [v EXCEPT !.row = sessions[s]]
                /\ v.next = 2 => r = [v EXCEPT !.found = Found(s, {"assessment"})]
                /\ v.next = 3 => r = [v EXCEPT !.found = Found(s, Answers)]
                /\ v.next = 4 => r = [v EXCEPT !.found = Found(s, {"ticket"})]
                /\ v.next = 5 => r = [v EXCEPT !.found = Found(s, {"lead"})]
                /\ v.next = 6 => r = [v EXCEPT !.codes = CodesOf(s)]
                /\ v.next = 7 => r = [v EXCEPT !.trail = toolCalls[s]]
<1>1. view' = [ReadStatement(s, Statements[v.next]) EXCEPT !.next = @ + 1]
  BY DEF ReadNext
<1>2. /\ ReadStatement(s, "session") = [v EXCEPT !.row = sessions[s]]
      /\ ReadStatement(s, "assessment") = [v EXCEPT !.found = Found(s, {"assessment"})]
      /\ ReadStatement(s, "consents") = [v EXCEPT !.found = Found(s, Answers)]
      /\ ReadStatement(s, "escalation") = [v EXCEPT !.found = Found(s, {"ticket"})]
      /\ ReadStatement(s, "lead") = [v EXCEPT !.found = Found(s, {"lead"})]
      /\ ReadStatement(s, "challenges") = [v EXCEPT !.codes = CodesOf(s)]
      /\ ReadStatement(s, "tool_calls") = [v EXCEPT !.trail = toolCalls[s]]
  BY DEF ReadStatement
<1>3. PICK r : r = ReadStatement(s, Statements[v.next])
  OBVIOUS
<1>4. view' = [r EXCEPT !.next = @ + 1]
  BY <1>1, <1>3
<1>5. /\ v.next = 1 => r = [v EXCEPT !.row = sessions[s]]
      /\ v.next = 2 => r = [v EXCEPT !.found = Found(s, {"assessment"})]
      /\ v.next = 3 => r = [v EXCEPT !.found = Found(s, Answers)]
      /\ v.next = 4 => r = [v EXCEPT !.found = Found(s, {"ticket"})]
      /\ v.next = 5 => r = [v EXCEPT !.found = Found(s, {"lead"})]
      /\ v.next = 6 => r = [v EXCEPT !.codes = CodesOf(s)]
      /\ v.next = 7 => r = [v EXCEPT !.trail = toolCalls[s]]
  BY <1>2, <1>3, SevenStatements
<1> QED
  BY <1>4, <1>5

\* The record w that statement n makes of the record v of session s.
Reads(v, n, s, w) ==
  /\ w.next = n + 1 /\ w.session = s /\ w.quiet = v.quiet
  /\ n = 1 => w.row = sessions[s]
  /\ n = 2 => w.found = Found(s, {"assessment"})
  /\ n = 3 => w.found = Found(s, Answers)
  /\ n = 4 => w.found = Found(s, {"ticket"})
  /\ n = 5 => w.found = Found(s, {"lead"})
  /\ n = 6 => w.codes = CodesOf(s)
  /\ n = 7 => w.trail = toolCalls[s]
  /\ n # 1 => w.row = v.row
  /\ n \notin 2..5 => w.found = v.found
  /\ n # 6 => w.codes = v.codes

LEMMA OneStatement ==
  ASSUME IInv, CInv, ReadNext
  PROVE  \E v \in Views, n \in 1..7, s \in Sessions, w \in Views :
           /\ v = view /\ n = v.next /\ s = v.session /\ w = view'
           /\ sessions[s] # None /\ Covered(v, toolCalls[s])
           /\ Reads(v, n, s, w)
<1>1. PICK v \in Views : v = view
  BY DEF CInv
<1>2. PICK n \in 1..7, s \in Sessions :
        /\ n = v.next /\ s = v.session
        /\ sessions[s] # None /\ Covered(v, toolCalls[s])
  <2>1. v.next \in 1..7
    BY <1>1, SevenStatements DEF ReadNext
  <2> QED
    BY <1>1, <2>1 DEF CInv
<1>3. PICK r : /\ view' = [r EXCEPT !.next = @ + 1]
               /\ n = 1 => r = [v EXCEPT !.row = sessions[s]]
               /\ n = 2 => r = [v EXCEPT !.found = Found(s, {"assessment"})]
               /\ n = 3 => r = [v EXCEPT !.found = Found(s, Answers)]
               /\ n = 4 => r = [v EXCEPT !.found = Found(s, {"ticket"})]
               /\ n = 5 => r = [v EXCEPT !.found = Found(s, {"lead"})]
               /\ n = 6 => r = [v EXCEPT !.codes = CodesOf(s)]
               /\ n = 7 => r = [v EXCEPT !.trail = toolCalls[s]]
  BY <1>1, <1>2, StatementReads
<1>4. /\ sessions[s] \in SessionRows /\ toolCalls[s] \in Seq(AuditRows)
      /\ CodesOf(s) \in Codes
  BY <1>2, CodesRead DEF IInv, TypeOK
<1>5. \A kinds : Found(s, kinds) \in [Artefacts -> Nat]
  <2>1. view.found \in [Artefacts -> Nat] /\ artefacts[s] \in [Artefacts -> Nat]
    BY <1>1 DEF Views, IInv, TypeOK
  <2> QED
    BY <2>1 DEF Found
<1>6. \/ n = 1 /\ r = [v EXCEPT !.row = sessions[s]]
      \/ n \in 2..5 /\ \E f \in [Artefacts -> Nat] :
           /\ r = [v EXCEPT !.found = f]
           /\ n = 2 => f = Found(s, {"assessment"})
           /\ n = 3 => f = Found(s, Answers)
           /\ n = 4 => f = Found(s, {"ticket"})
           /\ n = 5 => f = Found(s, {"lead"})
      \/ n = 6 /\ r = [v EXCEPT !.codes = CodesOf(s)]
      \/ n = 7 /\ r = [v EXCEPT !.trail = toolCalls[s]]
  BY <1>3, <1>5
<1>7. PICK w : w = view' /\ w = [r EXCEPT !.next = @ + 1]
  BY <1>3
<1>8. ASSUME r \in Views, r.next = n, r.session = s, r.quiet = v.quiet
      PROVE  /\ w \in Views /\ w.next = n + 1 /\ w.session = s /\ w.quiet = v.quiet
             /\ w.row = r.row /\ w.found = r.found /\ w.codes = r.codes
             /\ w.trail = r.trail
  BY <1>7, <1>8, NextOf
<1>9. w \in Views /\ Reads(v, n, s, w)
  <2>1. CASE n = 1 /\ r = [v EXCEPT !.row = sessions[s]]
    <3>1. PICK x \in SessionRows : x = sessions[s]
      BY <1>4
    <3>2. r = [v EXCEPT !.row = x]
      BY <2>1, <3>1
    <3>3. /\ r \in Views /\ r.next = n /\ r.session = s /\ r.quiet = v.quiet
          /\ r.row = x /\ r.found = v.found
          /\ r.codes = v.codes
      BY <1>2, <3>2, PartOf
    <3> QED
      BY <1>8, <2>1, <3>1, <3>3 DEF Reads
  <2>2. CASE n \in 2..5
    <3>1. PICK f \in [Artefacts -> Nat] :
            /\ r = [v EXCEPT !.found = f]
            /\ n = 2 => f = Found(s, {"assessment"})
            /\ n = 3 => f = Found(s, Answers)
            /\ n = 4 => f = Found(s, {"ticket"})
            /\ n = 5 => f = Found(s, {"lead"})
      BY <1>6, <2>2
    <3>2. /\ r \in Views /\ r.next = n /\ r.session = s /\ r.quiet = v.quiet
          /\ r.row = v.row /\ r.found = f /\ r.codes = v.codes
      BY <1>2, <3>1, PartOf
    <3> QED
      BY <1>8, <2>2, <3>1, <3>2 DEF Reads
  <2>3. CASE n = 6 /\ r = [v EXCEPT !.codes = CodesOf(s)]
    <3>1. PICK x \in Codes : x = CodesOf(s)
      BY <1>4
    <3>2. r = [v EXCEPT !.codes = x]
      BY <2>3, <3>1
    <3>3. /\ r \in Views /\ r.next = n /\ r.session = s /\ r.quiet = v.quiet
          /\ r.row = v.row /\ r.found = v.found
          /\ r.codes = x
      BY <1>2, <3>2, PartOf, SMTT(30)
    <3> QED
      BY <1>8, <2>3, <3>1, <3>3 DEF Reads
  <2>4. CASE n = 7 /\ r = [v EXCEPT !.trail = toolCalls[s]]
    <3>1. PICK x \in Seq(AuditRows) : x = toolCalls[s]
      BY <1>4
    <3>2. r = [v EXCEPT !.trail = x]
      BY <2>4, <3>1
    <3>3. /\ r \in Views /\ r.next = n /\ r.session = s /\ r.quiet = v.quiet
          /\ r.row = v.row /\ r.found = v.found
          /\ r.codes = v.codes /\ r.trail = x
      BY <1>2, <3>2, PartOf
    <3> QED
      BY <1>8, <2>4, <3>1, <3>3 DEF Reads
  <2> QED
    BY <1>6, <2>1, <2>2, <2>3, <2>4
<1> QED
  BY <1>1, <1>2, <1>7, <1>9

\* Every statement adds to the record only what the trail, now and later, covers.
LEMMA ReadCInv ==
  ASSUME IInv, LInv, GInv, CInv, ReadNext
  PROVE  CInv'
<1>1. PICK v \in Views, n \in 1..7, s \in Sessions, w \in Views :
        /\ v = view /\ n = v.next /\ s = v.session /\ w = view'
        /\ sessions[s] # None /\ Covered(v, toolCalls[s])
        /\ Reads(v, n, s, w)
  BY OneStatement
<1>2. /\ CoversFound(v.found, toolCalls[s]) /\ CoversCodes(v.codes, toolCalls[s])
      /\ n > 1 => v.row # None /\ CoversRow(v.row, toolCalls[s])
  BY <1>1 DEF Covered
<1>3. w.row # None /\ CoversRow(w.row, toolCalls[s])
  <2>1. CoversRow(sessions[s], toolCalls[s])
    BY <1>1 DEF GInv, TablesCovered, Opened
  <2> QED
    BY <1>1, <1>2, <2>1 DEF Reads
<1>4. CoversFound(w.found, toolCalls[s])
  <2>1. \A kinds \in SUBSET Artefacts : CoversFound(Found(s, kinds), toolCalls[s])
    BY <1>1, <1>2, FoundCovered
  <2>2. /\ {"assessment"} \in SUBSET Artefacts /\ Answers \in SUBSET Artefacts
        /\ {"ticket"} \in SUBSET Artefacts /\ {"lead"} \in SUBSET Artefacts
    BY DEF Artefacts, Answers
  <2>3. n = 1 \/ n = 2 \/ n = 3 \/ n = 4 \/ n = 5 \/ n = 6 \/ n = 7
    BY <1>1
  <2> QED
    BY <1>1, <1>2, <2>1, <2>2, <2>3 DEF Reads
<1>5. CoversCodes(w.codes, toolCalls[s])
  BY <1>1, <1>2, CodesCovered DEF Reads
<1>6. Covered(w, toolCalls[s])
  BY <1>3, <1>4, <1>5 DEF Covered
<1>7. Complete' => Covered(w, w.trail)
  <2>1. Complete' => n = 7
    BY <1>1, SevenStatements DEF Complete, Reads
  <2> QED
    BY <1>1, <1>6, <2>1 DEF Reads
<1>8. UNCHANGED <<sessions, toolCalls>> /\ w.session = s
  BY <1>1 DEF ReadNext, vars, Reads
<1> QED
  BY <1>1, <1>6, <1>7, <1>8 DEF CInv

\* And what it shows of the state is backed by what is shown after it.
LEMMA ReadVInv ==
  ASSUME IInv, TInv, DInv, CInv, VInv, ReadNext
  PROVE  VInv'
<1>1. PICK v \in Views, n \in 1..7, s \in Sessions, w \in Views :
        /\ v = view /\ n = v.next /\ s = v.session /\ w = view'
        /\ sessions[s] # None /\ Covered(v, toolCalls[s])
        /\ Reads(v, n, s, w)
  BY OneStatement
<1>2. StaysBacked(v, sessions[s], artefacts[s]) /\ ShownBacked(v, toolCalls[s])
  BY <1>1 DEF VInv
<1>3. /\ artefacts[s]["granted"] = IF sessions[s].state = "completed" THEN 1 ELSE 0
      /\ artefacts[s]["lead"] = IF sessions[s].state = "lead_captured" THEN 1 ELSE 0
      /\ artefacts[s]["ticket"] = IF sessions[s].state = "escalated" THEN 1 ELSE 0
      /\ TablesAgree(s) /\ s \in Opened
  BY <1>1 DEF TInv, EndingBacked, DInv, Opened
<1>4. \A kinds : \A k \in Artefacts :
        Found(s, kinds)[k] = IF k \notin kinds THEN v.found[k]
                             ELSE IF k \in Answers THEN artefacts[s][k]
                             ELSE IF artefacts[s][k] > 0 THEN 1 ELSE 0
  BY <1>1 DEF Found
<1>5. StaysBacked(w, sessions[s], artefacts[s])
  <2>1. CASE n = 1
    BY <1>1, <1>3, <2>1 DEF StaysBacked, TablesAgree, Reads
  <2>2. CASE n # 1
    BY <1>1, <1>2, <2>2 DEF StaysBacked, Reads
  <2> QED
    BY <2>1, <2>2
<1>6. ShownBacked(w, toolCalls[s])
  <2>1. CASE n = 1
    BY <1>1, <2>1 DEF ShownBacked, Reads
  <2>2. CASE n = 2
    <3>1. w.found["assessment"] = IF artefacts[s]["assessment"] > 0 THEN 1 ELSE 0
      BY <1>1, <1>4, <2>2 DEF Reads, Artefacts, Answers
    <3> QED
      BY <1>1, <1>2, <2>2, <3>1 DEF ShownBacked, StaysBacked, Reads
  <2>3. CASE n = 3
    <3>1. /\ w.found["assessment"] = v.found["assessment"]
          /\ w.found["granted"] = artefacts[s]["granted"]
      BY <1>1, <1>4, <2>3 DEF Reads, Artefacts, Answers
    <3>2. v.row.state = "completed" => sessions[s].state = "completed"
      BY <1>1, <1>2, <2>3 DEF StaysBacked, TerminalStates
    <3> QED
      BY <1>1, <1>2, <1>3, <2>3, <3>1, <3>2 DEF ShownBacked, Reads
  <2>4. CASE n = 4
    <3>1. /\ w.found["assessment"] = v.found["assessment"]
          /\ w.found["granted"] = v.found["granted"]
          /\ w.found["ticket"] = IF artefacts[s]["ticket"] > 0 THEN 1 ELSE 0
      BY <1>1, <1>4, <2>4 DEF Reads, Artefacts, Answers
    <3>2. v.row.state = "escalated" => sessions[s].state = "escalated"
      BY <1>1, <1>2, <2>4 DEF StaysBacked, TerminalStates
    <3> QED
      BY <1>1, <1>2, <1>3, <2>4, <3>1, <3>2 DEF ShownBacked, Reads
  <2>5. CASE n = 5
    <3>1. /\ w.found["assessment"] = v.found["assessment"]
          /\ w.found["granted"] = v.found["granted"] /\ w.found["ticket"] = v.found["ticket"]
          /\ w.found["lead"] = IF artefacts[s]["lead"] > 0 THEN 1 ELSE 0
      BY <1>1, <1>4, <2>5 DEF Reads, Artefacts, Answers
    <3>2. v.row.state = "lead_captured" => sessions[s].state = "lead_captured"
      BY <1>1, <1>2, <2>5 DEF StaysBacked, TerminalStates
    <3> QED
      BY <1>1, <1>2, <1>3, <2>5, <3>1, <3>2 DEF ShownBacked, Reads
  <2>6. CASE n = 6
    <3>1. DOMAIN w.codes = Own(s)
      BY <1>1, <2>6, CodesRead DEF Reads
    <3> QED
      BY <1>1, <1>2, <1>3, <2>6, <3>1 DEF ShownBacked, TablesAgree, Reads
  <2>7. CASE n = 7
    BY <1>1, <1>2, <2>7 DEF ShownBacked, Reads
  <2> QED
    BY <1>1, <2>1, <2>2, <2>3, <2>4, <2>5, <2>6, <2>7
<1>7. Complete' => ShownBacked(w, w.trail)
  <2>1. Complete' => n = 7
    BY <1>1, SevenStatements DEF Complete, Reads
  <2> QED
    BY <1>1, <1>6, <2>1 DEF Reads
<1>8. UNCHANGED <<sessions, toolCalls, artefacts>> /\ w.session = s
  BY <1>1 DEF ReadNext, vars, Reads
<1> QED
  BY <1>1, <1>5, <1>6, <1>7, <1>8 DEF VInv
-----------------------------------------------------------------------------
(* The whole *)

LEMMA OpenCInv ==
  ASSUME IInv, NEW s \in Sessions, OpenAudit(s)
  PROVE  CInv' /\ VInv'
<1>1. PICK quiet \in BOOLEAN :
        view' = [ClosedView EXCEPT !.session = s, !.next = 1, !.quiet = quiet]
  <2>1. (\A p \in Handlers : calls[p].phase = "idle") \in BOOLEAN
    OBVIOUS
  <2> QED
    BY <2>1 DEF OpenAudit
<1>2. UNCHANGED vars /\ sessions[s] # None
  BY DEF OpenAudit
<1>3. PICK w : w = view'
  OBVIOUS
<1>4. PICK codes \in Codes : codes = [i \in {} |-> 0] /\ DOMAIN codes = {}
  <2>1. [i \in {} |-> 0] \in [{} -> Nat]
    OBVIOUS
  <2> QED
    BY <2>1 DEF Codes
<1>5. PICK found \in [Artefacts -> Nat] :
        found = [k \in Artefacts |-> 0] /\ \A k \in Artefacts : found[k] = 0
  <2>1. [k \in Artefacts |-> 0] \in [Artefacts -> Nat]
    OBVIOUS
  <2>2. \A k \in Artefacts : [j \in Artefacts |-> 0][k] = 0
    OBVIOUS
  <2> QED
    BY <2>1, <2>2
<1>6. ClosedView = [session |-> None, next |-> 0, row |-> None, found |-> found,
                    codes |-> codes, trail |-> <<>>, quiet |-> FALSE]
  BY <1>4, <1>5 DEF ClosedView
<1>7. w = [session |-> s, next |-> 1, row |-> None, found |-> found,
           codes |-> codes, trail |-> <<>>, quiet |-> quiet]
  BY <1>1, <1>3, <1>6
<1>8. w \in Views /\ w.next = 1 /\ w.session = s /\ w.found = found /\ w.codes = codes
  BY <1>7 DEF Views
<1>9. toolCalls[s] \in Seq(AuditRows)
  BY DEF IInv, TypeOK
<1>10. \A T, V : RowCount(toolCalls[s], T, V) \in Nat
  BY <1>9, RowCountNat
<1>11. CoversFound(found, toolCalls[s])
  BY <1>5, <1>10 DEF CoversFound, Artefacts, Answers
<1>12. CoversCodes(codes, toolCalls[s])
  BY <1>4, <1>10, FS_EmptySet DEF CoversCodes
<1>13. Covered(w, toolCalls[s]) /\ StaysBacked(w, sessions[s], artefacts[s])
       /\ ShownBacked(w, toolCalls[s])
  BY <1>8, <1>11, <1>12 DEF Covered, StaysBacked, ShownBacked
<1>14. ~Complete'
  BY <1>3, <1>8, SevenStatements DEF Complete
<1> QED
  BY <1>2, <1>3, <1>8, <1>13, <1>14 DEF CInv, VInv, vars

\* No record is being read.
LEMMA ClosedOK == ClosedView \in Views /\ ClosedView.next = 0
<1>1. PICK codes \in Codes : codes = [i \in {} |-> 0]
  <2>1. [i \in {} |-> 0] \in [{} -> Nat]
    OBVIOUS
  <2> QED
    BY <2>1 DEF Codes
<1>2. ClosedView = [session |-> None, next |-> 0, row |-> None,
                    found |-> [k \in Artefacts |-> 0],
                    codes |-> codes, trail |-> <<>>, quiet |-> FALSE]
  BY <1>1 DEF ClosedView
<1> QED
  BY <1>2 DEF Views

LEMMA NextCInv ==
  ASSUME IInv, IInv', LInv, GInv, CInv, [AuditNext]_auditVars
  PROVE  CInv'
<1>1. CASE CloseAudit
  <2>1. view' = ClosedView
    BY <1>1 DEF CloseAudit
  <2>2. ~Complete'
    BY <2>1, ClosedOK, SevenStatements DEF Complete
  <2> QED
    BY <2>1, <2>2, ClosedOK DEF CInv
<1>2. CASE UNCHANGED auditVars
  BY <1>2 DEF CInv, auditVars, vars, Complete, Covered
<1> QED
  BY <1>1, <1>2, OpenCInv, ReadCInv, ServeCInv DEF AuditNext

LEMMA NextVInv ==
  ASSUME IInv, IInv', LInv, TInv, DInv, CInv, VInv, [AuditNext]_auditVars
  PROVE  VInv'
<1>1. CASE CloseAudit
  <2>1. view' = ClosedView
    BY <1>1 DEF CloseAudit
  <2>2. ~Complete'
    BY <2>1, ClosedOK, SevenStatements DEF Complete
  <2> QED
    BY <2>1, <2>2, ClosedOK DEF VInv
<1>2. CASE UNCHANGED auditVars
  BY <1>2 DEF VInv, auditVars, vars, Complete, StaysBacked, ShownBacked
<1> QED
  BY <1>1, <1>2, OpenCInv, ReadVInv, ServeVInv DEF AuditNext

LEMMA InitCInv == AuditInit => CInv /\ VInv
<1> SUFFICES ASSUME AuditInit PROVE CInv /\ VInv
  OBVIOUS
<1>1. view = ClosedView
  BY DEF AuditInit
<1>2. ~Complete
  BY <1>1, ClosedOK, SevenStatements DEF Complete
<1> QED
  BY <1>1, <1>2, ClosedOK DEF CInv, VInv

\* The audit endpoint changes nothing of the service.
LEMMA AuditServes == [AuditNext]_auditVars => [Next]_vars
<1>1. UNCHANGED auditVars => UNCHANGED vars
  BY DEF auditVars
<1> QED
  BY <1>1, ServeSteps DEF AuditNext, OpenAudit, ReadNext, CloseAudit

LEMMA AuditOnlyReads == AuditSpec => Spec
<1>1. AuditInit => Init
  BY DEF AuditInit
<1> QED
  BY <1>1, AuditServes, PTL DEF AuditSpec, Spec

\* However requests overlap, a record read so far is covered by the trail.
THEOREM RecordInvariance == AuditSpec => [](IInv /\ LInv /\ GInv /\ CInv)
<1>1. AuditSpec => [](IInv /\ LInv /\ GInv)
  BY RowsInvariance, AuditOnlyReads, PTL
<1>2. AuditInit => CInv
  BY InitCInv
<1>3. IInv /\ IInv' /\ LInv /\ GInv /\ CInv /\ [AuditNext]_auditVars => CInv'
  BY NextCInv
<1> QED
  BY <1>1, <1>2, <1>3, PTL DEF AuditSpec

THEOREM AuditInvariance ==
  ASSUME OnlyRetriesOverlap
  PROVE  AuditSpec => [](TInv /\ FInv /\ DInv /\ VInv)
<1>1. AuditSpec => [](IInv /\ LInv /\ TInv /\ CInv)
  BY RecordInvariance, TurnInvariance, AuditOnlyReads, PTL
<1>2. AuditInit => FInv /\ DInv /\ VInv
  BY InitFInv, InitDInv, InitCInv DEF AuditInit
<1>3. IInv /\ IInv' /\ LInv /\ TInv /\ CInv /\ FInv /\ DInv /\ VInv /\ [AuditNext]_auditVars
        => FInv' /\ DInv' /\ VInv'
  BY AuditServes, NextFInv, NextDInv, NextVInv
<1> QED
  BY <1>1, <1>2, <1>3, PTL DEF AuditSpec

LEMMA RowsInTrail ==
  \A T, V : RowsIn(T, V) = RowCount(view.trail, T, V)
BY DEF RowsIn, RowCount

\* A finished record shows nothing its audit trail does not answer for, although
\* its seven statements see seven different moments of the call and however the
\* requests of the call overlap (admin.py:49-144).
THEOREM TrailAnswersForRecord == AuditSpec => []TrailCoversRecord
<1>1. ASSUME CInv PROVE TrailCoversRecord
  <2> SUFFICES ASSUME Complete PROVE TrailCoversRecord
    BY DEF TrailCoversRecord
  <2>1. Covered(view, view.trail) /\ view.next = 8
    BY <1>1, SevenStatements DEF CInv, Complete
  <2>2. /\ CoversRow(view.row, view.trail) /\ CoversFound(view.found, view.trail)
        /\ CoversCodes(view.codes, view.trail)
    BY <2>1 DEF Covered
  <2> QED
    BY <2>2, RowsInTrail DEF TrailCoversRecord, CoversRow, CoversFound, CoversCodes
<1>2. CInv => TrailCoversRecord
  BY <1>1
<1> QED
  BY <1>2, RecordInvariance, PTL

\* The state a finished record gives and the rows it gives agree, although they
\* were read by different statements (admin.py:53-78).
THEOREM RecordBacksState ==
  ASSUME OnlyRetriesOverlap PROVE AuditSpec => []StateBackedInRecord
<1>1. ASSUME VInv PROVE StateBackedInRecord
  <2> SUFFICES ASSUME Complete PROVE StateBackedInRecord
    BY DEF StateBackedInRecord
  <2>1. ShownBacked(view, view.trail) /\ view.next = 8
    BY <1>1, SevenStatements DEF VInv, Complete
  <2>2. DOMAIN view.codes # {} => view.codes # <<>>
    OBVIOUS
  <2> QED
    BY <2>1, <2>2, RowsInTrail DEF StateBackedInRecord, ShownBacked
<1>2. VInv => StateBackedInRecord
  BY <1>1
<1> QED
  BY <1>2, AuditInvariance, PTL
-----------------------------------------------------------------------------
(* What the evaluation heard, and the audit trail *)

\* The evaluation makes one request at a time, gives no key to two tools, and
\* sends no consent again (evals/run_evals.py:271-330, evals/scenarios.py).
SerialEvaluation ==
  /\ \A p, r \in Handlers : p = r
  /\ KeysApart
  /\ KeysFor["record_consent"] \subseteq {None}

Entries == [session : Sessions, tool : Tools, key : Keys \cup {None}, reply : Replies]

\* Two entries, rows or requests about the same request.
SameAsk(h, q) == h.tool = q.tool /\ h.key = q.key

\* The replies heard in s that did work are the first n rows of its trail, in the
\* order of the rows; every other reply repeats one of them.
Told(s, n) ==
  /\ Cardinality(Did(s)) = n
  /\ \A i \in Did(s) :
       /\ Rank(s, i) \in 1..n
       /\ SameAsk(heard[i], toolCalls[s][Rank(s, i)])
       /\ heard[i].reply = toolCalls[s][Rank(s, i)].reply
  /\ \A k \in 1..n : \E i \in Did(s) : Rank(s, i) = k
  /\ \A i \in HeardFrom(s) : \E j \in Did(s) : SameAsk(heard[j], heard[i])

\* q asks again what was heard before.
Again(s, q) == q.key # None /\ \E i \in HeardFrom(s) : SameAsk(heard[i], q)

Answered(c, s) ==
  c.phase = "answered" /\ c.req.session = s /\ c.reply.outcome \notin Refusals

\* All rows of s have been heard, but for the last one while its reply is on its
\* way.
Abreast(s) ==
  LET n == Len(toolCalls[s])
  IN \/ /\ Told(s, n)
        /\ \A p \in Handlers : Answered(calls[p], s) => Again(s, calls[p].req)
     \/ /\ n > 0 /\ Told(s, n - 1)
        /\ \E p \in Handlers : /\ Answered(calls[p], s) /\ ~Again(s, calls[p].req)
                               /\ SameAsk(toolCalls[s][n], calls[p].req)
                               /\ toolCalls[s][n].reply = calls[p].reply

HInv == heard \in Seq(Entries) /\ \A s \in Sessions : Abreast(s)

LEMMA HeardFew ==
  ASSUME heard \in Seq(Entries), NEW s
  PROVE  /\ HeardFrom(s) \subseteq 1..Len(heard) /\ Did(s) \subseteq HeardFrom(s)
         /\ Len(heard) \in Nat /\ IsFiniteSet(Did(s)) /\ Cardinality(Did(s)) \in Nat
<1>1. /\ Len(heard) \in Nat /\ DOMAIN heard = 1..Len(heard)
      /\ HeardFrom(s) \subseteq 1..Len(heard) /\ Did(s) \subseteq HeardFrom(s)
  BY DEF HeardFrom, Did
<1>2. IsFiniteSet(1..Len(heard)) /\ Did(s) \subseteq 1..Len(heard)
  BY <1>1, FS_Interval
<1>3. IsFiniteSet(Did(s))
  BY <1>2, FS_Subset
<1> QED
  BY <1>1, <1>3, FS_CardinalityType

\* One more reply leaves what was said of the earlier ones.
LEMMA HearMore ==
  ASSUME heard \in Seq(Entries), NEW e \in Entries, heard' = Append(heard, e),
         NEW m, m = Len(heard) + 1
  PROVE  /\ heard' \in Seq(Entries) /\ heard'[m] = e
         /\ \A s : \A i \in HeardFrom(s) : i < m /\ i \in Nat /\ heard'[i] = heard[i]
         /\ \A s : HeardFrom(s)' = HeardFrom(s) \cup (IF s = e.session THEN {m} ELSE {})
         /\ \A s : \A i \in HeardFrom(s) : IsReplay(i)' = IsReplay(i)
         /\ IsReplay(m)' <=> Again(e.session, e)
<1>1. /\ Len(heard) \in Nat /\ DOMAIN heard = 1..Len(heard) /\ m \in Nat
      /\ heard' \in Seq(Entries) /\ DOMAIN heard' = 1..m
      /\ heard'[m] = e /\ \A i \in 1..Len(heard) : heard'[i] = heard[i]
  OBVIOUS
<1>2. \A s : \A i \in HeardFrom(s) : i < m /\ i \in Nat /\ i \in 1..Len(heard)
                                     /\ heard'[i] = heard[i] /\ heard[i].session = s
  BY <1>1 DEF HeardFrom
<1>3. ASSUME NEW s
      PROVE  HeardFrom(s)' = HeardFrom(s) \cup (IF s = e.session THEN {m} ELSE {})
  <2>1. ASSUME NEW i
        PROVE  i \in HeardFrom(s)' <=> i \in HeardFrom(s) \/ (i = m /\ s = e.session)
    <3>1. i \in HeardFrom(s)' <=> i \in 1..m /\ heard'[i].session = s
      BY <1>1 DEF HeardFrom
    <3>2. i \in HeardFrom(s) <=> i \in 1..Len(heard) /\ heard[i].session = s
      BY <1>1 DEF HeardFrom
    <3>3. i \in 1..m <=> i \in 1..Len(heard) \/ i = m
      BY <1>1
    <3>4. m \notin 1..Len(heard)
      BY <1>1
    <3> QED
      BY <1>1, <3>1, <3>2, <3>3, <3>4
  <2> QED
    BY <2>1
<1>4. ASSUME NEW s, NEW i \in HeardFrom(s)
      PROVE  IsReplay(i)' = IsReplay(i)
  <2>1. heard'[i] = heard[i] /\ heard[i].session = s /\ i < m /\ i \in Nat
    BY <1>2
  <2>2. ASSUME NEW j \in HeardFrom(s)', j < i
        PROVE  j \in HeardFrom(s) /\ heard'[j] = heard[j]
    <3>1. j \in HeardFrom(s) \/ j = m
      BY <1>3
    <3>2. j # m
      BY <1>1, <2>1, <2>2
    <3> QED
      BY <1>2, <3>1, <3>2
  <2>3. \A j \in HeardFrom(s) : j \in HeardFrom(s)' /\ heard'[j] = heard[j]
    BY <1>2, <1>3
  <2> QED
    BY <2>1, <2>2, <2>3 DEF IsReplay
<1>5. IsReplay(m)' <=> Again(e.session, e)
  <2> DEFINE s == e.session
  <2>1. IsReplay(m)' <=> /\ e.key # None
                         /\ \E j \in HeardFrom(s)' :
                              j < m /\ heard'[j].tool = e.tool /\ heard'[j].key = e.key
    BY <1>1 DEF IsReplay
  <2>2. \A j \in HeardFrom(s)' : j < m => j \in HeardFrom(s) /\ heard'[j] = heard[j]
    BY <1>1, <1>2, <1>3
  <2>3. \A j \in HeardFrom(s) : j \in HeardFrom(s)' /\ heard'[j] = heard[j] /\ j < m
    BY <1>2, <1>3
  <2> QED
    BY <2>1, <2>2, <2>3 DEF Again, SameAsk
<1> QED
  BY <1>1, <1>2, <1>3, <1>4, <1>5

\* The work it does, if it did some, comes last.
LEMMA HearWork ==
  ASSUME heard \in Seq(Entries), NEW e \in Entries, heard' = Append(heard, e),
         NEW m, m = Len(heard) + 1, NEW s
  PROVE  /\ \A i \in Did(s) : Rank(s, i)' = Rank(s, i)
         /\ s = e.session /\ ~Again(s, e) =>
              /\ Did(s)' = Did(s) \cup {m}
              /\ Cardinality(Did(s)') = Cardinality(Did(s)) + 1
              /\ Rank(s, m)' = Cardinality(Did(s)) + 1
         /\ ~(s = e.session /\ ~Again(s, e)) => Did(s)' = Did(s)
<1>1. /\ \A i \in HeardFrom(s) : i < m /\ i \in Nat /\ IsReplay(i)' = IsReplay(i)
      /\ HeardFrom(s)' = HeardFrom(s) \cup (IF s = e.session THEN {m} ELSE {})
      /\ IsReplay(m)' <=> Again(e.session, e)
  BY HearMore
<1>2. /\ IsFiniteSet(Did(s)) /\ Did(s) \subseteq HeardFrom(s)
      /\ Cardinality(Did(s)) \in Nat /\ m \in Nat
  BY HeardFew
<1>3. m \notin HeardFrom(s) /\ m \notin Did(s)
  BY <1>1, <1>2
<1>4. Did(s)' = Did(s) \cup (IF s = e.session /\ ~Again(s, e) THEN {m} ELSE {})
  BY <1>1, <1>3 DEF Did
<1>5. ASSUME NEW i \in Did(s) PROVE Rank(s, i)' = Rank(s, i)
  <2>1. {j \in Did(s)' : j <= i} = {j \in Did(s) : j <= i}
    BY <1>1, <1>2, <1>4
  <2> QED
    BY <2>1 DEF Rank
<1>6. CASE s = e.session /\ ~Again(s, e)
  <2>1. Did(s)' = Did(s) \cup {m}
    BY <1>4, <1>6
  <2>2. Cardinality(Did(s)') = Cardinality(Did(s)) + 1
    BY <1>2, <1>3, <2>1, FS_AddElement
  <2>3. {j \in Did(s)' : j <= m} = Did(s)'
    BY <1>1, <1>2, <2>1
  <2>4. Rank(s, m)' = Cardinality(Did(s)')
    BY <2>3 DEF Rank
  <2> QED
    BY <1>5, <1>6, <2>1, <2>2, <2>4
<1> QED
  BY <1>4, <1>5, <1>6

\* A reply from elsewhere, or one that repeats an earlier one, is no work.
LEMMA HearNothingNew ==
  ASSUME heard \in Seq(Entries), NEW e \in Entries, heard' = Append(heard, e),
         NEW s, UNCHANGED toolCalls, NEW n, Told(s, n),
         s = e.session => Again(s, e)
  PROVE  Told(s, n)'
<1>1. PICK m : m = Len(heard) + 1
  OBVIOUS
<1>2. /\ Did(s)' = Did(s) /\ \A i \in Did(s) : Rank(s, i)' = Rank(s, i)
      /\ \A i \in HeardFrom(s) : heard'[i] = heard[i]
      /\ HeardFrom(s)' = HeardFrom(s) \cup (IF s = e.session THEN {m} ELSE {})
      /\ heard'[m] = e
  <2>1. Did(s)' = Did(s) /\ \A i \in Did(s) : Rank(s, i)' = Rank(s, i)
    BY <1>1, HearWork
  <2>2. /\ \A i \in HeardFrom(s) : heard'[i] = heard[i]
        /\ HeardFrom(s)' = HeardFrom(s) \cup (IF s = e.session THEN {m} ELSE {})
        /\ heard'[m] = e
    BY <1>1, HearMore, ZenonT(30)
  <2> QED
    BY <2>1, <2>2
<1>3. Did(s) \subseteq HeardFrom(s)
  BY HeardFew
<1>4. ASSUME NEW i \in HeardFrom(s)'
      PROVE  \E j \in Did(s) : SameAsk(heard'[j], heard'[i])
  <2>1. CASE i \in HeardFrom(s)
    BY <1>2, <1>3, <2>1 DEF Told
  <2>2. CASE i \notin HeardFrom(s)
    <3>1. i = m /\ s = e.session
      BY <1>2, <1>4, <2>2
    <3>2. PICK k \in HeardFrom(s) : SameAsk(heard[k], e)
      BY <3>1 DEF Again
    <3>3. PICK j \in Did(s) : SameAsk(heard[j], heard[k])
      BY DEF Told
    <3> QED
      BY <1>2, <1>3, <3>1, <3>2, <3>3 DEF SameAsk
  <2> QED
    BY <2>1, <2>2
<1>5. \A i \in Did(s) : /\ Rank(s, i) \in 1..n /\ heard'[i] = heard[i]
                        /\ SameAsk(heard[i], toolCalls[s][Rank(s, i)])
                        /\ heard[i].reply = toolCalls[s][Rank(s, i)].reply
  BY <1>2, <1>3 DEF Told
<1>6. Cardinality(Did(s)) = n /\ \A k \in 1..n : \E i \in Did(s) : Rank(s, i) = k
  BY DEF Told
<1>7. ASSUME NEW i \in Did(s)'
      PROVE  /\ Rank(s, i)' \in 1..n
             /\ SameAsk(heard'[i], toolCalls'[s][Rank(s, i)'])
             /\ heard'[i].reply = toolCalls'[s][Rank(s, i)'].reply
  <2>1. i \in Did(s) /\ Rank(s, i)' = Rank(s, i) /\ toolCalls' = toolCalls
    BY <1>2
  <2> QED
    BY <1>5, <2>1
<1>8. \A i \in HeardFrom(s)' : \E j \in Did(s)' : SameAsk(heard[j], heard[i])'
  BY <1>2, <1>4 DEF SameAsk
<1>9. Cardinality(Did(s)') = n /\ \A k \in 1..n : \E i \in Did(s)' : Rank(s, i)' = k
  BY <1>2, <1>6
<1> QED
  BY <1>7, <1>8, <1>9 DEF Told

\* The reply to the request recorded last.
LEMMA HearLast ==
  ASSUME heard \in Seq(Entries), NEW e \in Entries, heard' = Append(heard, e),
         NEW s, s = e.session, UNCHANGED toolCalls, NEW n \in Nat, n > 0, Told(s, n - 1),
         ~Again(s, e), SameAsk(toolCalls[s][n], e), toolCalls[s][n].reply = e.reply
  PROVE  Told(s, n)'
<1>1. PICK m : m = Len(heard) + 1
  OBVIOUS
<1>2. /\ Did(s)' = Did(s) \cup {m} /\ \A i \in Did(s) : Rank(s, i)' = Rank(s, i)
      /\ Cardinality(Did(s)') = Cardinality(Did(s)) + 1
      /\ Rank(s, m)' = Cardinality(Did(s)) + 1
      /\ \A i \in HeardFrom(s) : heard'[i] = heard[i]
      /\ HeardFrom(s)' = HeardFrom(s) \cup {m} /\ heard'[m] = e
  <2>1. /\ Did(s)' = Did(s) \cup {m} /\ \A i \in Did(s) : Rank(s, i)' = Rank(s, i)
        /\ Cardinality(Did(s)') = Cardinality(Did(s)) + 1
        /\ Rank(s, m)' = Cardinality(Did(s)) + 1
    BY <1>1, HearWork
  <2>2. /\ \A i \in HeardFrom(s) : heard'[i] = heard[i]
        /\ HeardFrom(s)' = HeardFrom(s) \cup {m} /\ heard'[m] = e
    BY <1>1, HearMore, ZenonT(30)
  <2> QED
    BY <2>1, <2>2
<1>3. Did(s) \subseteq HeardFrom(s)
  BY HeardFew
<1>4. /\ Cardinality(Did(s)) = n - 1 /\ Cardinality(Did(s)') = n
      /\ Rank(s, m)' = n /\ n \in 1..n
  BY <1>2 DEF Told
<1>5. ASSUME NEW i \in Did(s)'
      PROVE  /\ Rank(s, i)' \in 1..n
             /\ SameAsk(heard'[i], toolCalls'[s][Rank(s, i)'])
             /\ heard'[i].reply = toolCalls'[s][Rank(s, i)'].reply
  <2>1. CASE i = m
    <3>1. Rank(s, i)' = n
      BY <1>4, <2>1 DEF Rank
    <3> QED
      BY <1>2, <1>4, <2>1, <3>1 DEF SameAsk
  <2>2. CASE i # m
    <3>1. i \in Did(s) /\ Rank(s, i)' = Rank(s, i) /\ heard'[i] = heard[i]
      BY <1>2, <1>3, <1>5, <2>2
    <3>2. /\ Rank(s, i) \in 1..(n - 1)
          /\ SameAsk(heard[i], toolCalls[s][Rank(s, i)])
          /\ heard[i].reply = toolCalls[s][Rank(s, i)].reply
      BY <3>1 DEF Told
    <3> QED
      BY <3>1, <3>2
  <2> QED
    BY <2>1, <2>2
<1>6. ASSUME NEW k \in 1..n
      PROVE  \E i \in Did(s)' : Rank(s, i)' = k
  <2>1. CASE k = n
    BY <1>2, <1>4, <2>1
  <2>2. CASE k # n
    <3>1. k \in 1..(n - 1)
      BY <2>2
    <3>2. PICK i \in Did(s) : Rank(s, i) = k
      BY <3>1 DEF Told
    <3> QED
      BY <1>2, <3>2
  <2> QED
    BY <2>1, <2>2
<1>7. ASSUME NEW i \in HeardFrom(s)'
      PROVE  \E j \in Did(s)' : SameAsk(heard'[j], heard'[i])
  <2>1. CASE i = m
    BY <1>2, <2>1 DEF SameAsk
  <2>2. CASE i # m
    <3>1. i \in HeardFrom(s) /\ heard'[i] = heard[i]
      BY <1>2, <1>7, <2>2
    <3>2. PICK j \in Did(s) : SameAsk(heard[j], heard[i])
      BY <3>1 DEF Told
    <3> QED
      BY <1>2, <1>3, <3>1, <3>2
  <2> QED
    BY <2>1, <2>2
<1> QED
  BY <1>4, <1>5, <1>6, <1>7 DEF Told

\* The trail may grow while nothing is heard.
LEMMA ToldKept ==
  ASSUME UNCHANGED heard, NEW s, NEW n, Told(s, n),
         \A k \in 1..n : toolCalls'[s][k] = toolCalls[s][k]
  PROVE  Told(s, n)'
<1>1. /\ Did(s)' = Did(s) /\ HeardFrom(s)' = HeardFrom(s)
      /\ \A i : Rank(s, i)' = Rank(s, i)
  <2>1. HeardFrom(s)' = HeardFrom(s)
    BY DEF HeardFrom
  <2>2. \A i : IsReplay(i)' = IsReplay(i)
    BY DEF IsReplay, HeardFrom
  <2>3. Did(s)' = Did(s)
    BY <2>1, <2>2 DEF Did
  <2> QED
    BY <2>1, <2>3 DEF Rank
<1> QED
  BY <1>1 DEF Told
-----------------------------------------------------------------------------
(* The steps of a request, and what is heard of them *)

LEMMA AnswerIs ==
  \A q, rep : /\ AnsweredCall(q, rep).phase = "answered"
              /\ AnsweredCall(q, rep).req = q /\ AnsweredCall(q, rep).reply = rep
BY DEF AnsweredCall, IdleCall

\* A handler at work answers nothing itself, but a refused move.
LEMMA WorkGoesOn ==
  ASSUME IInv, TInv, NEW p \in Handlers, Work(p)
  PROVE  /\ calls[p].phase = "loaded"
         /\ \E c : /\ calls' = [calls EXCEPT ![p] = c]
                   /\ c.phase = "answered" => c.reply.outcome \in Refusals
<1>1. PICK d \in CallRecords : d = calls[p] /\ d.phase = "loaded"
  BY DEF IInv, TypeOK, Work, VerifyIdentityMatched, VerifyIdentityUnknown,
     VerifyIdentityFailed, VerifyOtpUnchecked, VerifyOtpChecked, ResendOtp, CaptureLead,
     CheckEligibility, RecordConsent, Escalate, Working
<1>2. ASSUME NEW c, calls' = [calls EXCEPT ![p] = c],
             c.phase = "answered" => c.reply.outcome \in Refusals
      PROVE  \E k : /\ calls' = [calls EXCEPT ![p] = k]
                   /\ k.phase = "answered" => k.reply.outcome \in Refusals
  BY <1>2
<1>3. ASSUME NEW b \in CallRecords, NEW row, NEW adds, NEW outcome, NEW verdict
      PROVE  ReadyCall(b, row, adds, outcome, verdict).phase # "answered"
  BY DEF ReadyCall, CallRecords
<1>4. ASSUME NEW q, NEW st
      PROVE  AnsweredCall(q, Reply("invalid_transition", st)).reply.outcome \in Refusals
  BY DEF AnsweredCall, IdleCall, Reply, Refusals
<1>5. ASSUME NEW row, NEW cust, NEW prev
      PROVE  Issuing(p, row, cust, prev).phase # "answered"
  BY <1>1 DEF Issuing, CallRecords
<1>6. CASE \E row, adds, outcome, verdict :
             calls' = [calls EXCEPT ![p] = ReadyCall(d, row, adds, outcome, verdict)]
  <2>1. PICK row, adds, outcome, verdict :
             calls' = [calls EXCEPT ![p] = ReadyCall(d, row, adds, outcome, verdict)]
    BY <1>6
  <2>2. ReadyCall(d, row, adds, outcome, verdict).phase # "answered"
    BY <1>3
  <2> QED
    BY <1>1, <2>1, <2>2
<1>7. CASE \E q, st :
             calls' = [calls EXCEPT ![p] = AnsweredCall(q, Reply("invalid_transition", st))]
  <2>1. PICK q, st :
             calls' = [calls EXCEPT ![p] = AnsweredCall(q, Reply("invalid_transition", st))]
    BY <1>7
  <2>2. AnsweredCall(q, Reply("invalid_transition", st)).reply.outcome \in Refusals
    BY <1>4
  <2> QED
    BY <1>1, <2>1, <2>2
<1>8. CASE \E row, cust, prev : calls' = [calls EXCEPT ![p] = Issuing(p, row, cust, prev)]
  <2>1. PICK row, cust, prev : calls' = [calls EXCEPT ![p] = Issuing(p, row, cust, prev)]
    BY <1>8
  <2>2. Issuing(p, row, cust, prev).phase # "answered"
    BY <1>5
  <2> QED
    BY <1>1, <2>1, <2>2
<1>9. CASE VerifyIdentityMatched(p)
  <2> DEFINE cust == d.req.claim.pan
             row  == [d.sess EXCEPT !.customer = cust, !.state = "identity_matched"]
             stop == IssueLimit(row, cust, FALSE)
  <2>1. \/ Proceed(p, row.state, ReadyCall(d, row, {}, "blocked", stop))
        \/ \E prev : Proceed(p, row.state, Issuing(p, row, cust, prev))
    BY <1>1, <1>9 DEF VerifyIdentityMatched
  <2> HIDE DEF row, stop, cust
  <2> QED
    BY <1>1, <1>6, <1>7, <1>8, <2>1 DEF Proceed
<1>14. CASE ResendOtp(p)
  <2> DEFINE stop == IssueLimit(d.sess, d.sess.customer, TRUE)
  <2>1. \/ Stay(p, ReadyCall(d, d.sess, {}, "blocked", stop))
        \/ \E prev : Stay(p, Issuing(p, d.sess, d.sess.customer, prev))
    BY <1>1, <1>14 DEF ResendOtp
  <2> HIDE DEF stop
  <2> QED
    BY <1>6, <1>8, <2>1 DEF Stay
<1>10. CASE VerifyIdentityUnknown(p) \/ VerifyIdentityFailed(p) \/ VerifyOtpUnchecked(p)
  BY <1>1, <1>6, <1>7, <1>10 DEF VerifyIdentityUnknown, VerifyIdentityFailed,
                                 VerifyOtpUnchecked, Proceed, Stay
<1>11. CASE VerifyOtpChecked(p)
  <2>1. PICK i, try :
          /\ try = [d EXCEPT !.guess = [id |-> i, attempts |-> challenges[i].attempts + 1,
                                        ok |-> d.req.code = i]]
          /\ \/ \E q, st : calls' = [calls EXCEPT ![p] =
                                      AnsweredCall(q, Reply("invalid_transition", st))]
             \/ \E row, outcome, verdict :
                  calls' = [calls EXCEPT ![p] = ReadyCall(try, row, {}, outcome, verdict)]
    BY <1>1, <1>11 DEF VerifyOtpChecked, Proceed, Stay
  <2>2. CASE \E row, outcome, verdict :
               calls' = [calls EXCEPT ![p] = ReadyCall(try, row, {}, outcome, verdict)]
    <3>1. PICK row, outcome, verdict :
               calls' = [calls EXCEPT ![p] = ReadyCall(try, row, {}, outcome, verdict)]
      BY <2>2
    <3>2. PICK c : c = ReadyCall(try, row, {}, outcome, verdict)
      OBVIOUS
    <3>3. try.phase = "loaded" /\ DOMAIN try = DOMAIN d
      BY <1>1, <2>1 DEF CallRecords
    <3>4. c.phase = "ready"
      BY <1>1, <3>2, <3>3 DEF ReadyCall, CallRecords
    <3> QED
      BY <1>1, <3>1, <3>2, <3>4
  <2> QED
    BY <1>7, <2>1, <2>2
<1>12. CASE CaptureLead(p)
  <2>1. ASSUME NEW row, NEW adds,
               calls' = [calls EXCEPT ![p] =
                           [d EXCEPT !.phase = "staged", !.sess = row, !.adds = adds]]
        PROVE  \E k : calls' = [calls EXCEPT ![p] = k] /\ k.phase # "answered"
    <3>1. [d EXCEPT !.phase = "staged", !.sess = row, !.adds = adds].phase = "staged"
      BY DEF CallRecords
    <3> QED
      BY <2>1, <3>1
  <2>2. \/ \E q, st : calls' = [calls EXCEPT ![p] =
                                AnsweredCall(q, Reply("invalid_transition", st))]
        \/ \E k : calls' = [calls EXCEPT ![p] = k] /\ k.phase # "answered"
    BY <1>1, <1>12, <2>1 DEF CaptureLead, Proceed
  <2> QED
    BY <1>1, <1>7, <2>2
<1>13. CASE CheckEligibility(p) \/ RecordConsent(p) \/ Escalate(p)
  BY <1>1, <1>6, <1>7, <1>13 DEF CheckEligibility, RecordConsent, Escalate, Proceed, Stay
<1> QED
  BY <1>9, <1>10, <1>11, <1>12, <1>13, <1>14 DEF Work

LEMMA SendGoesOn ==
  ASSUME IInv, NEW p \in Handlers, Send(p)
  PROVE  /\ calls[p].phase \in {"staged", "sending", "ready"}
         /\ \E c : calls' = [calls EXCEPT ![p] = c] /\ c.phase # "answered"
<1> DEFINE d == calls[p]
<1>1. d \in CallRecords /\ d.phase \in {"staged", "sending", "ready"}
  BY DEF IInv, TypeOK, Send, WriteSession, FlushChallenge, FlushLink, PasscodeDelivered,
     PasscodeUndelivered, LinkEmailed
<1>2. \A row, adds, outcome, verdict :
        ReadyCall(d, row, adds, outcome, verdict).phase # "answered"
  BY <1>1 DEF ReadyCall, CallRecords
<1>3. CASE FlushChallenge(p)
  <2> DEFINE f == Numbered(d, lastId + 1, now)
  <2>1. calls' = [calls EXCEPT ![p] =
           IF d.issue \in Addressed THEN [f EXCEPT !.phase = "sending"]
           ELSE ReadyCall(f, d.sess, {}, "error", "delivery_failed")]
    BY <1>3 DEF FlushChallenge, Numbered
  <2>2. /\ [f EXCEPT !.phase = "sending"].phase # "answered"
        /\ ReadyCall(f, d.sess, {}, "error", "delivery_failed").phase # "answered"
    BY <1>1 DEF ReadyCall, CallRecords, Numbered
  <2> QED
    BY <1>1, <2>1, <2>2
<1>4. CASE FlushLink(p)
  <2>1. PICK c : /\ c = [d EXCEPT !.phase = "sending", !.written = WritesSession(d)]
                 /\ calls' = [calls EXCEPT ![p] = c]
    BY <1>4 DEF FlushLink, Stay
  <2>2. c.phase # "answered"
    BY <1>1, <2>1 DEF CallRecords
  <2> QED
    BY <1>1, <2>1, <2>2
<1>5. CASE PasscodeDelivered(p) \/ PasscodeUndelivered(p) \/ LinkEmailed(p)
  BY <1>1, <1>2, <1>5 DEF PasscodeDelivered, PasscodeUndelivered, LinkEmailed, Stay
<1>6. CASE WriteSession(p)
  <2>1. Written(d).phase # "answered"
    BY <1>1, WrittenOK
  <2> QED
    BY <1>6, <2>1 DEF WriteSession, Stay
<1> QED
  BY <1>3, <1>4, <1>5, <1>6 DEF Send

\* With nothing on its way, all rows have been heard.
LEMMA NothingOnItsWay ==
  ASSUME SerialEvaluation, HInv, NEW p \in Handlers, NEW s \in Sessions,
         ~Answered(calls[p], s)
  PROVE  Told(s, Len(toolCalls[s]))
BY DEF SerialEvaluation, HInv, Abreast

\* The rows a retry is answered from have been heard.
LEMMA HeardBefore ==
  ASSUME SerialEvaluation, IInv, HInv, NEW p \in Handlers,
         NEW q \in Requests, ~Answered(calls[p], q.session), PriorRows(q) # {}
  PROVE  Again(q.session, q)
<1> DEFINE s == q.session
<1>1. s \in Sessions
  BY DEF Requests
<1>2. PICK i \in DOMAIN toolCalls[s] : SameAsk(toolCalls[s][i], q) /\ q.key # None
  BY DEF PriorRows, SameAsk
<1>3. Told(s, Len(toolCalls[s])) /\ i \in 1..Len(toolCalls[s])
  BY <1>1, NothingOnItsWay DEF IInv, TypeOK
<1>4. PICK j \in Did(s) : SameAsk(heard[j], toolCalls[s][i])
  BY <1>3 DEF Told
<1>5. j \in HeardFrom(s)
  BY DEF Did
<1> QED
  BY <1>2, <1>4, <1>5 DEF Again, SameAsk

\* A step in which nothing is committed, heard or answered for the first time.
LEMMA SilentStep ==
  ASSUME SerialEvaluation, IInv, HInv, NEW p \in Handlers, NEW c,
         calls' = [calls EXCEPT ![p] = c], UNCHANGED <<toolCalls, heard>>,
         \A s : ~Answered(calls[p], s),
         c.phase = "answered" /\ c.reply.outcome \notin Refusals => Again(c.req.session, c.req)
  PROVE  HInv'
<1> SUFFICES ASSUME NEW s \in Sessions PROVE Abreast(s)'
  BY DEF HInv
<1>1. calls'[p] = c /\ \A r \in Handlers : r = p
  BY DEF SerialEvaluation, IInv, TypeOK
<1>2. Told(s, Len(toolCalls[s]))
  BY NothingOnItsWay
<1>3. Told(s, Len(toolCalls[s]))'
  <2>1. PICK n : n = Len(toolCalls[s])
    OBVIOUS
  <2>2. Told(s, n)'
    BY <1>2, <2>1, ToldKept
  <2>3. n = Len(toolCalls'[s])
    BY <2>1
  <2> QED
    BY <2>2, <2>3 DEF Told
<1>4. ASSUME NEW r \in Handlers, Answered(calls[r], s)' PROVE Again(s, calls[r].req)'
  <2>1. Answered(c, s) /\ calls'[r] = c
    BY <1>1, <1>4 DEF Answered
  <2>2. Again(s, c.req)
    BY <2>1 DEF Answered
  <2> QED
    BY <2>1, <2>2 DEF Again, HeardFrom
<1> QED
  BY <1>3, <1>4 DEF Abreast

LEMMA ArriveHInv ==
  ASSUME SerialEvaluation, IInv, HInv, NEW p \in Handlers, Arrive(p), UNCHANGED heard
  PROVE  HInv'
<1>1. PICK s \in Sessions, t \in Tools :
        \E q \in RequestsFor(s, t) : ReplayCall(p, q) \/ RefuseCall(p, q) \/ LoadCall(p, q)
  BY DEF Arrive
<1>2. PICK q \in RequestsFor(s, t) : ReplayCall(p, q) \/ RefuseCall(p, q) \/ LoadCall(p, q)
  BY <1>1
<1>3. q \in Requests
  BY RequestsForOK DEF IInv
<1>4. \A u : ~Answered(calls[p], u)
  BY <1>2 DEF ReplayCall, RefuseCall, LoadCall, Arrives, Answered
<1>5. UNCHANGED toolCalls
  BY <1>2 DEF ReplayCall, RefuseCall, LoadCall
<1>6. CASE ReplayCall(p, q)
  <2>1. PICK c, rep : c = AnsweredCall(q, rep) /\ calls' = [calls EXCEPT ![p] = c]
    BY <1>6 DEF ReplayCall
  <2>2. c.req = q /\ PriorRows(q) # {}
    BY <1>6, <2>1, AnswerIs DEF ReplayCall
  <2>3. Again(q.session, q)
    BY <1>3, <1>4, <2>2, HeardBefore
  <2> QED
    BY <1>4, <1>5, <2>1, <2>2, <2>3, SilentStep
<1>7. CASE RefuseCall(p, q)
  <2>1. /\ Refusal(sessions[q.session], q.tool) \in Refusals
        /\ \E st : calls' = [calls EXCEPT ![p] =
             AnsweredCall(q, Reply(Refusal(sessions[q.session], q.tool), st))]
    <3>1. Refusal(sessions[q.session], q.tool) \in Refusals \cup {"none"}
      BY RefusalOK
    <3> QED
      BY <1>7, <3>1 DEF RefuseCall
  <2>2. PICK rep, c : /\ rep.outcome \in Refusals /\ c = AnsweredCall(q, rep)
                      /\ calls' = [calls EXCEPT ![p] = c]
    <3>1. \A st : Reply(Refusal(sessions[q.session], q.tool), st).outcome \in Refusals
      BY <2>1 DEF Reply
    <3> QED
      BY <2>1, <3>1
  <2>3. c.reply = rep
    BY <2>2, AnswerIs
  <2> QED
    BY <1>4, <1>5, <2>2, <2>3, SilentStep
<1>8. CASE LoadCall(p, q)
  <2>1. PICK c : c = LoadedCall(q, sessions[q.session])
    OBVIOUS
  <2>2. c.phase # "answered" /\ calls' = [calls EXCEPT ![p] = c]
    BY <1>8, <2>1 DEF LoadCall, LoadedCall, IdleCall
  <2> QED
    BY <1>4, <1>5, <2>2, SilentStep
<1> QED
  BY <1>2, <1>6, <1>7, <1>8

\* The commit: its row is the only one that has not been heard.
LEMMA RecordHInv ==
  ASSUME SerialEvaluation, IInv, LInv, TInv, FInv, HInv, NEW p \in Handlers,
         RecordCall(p), UNCHANGED heard
  PROVE  HInv'
<1> PICK c, s, n : c = calls[p] /\ s = c.req.session /\ n = Len(toolCalls[s])
  OBVIOUS
<1>1. /\ Commits(c) /\ Filed(c) /\ ~KeyTaken(c.req) /\ c.phase = "ready"
      /\ calls' = [calls EXCEPT ![p] = AnsweredCall(c.req, c.reply)]
  BY CommitsCurrent DEF RecordCall, FInv
<1>2. /\ s \in Sessions /\ toolCalls[s] \in Seq(AuditRows) /\ Entry(c) \in AuditRows
      /\ \A t \in Sessions :
           toolCalls'[t] = IF t = s THEN Append(toolCalls[s], Entry(c)) ELSE toolCalls[t]
  BY <1>1 DEF Commits, IInv, TypeOK
<1>3. n \in Nat /\ DOMAIN toolCalls[s] = 1..n
  BY <1>2
<1>4. /\ \A r \in Handlers : r = p
      /\ calls'[p].phase = "answered" /\ calls'[p].req = c.req /\ calls'[p].reply = c.reply
  BY <1>1, AnswerIs DEF SerialEvaluation, IInv, TypeOK
<1>5. \A t \in Sessions : Told(t, Len(toolCalls[t]))
  BY <1>1, NothingOnItsWay DEF Answered
<1>6. ASSUME NEW t \in Sessions, t # s PROVE Abreast(t)'
  <2>1. PICK m : m = Len(toolCalls[t]) /\ m = Len(toolCalls'[t])
    BY <1>2, <1>6
  <2>2. Told(t, m)'
    BY <1>2, <1>5, <1>6, <2>1, ToldKept
  <2>3. \A r \in Handlers : ~Answered(calls[r], t)'
    BY <1>4, <1>6 DEF Answered
  <2> QED
    BY <2>1, <2>2, <2>3 DEF Abreast, Told
<1>7. /\ Len(toolCalls'[s]) = n + 1 /\ toolCalls'[s][n + 1] = Entry(c)
      /\ \A k \in 1..n : toolCalls'[s][k] = toolCalls[s][k]
  <2>1. PICK rows \in Seq(AuditRows) : rows = toolCalls[s]
    BY <1>2
  <2>2. PICK e \in AuditRows : e = Entry(c)
    BY <1>2
  <2>3. /\ Len(Append(rows, e)) = Len(rows) + 1 /\ Append(rows, e)[Len(rows) + 1] = e
        /\ \A k \in 1..Len(rows) : Append(rows, e)[k] = rows[k]
    OBVIOUS
  <2> QED
    BY <1>2, <2>1, <2>2, <2>3, ZenonT(30)
<1>8. Told(s, n)'
  BY <1>2, <1>5, <1>7, ToldKept
<1>9. ~Again(s, c.req)
  <2> SUFFICES ASSUME c.req.key # None, NEW i \in HeardFrom(s), SameAsk(heard[i], c.req)
               PROVE  FALSE
    BY DEF Again
  <2>1. PICK j \in Did(s) : SameAsk(heard[j], heard[i])
    BY <1>2, <1>5 DEF Told
  <2>2. Rank(s, j) \in 1..n /\ SameAsk(heard[j], toolCalls[s][Rank(s, j)])
    BY <1>2, <1>5 DEF Told
  <2>3. toolCalls[s][Rank(s, j)].key = c.req.key
    BY <2>1, <2>2 DEF SameAsk
  <2> QED
    BY <1>1, <1>3, <2>2, <2>3 DEF KeyTaken
<1>10. Answered(calls[p], s)' /\ ~Again(s, calls[p].req)'
  <2>1. c.reply.outcome \notin Refusals
    BY <1>1 DEF Filed, Says
  <2> QED
    BY <1>4, <1>9, <2>1 DEF Answered, Again, HeardFrom
<1>11. /\ SameAsk(toolCalls'[s][n + 1], calls'[p].req)
       /\ toolCalls'[s][n + 1].reply = calls'[p].reply
  BY <1>4, <1>7 DEF SameAsk, Entry
<1>12. Abreast(s)'
  <2>1. PICK m : m = Len(toolCalls'[s]) /\ m = n + 1 /\ m > 0 /\ m - 1 = n
    <3>1. PICK m \in Nat : m = n + 1 /\ m > 0 /\ m - 1 = n
      BY <1>3
    <3>2. m = Len(toolCalls'[s])
      BY <1>7, <3>1, ZenonT(30)
    <3> QED
      BY <3>1, <3>2
  <2>2. Told(s, m - 1)'
    BY <1>8, <2>1 DEF Told
  <2>3. SameAsk(toolCalls'[s][m], calls'[p].req) /\ toolCalls'[s][m].reply = calls'[p].reply
    BY <1>11, <2>1
  <2> QED
    BY <1>10, <2>1, <2>2, <2>3 DEF Abreast
<1> QED
  BY <1>2, <1>6, <1>12 DEF HInv

\* A key that is taken was taken by the same request.
LEMMA SuppressHInv ==
  ASSUME SerialEvaluation, IInv, LInv, HInv, NEW p \in Handlers,
         SuppressDuplicate(p), UNCHANGED heard
  PROVE  HInv'
<1> DEFINE c == calls[p]
           s == c.req.session
<1>1. c.phase = "ready" /\ KeyTaken(c.req) /\ UNCHANGED toolCalls
  BY DEF SuppressDuplicate, Stay
<1>2. Asked(c.req) /\ c.req \in Requests /\ s \in Sessions
  BY <1>1, InFlightCall DEF LInv, Books
<1>3. PriorRows(c.req) # {}
  <2>1. PICK i \in DOMAIN toolCalls[s] : toolCalls[s][i].key = c.req.key /\ c.req.key # None
    BY <1>1 DEF KeyTaken
  <2>2. GoodRow(toolCalls[s][i])
    BY <1>2 DEF LInv
  <2>3. toolCalls[s][i].tool = c.req.tool
    BY <1>2, <2>1, <2>2 DEF GoodRow, Asked, Requests, KeysApart, SerialEvaluation
  <2> QED
    BY <2>1, <2>3 DEF PriorRows
<1>4. PICK rep : calls' = [calls EXCEPT ![p] = AnsweredCall(c.req, rep)]
  BY DEF SuppressDuplicate, Stay
<1>5. PICK b : b = AnsweredCall(c.req, rep) /\ b.req = c.req
  BY AnswerIs
<1>6. \A u : ~Answered(calls[p], u)
  BY <1>1 DEF Answered
<1>7. Again(s, c.req)
  BY <1>2, <1>3, <1>6, HeardBefore
<1> QED
  BY <1>1, <1>4, <1>5, <1>6, <1>7, SilentStep

\* The reply arrives.
LEMMA ReturnHInv ==
  ASSUME SerialEvaluation, IInv, LInv, HInv, NEW p \in Handlers, Return(p), Hear(p)
  PROVE  HInv'
<1> DEFINE c == calls[p]
           s == c.req.session
           e == [session |-> s, tool |-> c.req.tool, key |-> c.req.key, reply |-> c.reply]
<1>1. /\ c.phase = "answered" /\ UNCHANGED toolCalls
      /\ calls' = [calls EXCEPT ![p] = IdleCall]
  BY DEF Return, Stay
<1>2. IdleCall.phase = "idle"
  BY DEF IdleCall
<1>3. CASE c.reply.outcome \in Refusals
  <2>1. UNCHANGED heard /\ \A u : ~Answered(c, u)
    BY <1>3 DEF Hear, Answered
  <2>2. PICK b : b = IdleCall
    OBVIOUS
  <2> QED
    BY <1>1, <1>2, <2>1, <2>2, SilentStep
<1>4. CASE c.reply.outcome \notin Refusals
  <2>1. heard' = Append(heard, e)
    BY <1>4 DEF Hear
  <2>2. Asked(c.req) /\ Stored(c.req, c.reply)
    BY <1>1, <1>4 DEF LInv, Books, Durable, SerialEvaluation
  <2>3. s \in Sessions /\ c.req.tool \in Tools /\ c.req.key \in Keys \cup {None}
    BY <2>2 DEF Asked, Requests
  <2>4. c.reply \in Replies
    BY <2>2, <2>3, StoredReplyOK DEF Stored, IInv
  <2>5. PICK h \in Entries : h = e
    BY <2>3, <2>4 DEF Entries
  <2>6. /\ heard \in Seq(Entries) /\ heard' = Append(heard, h) /\ heard' \in Seq(Entries)
        /\ h.session = s /\ h.reply = c.reply /\ SameAsk(h, c.req)
    BY <2>1, <2>5 DEF HInv, SameAsk
  <2>7. \A t : Again(t, h) <=> Again(t, c.req)
    BY <2>6 DEF Again, SameAsk
  <2>8. \A r \in Handlers : r = p /\ calls'[r].phase = "idle"
    BY <1>1, <1>2 DEF SerialEvaluation, IInv, TypeOK
  <2>9. ASSUME NEW t \in Sessions, Told(t, Len(toolCalls[t]))' PROVE Abreast(t)'
    BY <2>8, <2>9 DEF Abreast, Answered
  <2>10. ASSUME NEW t \in Sessions PROVE Told(t, Len(toolCalls[t]))'
    <3>1. PICK n \in Nat : n = Len(toolCalls[t]) /\ n = Len(toolCalls'[t])
      BY <1>1 DEF IInv, TypeOK
    <3>2. CASE t = s /\ ~Again(s, c.req)
      <4>1. /\ n > 0 /\ Told(t, n - 1) /\ SameAsk(toolCalls[s][n], c.req)
            /\ toolCalls[s][n].reply = c.reply
        <5>1. Answered(c, s) /\ Abreast(s)
          BY <1>1, <1>4, <2>3 DEF Answered, HInv
        <5> QED
          BY <2>8, <3>1, <3>2, <5>1 DEF Abreast
      <4>2. SameAsk(toolCalls[t][n], h) /\ ~Again(t, h) /\ toolCalls[t][n].reply = h.reply
        BY <2>6, <2>7, <3>2, <4>1 DEF SameAsk
      <4>3. Told(t, n)'
        BY <1>1, <2>6, <3>2, <4>1, <4>2, HearLast
      <4> QED
        BY <3>1, <4>3 DEF Told
    <3>3. CASE t = s => Again(s, c.req)
      <4>1. Told(t, n)
        BY <2>8, <3>1, <3>3 DEF HInv, Abreast, Answered
      <4>2. t = h.session => Again(t, h)
        BY <2>6, <2>7, <3>3
      <4>3. Told(t, n)'
        BY <1>1, <2>6, <4>1, <4>2, HearNothingNew
      <4> QED
        BY <3>1, <4>3 DEF Told
    <3> QED
      BY <3>2, <3>3
  <2> QED
    BY <2>6, <2>9, <2>10 DEF HInv
<1> QED
  BY <1>3, <1>4

\* Nothing but the record being read, or a session being started.
LEMMA StillHInv ==
  ASSUME HInv, UNCHANGED <<calls, toolCalls, heard>>
  PROVE  HInv'
<1> SUFFICES ASSUME NEW s \in Sessions PROVE Abreast(s)'
  BY DEF HInv
<1>1. PICK n : n = Len(toolCalls[s])
  OBVIOUS
<1>2. Told(s, n) => Told(s, n)'
  BY ToldKept
<1>3. Told(s, n - 1) => Told(s, n - 1)'
  <2>1. PICK m : m = n - 1
    OBVIOUS
  <2>2. Told(s, m) => Told(s, m)'
    BY ToldKept
  <2> QED
    BY <2>1, <2>2 DEF Told
<1>4. \A p \in Handlers : /\ Answered(calls[p], s)' <=> Answered(calls[p], s)
                         /\ Again(s, calls[p].req)' <=> Again(s, calls[p].req)
  BY DEF Answered, Again, HeardFrom
<1>5. Abreast(s)
  BY DEF HInv
<1>6. CASE /\ Told(s, n)
           /\ \A p \in Handlers : Answered(calls[p], s) => Again(s, calls[p].req)
  <2>1. Told(s, Len(toolCalls[s]))'
    BY <1>1, <1>2, <1>6 DEF Told
  <2> QED
    BY <1>4, <1>6, <2>1 DEF Abreast
<1>7. CASE /\ n > 0 /\ Told(s, n - 1)
           /\ \E p \in Handlers : /\ Answered(calls[p], s) /\ ~Again(s, calls[p].req)
                                  /\ SameAsk(toolCalls[s][n], calls[p].req)
                                  /\ toolCalls[s][n].reply = calls[p].reply
  <2>1. Len(toolCalls'[s]) > 0 /\ Told(s, Len(toolCalls[s]) - 1)'
    BY <1>1, <1>3, <1>7 DEF Told
  <2>2. PICK p \in Handlers : /\ Answered(calls[p], s) /\ ~Again(s, calls[p].req)
                              /\ SameAsk(toolCalls[s][n], calls[p].req)
                              /\ toolCalls[s][n].reply = calls[p].reply
    BY <1>7
  <2>3. /\ Answered(calls[p], s)' /\ ~Again(s, calls[p].req)'
        /\ SameAsk(toolCalls[s][Len(toolCalls[s])], calls[p].req)'
        /\ (toolCalls[s][Len(toolCalls[s])].reply = calls[p].reply)'
    BY <1>1, <1>4, <2>2 DEF SameAsk
  <2> QED
    BY <2>1, <2>3 DEF Abreast
<1> QED
  BY <1>1, <1>5, <1>6, <1>7 DEF Abreast

LEMMA ServeHInv ==
  ASSUME SerialEvaluation, IInv, LInv, TInv, FInv, HInv, Serve
  PROVE  HInv'
<1>1. CASE \E s \in Sessions : StartSession(s) /\ UNCHANGED heard
  BY <1>1, StillHInv DEF StartSession
<1>2. CASE \E p \in Handlers : (Arrive(p) \/ Finalize(p)) /\ UNCHANGED heard
  BY <1>2, ArriveHInv, RecordHInv, SuppressHInv DEF Finalize
<1>3. CASE \E p \in Handlers : Return(p) /\ Hear(p)
  BY <1>3, ReturnHInv
<1>4. ASSUME NEW p \in Handlers, Work(p) \/ Send(p) \/ Abort(p), UNCHANGED heard
      PROVE  HInv'
  <2>1. UNCHANGED toolCalls
    BY <1>4 DEF Work, Send, Abort, VerifyIdentityMatched, VerifyIdentityUnknown,
       VerifyIdentityFailed, VerifyOtpUnchecked, VerifyOtpChecked, ResendOtp, CaptureLead,
       CheckEligibility, RecordConsent, Escalate, WriteSession, FlushChallenge, FlushLink,
       PasscodeDelivered, PasscodeUndelivered, LinkEmailed, Proceed, Stay
  <2>2. /\ calls[p].phase # "answered"
        /\ \E c : /\ calls' = [calls EXCEPT ![p] = c]
                  /\ c.phase = "answered" => c.reply.outcome \in Refusals
    <3>1. CASE Work(p)
      BY <3>1, WorkGoesOn
    <3>2. CASE Send(p)
      BY <3>2, SendGoesOn
    <3>3. CASE Abort(p)
      <4>1. IdleCall.phase = "idle" /\ calls' = [calls EXCEPT ![p] = IdleCall]
        BY <3>3 DEF Abort, Stay, IdleCall
      <4> QED
        BY <3>3, <4>1 DEF Abort, InFlight
    <3> QED
      BY <1>4, <3>1, <3>2, <3>3
  <2>3. \A s : ~Answered(calls[p], s)
    BY <2>2 DEF Answered
  <2> QED
    BY <1>4, <2>1, <2>2, <2>3, SilentStep
<1> QED
  BY <1>1, <1>2, <1>3, <1>4 DEF Serve

LEMMA NextHInv ==
  ASSUME SerialEvaluation, IInv, LInv, TInv, FInv, HInv, [AuditNext]_auditVars
  PROVE  HInv'
<1>1. CASE UNCHANGED <<vars, heard>>
  BY <1>1, StillHInv DEF vars
<1>2. Serve \/ UNCHANGED <<vars, heard>>
  BY DEF AuditNext, auditVars, OpenAudit, ReadNext, CloseAudit
<1> QED
  BY <1>1, <1>2, ServeHInv

LEMMA InitHInv == AuditInit => HInv
<1>8. AuditInit => heard \in Seq(Entries)
  BY DEF AuditInit
<1> SUFFICES ASSUME AuditInit, NEW s \in Sessions PROVE Abreast(s)
  BY <1>8 DEF HInv
<1>1. heard = <<>> /\ toolCalls[s] = <<>> /\ \A p \in Handlers : calls[p] = IdleCall
  BY DEF AuditInit, Init
<1>2. DOMAIN heard = {} /\ Len(toolCalls[s]) = 0
  BY <1>1
<1>3. HeardFrom(s) = {} /\ Did(s) = {} /\ 1..0 = {}
  BY <1>2 DEF HeardFrom, Did
<1>4. Cardinality(Did(s)) = 0
  BY <1>3, FS_EmptySet
<1>5. Told(s, 0)
  BY <1>3, <1>4 DEF Told
<1>6. \A p \in Handlers : ~Answered(calls[p], s)
  BY <1>1 DEF Answered, IdleCall
<1>7. PICK n : n = 0 /\ n = Len(toolCalls[s])
  BY <1>2
<1> QED
  BY <1>2, <1>5, <1>6, <1>7 DEF Abreast
-----------------------------------------------------------------------------
(* A record during which nothing happened *)

Shown(n) == IF n > 0 THEN 1 ELSE 0

\* What the record has read of the session is what is stored.
UpToDate(v, s) ==
  /\ v.next > 1 => v.row = sessions[s]
  /\ v.next > 2 => v.found["assessment"] = Shown(artefacts[s]["assessment"])
  /\ v.next > 3 => \A a \in Answers : v.found[a] = artefacts[s][a]
  /\ v.next > 4 => v.found["ticket"] = Shown(artefacts[s]["ticket"])
  /\ v.next > 5 => v.found["lead"] = Shown(artefacts[s]["lead"])
  /\ v.next > 7 => v.trail = toolCalls[s]

QInv ==
  view.next > 0 /\ view.quiet =>
    /\ \A p \in Handlers : calls[p].phase = "idle"
    /\ UpToDate(view, view.session)

LEMMA ReadQInv ==
  ASSUME IInv, CInv, QInv, ReadNext
  PROVE  QInv'
<1>1. PICK v \in Views, n \in 1..7, s \in Sessions, w \in Views :
        /\ v = view /\ n = v.next /\ s = v.session /\ w = view'
        /\ sessions[s] # None /\ Covered(v, toolCalls[s])
        /\ Reads(v, n, s, w)
  BY OneStatement
<1>2. \A kinds : \A k \in Artefacts :
        Found(s, kinds)[k] = IF k \notin kinds THEN v.found[k]
                             ELSE IF k \in Answers THEN artefacts[s][k]
                             ELSE Shown(artefacts[s][k])
  BY <1>1 DEF Found, Shown
<1>3. Answers \subseteq Artefacts /\ {"assessment", "ticket", "lead"} \subseteq Artefacts
      /\ {"assessment", "ticket", "lead"} \cap Answers = {}
  BY DEF Answers, Artefacts
<1>4. ASSUME UpToDate(v, s) PROVE UpToDate(w, s)
  <2>1. CASE n = 1
    BY <1>1, <2>1 DEF UpToDate, Reads
  <2>2. CASE n = 2
    BY <1>1, <1>2, <1>3, <1>4, <2>2 DEF UpToDate, Reads
  <2>3. CASE n = 3
    BY <1>1, <1>2, <1>3, <1>4, <2>3 DEF UpToDate, Reads
  <2>4. CASE n = 4
    BY <1>1, <1>2, <1>3, <1>4, <2>4 DEF UpToDate, Reads
  <2>5. CASE n = 5
    BY <1>1, <1>2, <1>3, <1>4, <2>5 DEF UpToDate, Reads
  <2>6. CASE n = 6
    BY <1>1, <1>4, <2>6 DEF UpToDate, Reads
  <2>7. CASE n = 7
    BY <1>1, <1>4, <2>7 DEF UpToDate, Reads
  <2> QED
    BY <1>1, <2>1, <2>2, <2>3, <2>4, <2>5, <2>6, <2>7
<1>5. /\ view.next > 0 /\ view.session = s /\ w.session = s /\ view.quiet = w.quiet
      /\ UNCHANGED vars
  BY <1>1 DEF Reads, ReadNext
<1> QED
  BY <1>1, <1>4, <1>5 DEF QInv, UpToDate, vars

LEMMA NextQInv ==
  ASSUME IInv, CInv, QInv, [AuditNext]_auditVars
  PROVE  QInv'
<1>1. CASE \E s \in Sessions : OpenAudit(s)
  <2>1. PICK s \in Sessions : OpenAudit(s)
    BY <1>1
  <2>2. PICK w : w = view'
    OBVIOUS
  <2>3. PICK quiet \in BOOLEAN : /\ quiet = \A p \in Handlers : calls[p].phase = "idle"
                                /\ w = [ClosedView EXCEPT !.session = s, !.next = 1,
                                                          !.quiet = quiet]
    <3>1. (\A p \in Handlers : calls[p].phase = "idle") \in BOOLEAN
      OBVIOUS
    <3> QED
      BY <2>1, <2>2, <3>1 DEF OpenAudit
  <2>4. w.next = 1 /\ w.quiet = quiet
    BY <2>3 DEF ClosedView
  <2>5. w.quiet => \A p \in Handlers : calls[p].phase = "idle"
    BY <2>3, <2>4
  <2>6. UNCHANGED vars
    BY <2>1 DEF OpenAudit
  <2> QED
    BY <2>2, <2>4, <2>5, <2>6 DEF QInv, UpToDate, vars
<1>2. CASE CloseAudit
  BY <1>2, ClosedOK DEF CloseAudit, QInv
<1>3. CASE Serve
  <2>1. PICK v \in Views : v = view
    BY DEF CInv
  <2>2. view' = [v EXCEPT !.quiet = FALSE]
    BY <1>3, <2>1, ServeSteps
  <2>3. view'.quiet = FALSE
    BY <2>2 DEF Views
  <2> QED
    BY <2>3 DEF QInv
<1>4. CASE UNCHANGED auditVars
  BY <1>4 DEF auditVars, vars, QInv, UpToDate
<1> QED
  BY <1>1, <1>2, <1>3, <1>4, ReadQInv DEF AuditNext

LEMMA InitQInv == AuditInit => QInv
BY ClosedOK DEF AuditInit, QInv
-----------------------------------------------------------------------------
(* What the evaluation concludes *)

\* Two replies that did work are about two rows.
LEMMA RankOnce ==
  ASSUME heard \in Seq(Entries), NEW s, NEW i \in Did(s), NEW j \in Did(s),
         Rank(s, i) = Rank(s, j)
  PROVE  i = j
<1>1. /\ IsFiniteSet(Did(s)) /\ \A k \in Did(s) : k \in Nat
  BY HeardFew
\* An earlier reply has a smaller rank.
<1>2. ASSUME NEW a \in Did(s), NEW b \in Did(s), a < b
      PROVE  Rank(s, a) # Rank(s, b)
  <2>1. PICK A, B : A = {k \in Did(s) : k <= a} /\ B = {k \in Did(s) : k <= b}
    OBVIOUS
  <2>2. A \in SUBSET B /\ b \in B /\ b \notin A
    BY <1>1, <1>2, <2>1
  <2>3. IsFiniteSet(B)
    BY <1>1, <2>1, FS_Subset
  <2>4. Cardinality(A) # Cardinality(B)
    BY <2>2, <2>3, FS_Subset
  <2> QED
    BY <2>1, <2>4 DEF Rank
<1> QED
  BY <1>1, <1>2

LEMMA SameCount ==
  ASSUME NEW S, NEW T, IsFiniteSet(S), NEW f \in [S -> T],
         \A a, b \in S : f[a] = f[b] => a = b,
         \A t \in T : \E a \in S : f[a] = t
  PROVE  Cardinality(S) = Cardinality(T)
<1>1. f \in Injection(S, T)
  BY DEF Injection, IsInjective
<1>2. f \in Surjection(S, T)
  BY DEF Surjection
<1> QED
  BY <1>1, <1>2, FS_Bijection DEF ExistsBijection, Bijection

\* As many consents were reported granted, or refused, as are on file.
LEMMA ConsentsHeard ==
  ASSUME SerialEvaluation, IInv, LInv, DInv, HInv, NEW s \in Sessions,
         NEW n \in Nat, n = Len(toolCalls[s]), Told(s, n), NEW verdict, NEW outcome,
         \/ verdict = "granted" /\ outcome = "ok"
         \/ verdict = "refused" /\ outcome = "declined"
  PROVE  HeardCount(s, "record_consent", {outcome}) = artefacts[s][verdict]
<1>1. PICK rows \in Seq(AuditRows) : rows = toolCalls[s]
  BY DEF IInv, TypeOK
<1>2. PICK I, J :
        /\ I = {i \in HeardFrom(s) : heard[i].tool = "record_consent"
                                     /\ heard[i].reply.outcome \in {outcome}}
        /\ J = {k \in DOMAIN rows : rows[k].tool \in {"record_consent"}
                                    /\ rows[k].verdict \in {verdict}}
  OBVIOUS
<1>3. /\ HeardCount(s, "record_consent", {outcome}) = Cardinality(I)
      /\ artefacts[s][verdict] = Cardinality(J)
  <2>1. artefacts[s][verdict] = AuditCount(s, {"record_consent"}, {verdict})
    BY DEF LInv, ArtefactsAudited
  <2> QED
    BY <1>1, <1>2, <2>1 DEF HeardCount, AuditCount
<1>4. DOMAIN rows = 1..n /\ heard \in Seq(Entries)
  BY <1>1 DEF HInv
<1>5. ASSUME NEW i \in Did(s)
      PROVE  /\ i \in HeardFrom(s) /\ Rank(s, i) \in DOMAIN rows
             /\ SameAsk(heard[i], rows[Rank(s, i)])
             /\ heard[i].reply = rows[Rank(s, i)].reply
  BY <1>1, <1>4, HeardFew DEF Told
<1>6. ASSUME NEW k \in DOMAIN rows, rows[k].tool = "record_consent"
      PROVE  /\ rows[k].key = None
             /\ rows[k].verdict = verdict <=> rows[k].reply.outcome = outcome
  <2>1. GoodRow(rows[k]) /\ Says(rows[k].tool, rows[k].verdict, rows[k].reply.outcome)
    BY <1>1 DEF LInv, DInv, TablesAgree
  <2>2. rows[k].key = None
    BY <1>6, <2>1 DEF GoodRow, SerialEvaluation
  <2>4. /\ rows[k].verdict = "granted" <=> rows[k].reply.outcome = "ok"
        /\ rows[k].verdict = "refused" <=> rows[k].reply.outcome = "declined"
    BY <1>6, <2>1 DEF Says
  <2>3. rows[k].verdict = verdict <=> rows[k].reply.outcome = outcome
    BY <2>4
  <2> QED
    BY <2>2, <2>3
<1>7. I \subseteq Did(s)
  <2> SUFFICES ASSUME NEW i \in I PROVE i \in Did(s)
    OBVIOUS
  <2>1. i \in HeardFrom(s) /\ heard[i].tool = "record_consent"
    BY <1>2
  <2>2. PICK j \in Did(s) : SameAsk(heard[j], heard[i])
    BY <2>1 DEF Told
  <2>3. heard[i].key = None
    BY <1>5, <1>6, <2>1, <2>2 DEF SameAsk
  <2> QED
    BY <2>1, <2>3 DEF Did, IsReplay
<1>8. PICK f : f = [i \in I |-> Rank(s, i)]
  OBVIOUS
<1>9. ASSUME NEW i \in I PROVE f[i] = Rank(s, i) /\ f[i] \in J
  <2>1. i \in Did(s) /\ heard[i].tool = "record_consent" /\ heard[i].reply.outcome = outcome
    BY <1>2, <1>7
  <2>2. PICK k \in DOMAIN rows :
          k = Rank(s, i) /\ SameAsk(heard[i], rows[k]) /\ heard[i].reply = rows[k].reply
    BY <1>5, <2>1
  <2>3. rows[k].tool = "record_consent" /\ rows[k].verdict = verdict
    BY <1>6, <2>1, <2>2 DEF SameAsk
  <2> QED
    BY <1>2, <1>8, <2>2, <2>3
<1>10. ASSUME NEW k \in J PROVE \E i \in I : f[i] = k
  <2>1. k \in DOMAIN rows /\ rows[k].tool = "record_consent" /\ rows[k].verdict = verdict
    BY <1>2
  <2>2. PICK i \in Did(s) : Rank(s, i) = k
    BY <1>4, <2>1 DEF Told
  <2>3. /\ i \in HeardFrom(s) /\ heard[i].tool = "record_consent"
        /\ heard[i].reply.outcome = outcome
    BY <1>5, <1>6, <2>1, <2>2 DEF SameAsk
  <2> QED
    BY <1>2, <1>9, <2>2, <2>3
<1>11. f \in [I -> J] /\ \A a, b \in I : f[a] = f[b] => a = b
  <2>1. \A a, b \in I : f[a] = f[b] => a = b
    BY <1>4, <1>7, <1>9, RankOnce
  <2> QED
    BY <1>8, <1>9, <2>1
<1>12. IsFiniteSet(I)
  BY <1>4, <1>7, HeardFew, FS_Subset
<1> QED
  BY <1>3, <1>10, <1>11, <1>12, SameCount

\* A reply that was heard has a row.
LEMMA HeardRow ==
  ASSUME IInv, LInv, HInv, NEW s \in Sessions, NEW n \in Nat, n = Len(toolCalls[s]),
         Told(s, n), NEW t, HeardCount(s, t, Outcomes) > 0
  PROVE  AuditCount(s, {t}, Verdicts) > 0
<1>1. heard \in Seq(Entries) /\ toolCalls[s] \in Seq(AuditRows)
  BY DEF HInv, IInv, TypeOK
<1>2. PICK i \in HeardFrom(s) : heard[i].tool = t
  <2>1. PICK I : I = {i \in HeardFrom(s) : heard[i].tool = t
                                          /\ heard[i].reply.outcome \in Outcomes}
    OBVIOUS
  <2>2. Cardinality(I) > 0 /\ Cardinality({}) = 0
    BY <2>1, FS_EmptySet DEF HeardCount
  <2>3. I # {}
    BY <2>2
  <2> QED
    BY <2>1, <2>3
<1>3. PICK j \in Did(s) : SameAsk(heard[j], heard[i])
  BY <1>2 DEF Told
<1>4. PICK k \in 1..n : toolCalls[s][k].tool = t
  BY <1>2, <1>3 DEF Told, SameAsk
<1>5. PICK J : J = {m \in DOMAIN toolCalls[s] : toolCalls[s][m].tool \in {t}
                                               /\ toolCalls[s][m].verdict \in Verdicts}
  OBVIOUS
<1>6. k \in DOMAIN toolCalls[s] /\ toolCalls[s][k] \in AuditRows
  BY <1>1
<1>7. k \in J
  BY <1>4, <1>5, <1>6 DEF AuditRows
<1>8. IsFiniteSet(J) /\ Cardinality(J) \in Nat
  <2>1. IsFiniteSet(1..n)
    BY FS_Interval
  <2>3. J \in SUBSET (1..n)
    BY <1>1, <1>5
  <2>2. IsFiniteSet(J)
    BY <2>1, <2>3, FS_Subset
  <2> QED
    BY <2>2, FS_CardinalityType
<1>9. Cardinality(J) > 0
  BY <1>7, <1>8, FS_EmptySet
<1> QED
  BY <1>5, <1>9 DEF AuditCount

\* The tools of the trail are those of the replies that did work.
LEMMA ToolsHeard ==
  ASSUME IInv, HInv, NEW s \in Sessions, NEW n \in Nat, n = Len(toolCalls[s]), Told(s, n)
  PROVE  [i \in DOMAIN toolCalls[s] |-> toolCalls[s][i].tool] = ExpectedTools(s)
<1>1. DOMAIN toolCalls[s] = 1..n /\ Cardinality(Did(s)) = n
  BY DEF IInv, TypeOK, Told
<1>2. ASSUME NEW k \in 1..n
      PROVE  toolCalls[s][k].tool = heard[CHOOSE i \in Did(s) : Rank(s, i) = k].tool
  <2>1. PICK j : j = CHOOSE i \in Did(s) : Rank(s, i) = k
    OBVIOUS
  <2>2. \E i \in Did(s) : Rank(s, i) = k
    BY DEF Told
  <2>3. j \in Did(s) /\ Rank(s, j) = k
    BY <2>1, <2>2
  <2>4. heard[j].tool = toolCalls[s][k].tool
    BY <2>3 DEF Told, SameAsk
  <2> QED
    BY <2>1, <2>4
<1> QED
  BY <1>1, <1>2 DEF ExpectedTools

\* The last reply that did work told the state the call is in.
LEMMA LastHeard ==
  ASSUME IInv, HInv, AuditAgrees, NEW s \in Sessions, sessions[s] # None,
         NEW n \in Nat, n = Len(toolCalls[s]), Told(s, n),
         NEW i \in HeardFrom(s), ~IsReplay(i), \A j \in HeardFrom(s) : j <= i
  PROVE  sessions[s].state = heard[i].reply.state
<1>1. i \in Did(s) /\ Did(s) \subseteq HeardFrom(s)
  BY DEF Did
<1>2. {j \in Did(s) : j <= i} = Did(s)
  BY <1>1
<1>3. Rank(s, i) = n
  BY <1>2 DEF Rank, Told
<1>4. n \in 1..n /\ heard[i].reply = toolCalls[s][n].reply
  BY <1>1, <1>3 DEF Told
<1>5. toolCalls[s] # <<>>
  BY <1>4
<1> QED
  BY <1>4, <1>5 DEF AuditAgrees, Opened

LEMMA Agreement ==
  ASSUME SerialEvaluation, IInv, LInv, TInv, DInv, CInv, HInv, QInv
  PROVE  EvaluationAgrees
<1> SUFFICES ASSUME Complete, view.quiet PROVE EvaluationAgrees
  BY DEF EvaluationAgrees
<1>1. view.next = 8
  BY SevenStatements DEF Complete
<1>2. PICK s \in Sessions : s = view.session /\ sessions[s] # None
  BY <1>1 DEF CInv
<1>3. /\ \A p \in Handlers : calls[p].phase = "idle"
      /\ view.row = sessions[s] /\ view.trail = toolCalls[s]
      /\ view.found["assessment"] = Shown(artefacts[s]["assessment"])
      /\ \A a \in Answers : view.found[a] = artefacts[s][a]
      /\ view.found["ticket"] = Shown(artefacts[s]["ticket"])
      /\ view.found["lead"] = Shown(artefacts[s]["lead"])
  BY <1>1, <1>2 DEF QInv, UpToDate
<1>4. PICK n \in Nat : n = Len(toolCalls[s])
  BY DEF IInv, TypeOK
<1>5. Told(s, n)
  BY <1>3, <1>4 DEF HInv, Abreast, Answered
<1>6. [i \in DOMAIN view.trail |-> view.trail[i].tool] = ExpectedTools(s)
  BY <1>3, <1>4, <1>5, ToolsHeard
<1>7. ASSUME NEW i \in HeardFrom(s), \A j \in HeardFrom(s) : j <= i, ~IsReplay(i)
      PROVE  view.row.state = heard[i].reply.state
  BY <1>2, <1>3, <1>4, <1>5, <1>7, LastHeard DEF TInv
<1>8. /\ view.found["granted"] = HeardCount(s, "record_consent", {"ok"})
      /\ view.found["refused"] = HeardCount(s, "record_consent", {"declined"})
  BY <1>3, <1>4, <1>5, ConsentsHeard DEF Answers
<1>9. \A t : HeardCount(s, t, Outcomes) > 0 => AuditCount(s, {t}, Verdicts) > 0
  BY <1>4, <1>5, HeardRow
<1>10. /\ artefacts[s]["ticket"] = AuditCount(s, {"escalate"}, Verdicts)
       /\ artefacts[s]["lead"] = AuditCount(s, {"capture_lead"}, Verdicts)
       /\ artefacts[s]["assessment"] = AuditCount(s, {"check_eligibility"}, Verdicts)
  BY DEF LInv, ArtefactsAudited
<1>11. artefacts[s]["lead"] > 0 => artefacts[s]["assessment"] = 0
  <2>1. artefacts[s]["lead"] > 0 => sessions[s].state = "lead_captured"
    BY <1>2 DEF TInv, EndingBacked, Opened
  <2>2. sessions[s].state \in Undecided => artefacts[s]["assessment"] = 0
    BY <1>2 DEF TInv, GoodSession
  <2> QED
    BY <2>1, <2>2 DEF Undecided, Anonymous
<1>12. /\ HeardCount(s, "check_eligibility", Outcomes) > 0 => view.found["assessment"] = 1
       /\ HeardCount(s, "escalate", Outcomes) > 0 => view.found["ticket"] = 1
       /\ HeardCount(s, "capture_lead", Outcomes) > 0 =>
            view.found["lead"] = 1 /\ view.found["assessment"] = 0
  BY <1>3, <1>9, <1>10, <1>11 DEF Shown
<1> QED
  BY <1>2, <1>6, <1>7, <1>8, <1>12 DEF EvaluationAgrees

\* Every row of the trail was a reply to the evaluation, in the same order, but
\* for the one on its way; and a record read while nothing happened is what is
\* stored.
THEOREM EvaluationInvariance ==
  ASSUME SerialEvaluation PROVE AuditSpec => [](HInv /\ QInv)
<1>1. AuditInit => HInv /\ QInv
  BY InitHInv, InitQInv
<1>3. OnlyRetriesOverlap
  BY DEF SerialEvaluation, OnlyRetriesOverlap
<1>2. IInv /\ LInv /\ TInv /\ FInv /\ CInv /\ HInv /\ QInv /\ [AuditNext]_auditVars
        => HInv' /\ QInv'
  BY NextHInv, NextQInv
<1> QED
  BY <1>1, <1>2, <1>3, RecordInvariance, AuditInvariance, PTL DEF AuditSpec

\* The conclusions the evaluation draws from its replies and the record are right:
\* the trail holds exactly the calls that did work, the state is the last one
\* told, and every consent, decision, ticket and lead it was told of is on file
\* (run_evals.py:114-248).
THEOREM EvaluationIsRight ==
  ASSUME SerialEvaluation PROVE AuditSpec => []EvaluationAgrees
<1>1. IInv /\ LInv /\ TInv /\ DInv /\ CInv /\ HInv /\ QInv => EvaluationAgrees
  BY Agreement
<1>2. OnlyRetriesOverlap
  BY DEF SerialEvaluation, OnlyRetriesOverlap
<1> QED
  BY <1>1, <1>2, RecordInvariance, AuditInvariance, EvaluationInvariance, PTL
=============================================================================
