--------------------- MODULE ToolServiceRefinementProofs ---------------------
(***************************************************************************)
(* The tool endpoints implement the lifecycle of a call, for all values of *)
(* the constants, where the platform lets requests overlap only as retries *)
(* of one another or on different sessions.                                *)
(*                                                                         *)
(* A commit that sees what it loaded is one step of the lifecycle of its   *)
(* session: what the session had on record, and what the commit gains.     *)
(***************************************************************************)
EXTENDS ToolServiceClaims, ToolServiceTurnProofs

StageOf(s) == IF sessions[s] = None THEN "absent" ELSE sessions[s].state

\* What a commit adds to the evidence of its session.
Gain(c) ==
  (c.adds \ {"link"})
  \cup {e \in {"record"} : c.sess.customer # None /\ c.loaded.customer = None}
  \cup {e \in {"possession"} : c.guess.ok}
-----------------------------------------------------------------------------
LEMMA InitRefines == Init => Lifecycle!Init
<1> SUFFICES ASSUME Init PROVE Lifecycle!Init
  OBVIOUS
<1>1. ASSUME NEW s \in Sessions
      PROVE  sessions[s] = None /\ EvidenceOf(s) = {}
  <2>1. /\ sessions[s] = None /\ DOMAIN challenges = {}
        /\ \A k \in Artefacts : artefacts[s][k] = 0
    BY DEF Init
  <2> QED
    BY <2>1 DEF EvidenceOf
<1> QED
  BY <1>1 DEF Lifecycle!Init

\* A step of one session is a step of the lifecycle.
LEMMA LifecycleStep ==
  ASSUME NEW s \in Sessions, NEW to, NEW found,
         \A t \in Sessions : /\ StageOf(t)' = IF t = s THEN to ELSE StageOf(t)
                             /\ EvidenceOf(t)' = IF t = s THEN EvidenceOf(s) \cup found
                                                 ELSE EvidenceOf(t)
  PROVE  Lifecycle!Step(s, StageOf(s), to, found)
BY DEF Lifecycle!Step, StageOf

LEMMA LifecycleStutter ==
  ASSUME \A t \in Sessions : StageOf(t)' = StageOf(t) /\ EvidenceOf(t)' = EvidenceOf(t)
  PROVE  UNCHANGED Lifecycle!vars
BY DEF Lifecycle!vars, StageOf
-----------------------------------------------------------------------------
(* The commit *)

\* Evidence is never lost, and a commit gains that of its own session only.
LEMMA CommitEvidence ==
  ASSUME IInv, TInv, NEW c, Commits(c), NEW t \in Sessions
  PROVE  /\ StageOf(t)' = IF t = c.req.session THEN c.sess.state ELSE StageOf(t)
         /\ EvidenceOf(t)' = IF t = c.req.session THEN EvidenceOf(t) \cup Gain(c)
                             ELSE EvidenceOf(t)
<1> DEFINE s == c.req.session
<1>1. /\ s \in Sessions /\ c \in CallRecords /\ c.phase = "ready"
      /\ c.loaded \in SessionRows /\ c.sess \in SessionRows
      /\ Local(c) /\ Current(c) /\ Matches(c.adds, c.req.tool, c.verdict)
      /\ sessions'[t] = IF t = s THEN c.sess ELSE sessions[t]
      /\ \A k \in Artefacts :
           artefacts'[t][k] = IF t = s /\ k \in c.adds THEN artefacts[t][k] + 1
                              ELSE artefacts[t][k]
      /\ DOMAIN challenges' = DOMAIN challenges \cup ({c.newId} \ {0})
      /\ \A i \in DOMAIN challenges : challenges'[i] = UpdatedChallenge(challenges[i], i, c)
  BY DEF Commits
<1>2. c.loaded = sessions[s] /\ c.loaded # None /\ c.sess # None
  BY <1>1, ServiceAssumption DEF Current
<1>3. \A k \in Artefacts : artefacts[t][k] \in Nat
  BY DEF IInv, TypeOK
<1>4. c.adds \subseteq Artefacts /\ "link" \in Artefacts
      /\ "record" \notin Artefacts /\ "possession" \notin Artefacts
  BY <1>1 DEF CallRecords, Artefacts
<1>5. \A i \in DOMAIN challenges :
        challenges'[i].proved <=> challenges[i].proved \/ (i = c.guess.id /\ c.guess.ok)
  <2> TAKE i \in DOMAIN challenges
  <2>1. PICK row \in ChallengeRows : row = challenges[i]
    BY DEF IInv, TypeOK
  <2>2. UpdatedChallenge(row, i, c).proved = (row.proved \/ (i = c.guess.id /\ c.guess.ok))
    BY DEF UpdatedChallenge, ChallengeRows
  <2> QED
    BY <1>1, <2>1, <2>2
<1>6. /\ \A i \in DOMAIN challenges : challenges'[i].session = challenges[i].session
      /\ c.newId # 0 => c.newId \notin DOMAIN challenges /\ ~challenges'[c.newId].proved
  <2>1. ~NewChallenge(c).proved
    BY DEF NewChallenge
  <2> QED
    BY <2>1, TouchesOwn
<1>7. c.guess.ok => c.guess.id \in DOMAIN challenges /\ challenges[c.guess.id].session = s
  BY <1>1 DEF Local, Current, Compared, Unconsumed
<1> DEFINE Held(u) == \E i \in DOMAIN challenges : challenges[i].session = u /\ challenges[i].proved
<1>8. Held(t)' <=> Held(t) \/ (t = s /\ c.guess.ok)
  <2>1. ASSUME Held(t) \/ (t = s /\ c.guess.ok) PROVE Held(t)'
    BY <1>1, <1>5, <1>6, <1>7, <2>1
  <2>2. ASSUME Held(t)' PROVE Held(t) \/ (t = s /\ c.guess.ok)
    <3>1. PICK i \in DOMAIN challenges' : challenges'[i].session = t /\ challenges'[i].proved
      BY <2>2
    <3>2. i \in DOMAIN challenges
      BY <1>1, <1>6, <3>1
    <3> QED
      BY <1>5, <1>6, <1>7, <3>1, <3>2
  <2> QED
    BY <2>1, <2>2
<1>9. StageOf(t)' = IF t = s THEN c.sess.state ELSE StageOf(t)
  BY <1>1, <1>2 DEF StageOf
<1>10. ASSUME t # s PROVE EvidenceOf(t)' = EvidenceOf(t)
  <2>1. \A e : e \in EvidenceOf(t)' <=> e \in EvidenceOf(t)
    BY <1>1, <1>8, <1>10 DEF EvidenceOf
  <2> QED
    BY <2>1
<1>11. ASSUME t = s PROVE EvidenceOf(t)' = EvidenceOf(t) \cup Gain(c)
  <2>1. \A e : e \in EvidenceOf(t) <=>
          \/ e \in Artefacts \ {"link"} /\ artefacts[t][e] > 0
          \/ e = "record" /\ c.loaded.customer # None
          \/ e = "possession" /\ Held(t)
    BY <1>2, <1>11 DEF EvidenceOf
  <2>2. \A e : e \in EvidenceOf(t)' <=>
          \/ e \in Artefacts \ {"link"} /\ artefacts'[t][e] > 0
          \/ e = "record" /\ c.sess.customer # None
          \/ e = "possession" /\ Held(t)'
    BY <1>1, <1>2, <1>11 DEF EvidenceOf
  <2>3. \A e : e \in Gain(c) <=>
          \/ e \in c.adds /\ e # "link"
          \/ e = "record" /\ c.sess.customer # None /\ c.loaded.customer = None
          \/ e = "possession" /\ c.guess.ok
    BY DEF Gain
  <2>4. \A e \in Artefacts : artefacts'[t][e] > 0 <=> artefacts[t][e] > 0 \/ e \in c.adds
    BY <1>1, <1>3, <1>11
  <2>5. c.loaded.customer # None => c.sess.customer # None
    <3>1. c.sess.customer = c.loaded.customer \/ c.loaded.state = "started"
      BY <1>1, EffectOK
    <3>2. c.loaded.state = "started" => c.loaded.customer = None
      BY <1>1 DEF Local, RowShape, Anonymous
    <3> QED
      BY <3>1, <3>2
  <2> HIDE DEF Held
  <2>6. \A e : e \in EvidenceOf(t)' <=> e \in EvidenceOf(t) \cup Gain(c)
    BY <1>4, <1>8, <1>11, <2>1, <2>2, <2>3, <2>4, <2>5
  <2> QED
    BY <2>6
<1> QED
  BY <1>9, <1>10, <1>11

\* What a handler gains, and where it leads, by its tool.
LEMMA EffectGains ==
  ASSUME IInv, TInv, NEW c, Commits(c)
  PROVE  \/ c.sess.state = c.loaded.state /\ Gain(c) = {}
         \/ /\ c.loaded.state = "started" /\ c.sess.state = "prospect" /\ Gain(c) = {}
         \/ /\ c.loaded.state = "started" /\ c.sess.state = "identity_matched"
            /\ Gain(c) = {"record"}
         \/ /\ c.loaded.state = "identity_matched" /\ c.sess.state = "identity_verified"
            /\ Gain(c) = {"possession"}
         \/ /\ c.loaded.state = "prospect" /\ c.sess.state = "lead_captured"
            /\ Gain(c) = {"lead"}
         \/ /\ c.loaded.state = "identity_verified" /\ c.sess.state = "eligibility_assessed"
            /\ Gain(c) = {"assessment"}
         \/ /\ c.loaded.state = "eligibility_assessed" /\ c.sess.state = "completed"
            /\ Gain(c) = {"granted"}
         \/ /\ c.loaded.state = "eligibility_assessed"
            /\ c.sess.state = "eligibility_assessed" /\ Gain(c) = {"refused"}
         \/ /\ c.loaded.state \in LiveStates /\ c.sess.state = "escalated"
            /\ Gain(c) = {"ticket"}
<1>1. /\ c \in CallRecords /\ c.phase = "ready"
      /\ c.loaded \in SessionRows /\ c.sess \in SessionRows
      /\ Local(c) /\ Matches(c.adds, c.req.tool, c.verdict)
      /\ c.adds \subseteq Artefacts
  BY DEF Commits, CallRecords
<1>2. /\ Effect(c.req, c.loaded, c.sess, c.verdict, c.guess.ok)
      /\ RowShape(c.loaded) /\ c.loaded.state \in LiveStates
      /\ c.loaded.state \in ExpectedStates[c.req.tool]
      /\ c.guess.ok => c.req.tool = "verify_otp"
  BY <1>1 DEF Local, StateRefusal, LiveStates, SessionRows
<1>3. \A e : e \in Gain(c) <=>
        \/ e \in c.adds /\ e # "link"
        \/ e = "record" /\ c.sess.customer # None /\ c.loaded.customer = None
        \/ e = "possession" /\ c.guess.ok
  BY DEF Gain
<1>4. \A e : e \in c.adds => e \in {"lead", "link", "assessment", "granted", "refused", "ticket"}
  BY <1>1 DEF Artefacts
<1>5. CASE c.req.tool = "verify_identity"
  <2>1. c.loaded.state = "started" /\ c.loaded.customer = None /\ c.guess.ok = FALSE
    BY <1>1, <1>2, <1>5 DEF ExpectedStates, Tools, RowShape, Anonymous,
       CallRecords, Guesses
  <2>2. c.adds = {}
    BY <1>1, <1>4, <1>5 DEF Matches
  <2>3. \/ c.sess.state = "started" /\ c.sess.customer = c.loaded.customer
        \/ c.sess.state = "prospect" /\ c.sess.customer = c.loaded.customer
        \/ c.sess.state = "identity_matched" /\ c.sess.customer # None
    <3>1. c.verdict \notin Failures /\ c.req.claim.pan \in Customers \ Sanctioned =>
            c.req.claim.pan # None
      BY ServiceAssumption
    <3> QED
      BY <1>1, <1>2, <1>5, <2>1, <3>1, ServiceAssumption DEF Effect, SessionRows
  <2>4. CASE c.sess.customer = None
    <3>1. Gain(c) = {}
      BY <1>3, <2>1, <2>2, <2>4
    <3> QED
      BY <2>1, <2>3, <2>4, <3>1
  <2>5. CASE c.sess.customer # None
    <3>1. Gain(c) = {"record"}
      BY <1>3, <2>1, <2>2, <2>5
    <3> QED
      BY <2>1, <2>3, <2>5, <3>1
  <2> QED
    BY <2>4, <2>5
<1>6. c.req.tool # "verify_identity" => c.sess.customer = c.loaded.customer
  BY <1>1, <1>2 DEF Effect, SessionRows
<1>7. CASE c.req.tool \in {"verify_otp", "resend_otp"}
  <2>1. c.loaded.state = "identity_matched" /\ c.adds = {}
    BY <1>1, <1>2, <1>4, <1>7 DEF ExpectedStates, Tools, Matches
  <2>2. CASE c.guess.ok
    <3>1. Gain(c) = {"possession"}
      BY <1>3, <1>6, <1>7, <2>1, <2>2
    <3>2. c.sess.state = "identity_verified"
      BY <1>1, <1>2, <2>2 DEF Effect, SessionRows
    <3> QED
      BY <2>1, <3>1, <3>2
  <2>3. CASE ~c.guess.ok
    <3>1. Gain(c) = {}
      BY <1>3, <1>6, <1>7, <2>1, <2>3
    <3>2. c.sess.state = c.loaded.state
      BY <1>1, <1>2, <1>7, <2>3 DEF Effect, SessionRows
    <3> QED
      BY <3>1, <3>2
  <2> QED
    BY <2>2, <2>3
<1>8. CASE c.req.tool = "capture_lead"
  <2>1. c.loaded.state = "prospect" /\ c.sess.state = "lead_captured"
    BY <1>1, <1>2, <1>8 DEF ExpectedStates, Tools, Effect, SessionRows
  <2>2. c.adds = {"lead", "link"}
    BY <1>1, <1>4, <1>8 DEF Matches
  <2>3. Gain(c) = {"lead"}
    BY <1>2, <1>3, <1>6, <1>8, <2>2
  <2> QED
    BY <2>1, <2>3
<1>9. CASE c.req.tool = "check_eligibility"
  <2>1. c.loaded.state = "identity_verified" /\ c.sess.state = "eligibility_assessed"
    BY <1>1, <1>2, <1>9 DEF ExpectedStates, Tools, Effect, SessionRows
  <2>2. c.adds = {"assessment"}
    BY <1>1, <1>4, <1>9 DEF Matches
  <2>3. Gain(c) = {"assessment"}
    BY <1>2, <1>3, <1>6, <1>9, <2>2
  <2> QED
    BY <2>1, <2>3
<1>10. CASE c.req.tool = "record_consent"
  <2>1. c.loaded.state = "eligibility_assessed"
    BY <1>2, <1>10 DEF ExpectedStates, Tools
  <2>2. CASE c.verdict = "granted"
    <3>1. c.sess.state = "completed"
      BY <1>1, <1>2, <1>10, <2>2 DEF Effect, SessionRows
    <3>2. c.adds = {"granted"}
      BY <1>1, <1>4, <1>10, <2>2 DEF Matches
    <3>3. Gain(c) = {"granted"}
      BY <1>2, <1>3, <1>6, <1>10, <3>2
    <3> QED
      BY <2>1, <3>1, <3>3
  <2>3. CASE c.verdict # "granted"
    <3>1. c.verdict = "refused" /\ c.sess.state = "eligibility_assessed"
      BY <1>1, <1>2, <1>10, <2>1, <2>3 DEF Effect, SessionRows
    <3>2. c.adds = {"refused"}
      BY <1>1, <1>4, <1>10, <3>1 DEF Matches
    <3>3. Gain(c) = {"refused"}
      BY <1>2, <1>3, <1>6, <1>10, <3>2
    <3> QED
      BY <2>1, <3>1, <3>3
  <2> QED
    BY <2>2, <2>3
<1>11. CASE c.req.tool = "escalate"
  <2>1. c.sess.state = "escalated"
    BY <1>1, <1>2, <1>11 DEF Effect, SessionRows
  <2>2. c.adds = {"ticket"}
    BY <1>1, <1>4, <1>11 DEF Matches
  <2>3. Gain(c) = {"ticket"}
    BY <1>2, <1>3, <1>6, <1>11, <2>2
  <2> QED
    BY <1>2, <2>1, <2>3
<1> QED
  BY <1>2, <1>5, <1>7, <1>8, <1>9, <1>10, <1>11 DEF Effect

LEMMA CommitRefines ==
  ASSUME IInv, TInv, NEW c, Commits(c)
  PROVE  [Lifecycle!Next]_(Lifecycle!vars)
<1> DEFINE s == c.req.session
<1>1. s \in Sessions /\ StageOf(s) = c.loaded.state
  BY ServiceAssumption DEF Commits, Current, StageOf
<1>2. \A t \in Sessions :
        /\ StageOf(t)' = IF t = s THEN c.sess.state ELSE StageOf(t)
        /\ EvidenceOf(t)' = IF t = s THEN EvidenceOf(s) \cup Gain(c) ELSE EvidenceOf(t)
  BY CommitEvidence
<1>3. Lifecycle!Step(s, c.loaded.state, c.sess.state, Gain(c))
  <2>1. PICK to, found : to = c.sess.state /\ found = Gain(c)
    OBVIOUS
  <2>2. Lifecycle!Step(s, StageOf(s), to, found)
    BY <1>1, <1>2, <2>1, LifecycleStep
  <2> QED
    BY <1>1, <2>1, <2>2
<1>4. CASE c.sess.state = c.loaded.state /\ Gain(c) = {}
  BY <1>1, <1>2, <1>4, LifecycleStutter
<1>5. CASE ~(c.sess.state = c.loaded.state /\ Gain(c) = {})
  <2>1. Lifecycle!LiveStates = LiveStates
    BY DEF Lifecycle!LiveStates, LiveStates, Lifecycle!States, States,
       Lifecycle!TerminalStates, TerminalStates
  <2>2. \/ Lifecycle!Unknown(s) \/ Lifecycle!Match(s) \/ Lifecycle!Prove(s)
        \/ Lifecycle!Capture(s) \/ Lifecycle!Assess(s) \/ Lifecycle!Agree(s)
        \/ Lifecycle!Refuse(s) \/ Lifecycle!HandOver(s)
    BY <1>3, <1>5, <2>1, EffectGains, ZenonT(30)
    DEF Lifecycle!Unknown, Lifecycle!Match, Lifecycle!Prove, Lifecycle!Capture,
        Lifecycle!Assess, Lifecycle!Agree, Lifecycle!Refuse, Lifecycle!HandOver
  <2> QED
    BY <1>1, <2>2 DEF Lifecycle!Next
<1> QED
  BY <1>4, <1>5
-----------------------------------------------------------------------------
LEMMA StepRefines ==
  ASSUME IInv, LInv, TInv, [Next]_vars
  PROVE  [Lifecycle!Next]_(Lifecycle!vars)
<1>1. CASE \E p \in Handlers : RecordCall(p)
  BY <1>1, CommitsCurrent, CommitRefines
<1>2. CASE \E s \in Sessions : StartSession(s)
  <2>1. PICK s \in Sessions : StartSession(s)
    BY <1>2
  <2> DEFINE new == [state |-> "started", customer |-> None,
                     identity_attempts |-> 0, otp_resends |-> 0]
  <2>2. /\ sessions[s] = None
        /\ \A t \in Sessions : sessions'[t] = IF t = s THEN new ELSE sessions[t]
        /\ UNCHANGED <<challenges, artefacts>>
    BY <2>1 DEF StartSession, IInv, TypeOK
  <2>3. new \in SessionRows
    BY DEF SessionRows, States
  <2>4. new # None /\ new.state = "started" /\ new.customer = None
    BY <2>3, ServiceAssumption
  <2> HIDE DEF new
  <2>5. ASSUME NEW t \in Sessions
        PROVE  /\ StageOf(t)' = IF t = s THEN "started" ELSE StageOf(t)
               /\ EvidenceOf(t)' = IF t = s THEN EvidenceOf(s) \cup {} ELSE EvidenceOf(t)
    <3>1. StageOf(t)' = IF t = s THEN "started" ELSE StageOf(t)
      BY <2>2, <2>4 DEF StageOf
    <3>2. EvidenceOf(t)' = EvidenceOf(t)
      BY <2>2, <2>4 DEF EvidenceOf
    <3> QED
      BY <3>1, <3>2
  <2>6. Lifecycle!Step(s, StageOf(s), "started", {})
    BY <2>5, LifecycleStep
  <2>7. StageOf(s) = "absent"
    BY <2>2 DEF StageOf
  <2>8. Lifecycle!Open(s)
    BY <2>6, <2>7 DEF Lifecycle!Open
  <2> QED
    BY <2>8 DEF Lifecycle!Next
<1>3. CASE UNCHANGED <<sessions, challenges, artefacts, toolCalls>>
  <2>1. ASSUME NEW t \in Sessions PROVE StageOf(t)' = StageOf(t) /\ EvidenceOf(t)' = EvidenceOf(t)
    BY <1>3 DEF StageOf, EvidenceOf
  <2> QED
    BY <2>1, LifecycleStutter
<1> QED
  BY <1>1, <1>2, <1>3, WhoWrites

\* Every run of the tool endpoints is a run of the lifecycle of a call: a call moves
\* from one stage to the next only with the evidence that justifies it, and keeps it
\* (models.py:64, tools.py:180-714).
THEOREM ServiceRefinesLifecycle ==
  ASSUME OnlyRetriesOverlap PROVE Spec => RefinesLifecycle
<1>1. IInv /\ LInv /\ TInv /\ [Next]_vars => [Lifecycle!Next]_(Lifecycle!vars)
  BY StepRefines
<1> QED
  BY <1>1, InitRefines, Invariance, LedgerInvariance, TurnInvariance, PTL
  DEF Spec, RefinesLifecycle, Lifecycle!Spec
=============================================================================
