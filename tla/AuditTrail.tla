----------------------------- MODULE AuditTrail -----------------------------
(***************************************************************************)
(* The record of a call as GET /v1/sessions/{id} returns it                *)
(* (app/routers/admin.py), read statement by statement while the tool      *)
(* endpoints go on committing, and what the evaluation concludes from it   *)
(* (evals/run_evals.py).  At READ COMMITTED every SELECT sees what is      *)
(* committed when it runs; the lazy relationship session.tool_calls is     *)
(* read when the response is built, after all the others.                  *)
(***************************************************************************)
EXTENDS ToolService

CONSTANT MaxReplies   \* bound: replies the evaluation has seen

VARIABLES
  view,    \* the audit request in progress, or its finished response
  heard    \* the 200 replies of the calls made so far: session, tool, key, reply

auditVars == <<vars, view, heard>>

\* Mutant: session.tool_calls loaded together with the session.
TrailSecond ==
  <<"session", "tool_calls", "assessment", "consents", "escalation", "lead",
    "challenges">>

\* Mutant: the session refreshed before the response is built.
SessionLast ==
  <<"assessment", "consents", "escalation", "lead", "challenges", "tool_calls",
    "session">>

\* The statements of get_session_audit, in the order they are sent.
Statements ==
  <<"session", "assessment", "consents", "escalation", "lead", "challenges",
    "tool_calls">>

ClosedView ==
  [session |-> None, next |-> 0, row |-> None,
   found |-> [k \in Artefacts |-> 0], codes |-> [i \in {} |-> 0],
   trail |-> <<>>, quiet |-> FALSE]

\* Mutant: only the first consent is returned.
FoundFirst(s, kinds) ==
  [k \in Artefacts |->
     IF k \notin kinds THEN view.found[k]
     ELSE IF artefacts[s][k] > 0 THEN 1 ELSE 0]

\* What one SELECT adds: all the consents, the first row of the others.
Found(s, kinds) ==
  [k \in Artefacts |->
     IF k \notin kinds THEN view.found[k]
     ELSE IF k \in Answers THEN artefacts[s][k]
     ELSE IF artefacts[s][k] > 0 THEN 1 ELSE 0]

\* The attempts each passcode of s has taken.
CodesOf(s) ==
  [i \in {j \in DOMAIN challenges : challenges[j].session = s} |->
     challenges[i].attempts]

ReadStatement(s, what) ==
  CASE what = "session"    -> [view EXCEPT !.row = sessions[s]]
    [] what = "assessment" -> [view EXCEPT !.found = Found(s, {"assessment"})]
    [] what = "consents"   -> [view EXCEPT !.found = Found(s, Answers)]
    [] what = "escalation" -> [view EXCEPT !.found = Found(s, {"ticket"})]
    [] what = "lead"       -> [view EXCEPT !.found = Found(s, {"lead"})]
    [] what = "challenges" -> [view EXCEPT !.codes = CodesOf(s)]
    [] what = "tool_calls" -> [view EXCEPT !.trail = toolCalls[s]]

\* A request for the record of s; an unknown session is a 404 and reads no more.
OpenAudit(s) ==
  /\ view.next = 0
  /\ sessions[s] # None
  /\ view' = [ClosedView EXCEPT !.session = s, !.next = 1,
                                !.quiet = \A p \in Handlers : calls[p].phase = "idle"]
  /\ UNCHANGED <<vars, heard>>

ReadNext ==
  /\ view.next \in DOMAIN Statements
  /\ view' = [ReadStatement(view.session, Statements[view.next]) EXCEPT !.next = @ + 1]
  /\ UNCHANGED <<vars, heard>>

Complete == view.next = Len(Statements) + 1

CloseAudit ==
  /\ Complete
  /\ view' = ClosedView
  /\ UNCHANGED <<vars, heard>>
-----------------------------------------------------------------------------
(* The service goes on meanwhile *)

\* A reply other than a ToolError has status 200.
Hear(p) ==
  LET c == calls[p]
  IN heard' = IF c.reply.outcome \in Refusals THEN heard
              ELSE Append(heard, [session |-> c.req.session, tool |-> c.req.tool,
                                  key |-> c.req.key, reply |-> c.reply])

Disturbed == view' = [view EXCEPT !.quiet = FALSE]

Serve ==
  /\ Disturbed
  /\ \/ /\ \/ \E s \in Sessions : StartSession(s)
           \/ \E p \in Handlers :
                \/ Arrive(p) /\ Len(heard) < MaxReplies
                \/ Work(p) \/ Send(p) \/ Finalize(p) \/ Abort(p)
        /\ UNCHANGED heard
     \/ \E p \in Handlers : Return(p) /\ Hear(p)

AuditInit == Init /\ view = ClosedView /\ heard = <<>>

AuditNext == (\E s \in Sessions : OpenAudit(s)) \/ ReadNext \/ CloseAudit \/ Serve

AuditSpec == AuditInit /\ [][AuditNext]_auditVars
-----------------------------------------------------------------------------
(* The evaluation's reference *)

HeardFrom(s) == {i \in DOMAIN heard : heard[i].session = s}

IsReplay(i) ==
  /\ heard[i].key # None
  /\ \E j \in HeardFrom(heard[i].session) :
       j < i /\ heard[j].tool = heard[i].tool /\ heard[j].key = heard[i].key

\* The replies of s that did work, and how many of them there are up to reply i.
Did(s) == {i \in HeardFrom(s) : ~IsReplay(i)}

Rank(s, i) == Cardinality({j \in Did(s) : j <= i})

\* expected_recorded_tools: the tools of the replies that did work, in order.
ExpectedTools(s) ==
  [k \in 1..Cardinality(Did(s)) |-> heard[CHOOSE i \in Did(s) : Rank(s, i) = k].tool]

HeardCount(s, tool, outcomes) ==
  Cardinality({i \in HeardFrom(s) :
                 heard[i].tool = tool /\ heard[i].reply.outcome \in outcomes})
-----------------------------------------------------------------------------
(* Properties *)

RowsIn(tools, verdicts) ==
  Cardinality({i \in DOMAIN view.trail :
                 view.trail[i].tool \in tools /\ view.trail[i].verdict \in verdicts})

\* However the commits of other requests fall between the statements, a record
\* shows nothing its trail does not answer for: no decision, consent, ticket,
\* lead, passcode, guess, failed attempt or resend without its audit row, and no
\* state that was not somebody's reply (admin.py:49-144).
TrailCoversRecord ==
  Complete =>
    /\ view.row.state \in {"started"} \cup
         {view.trail[i].reply.state : i \in DOMAIN view.trail}
    /\ view.found["assessment"] <= RowsIn({"check_eligibility"}, Decisions)
    /\ view.found["ticket"] <= RowsIn({"escalate"}, Verdicts)
    /\ view.found["lead"] <= RowsIn({"capture_lead"}, Verdicts)
    /\ \A a \in Answers : view.found[a] <= RowsIn({"record_consent"}, {a})
    /\ Cardinality(DOMAIN view.codes) <=
         RowsIn({"verify_identity", "resend_otp"}, {"sent", "delivery_failed"})
    /\ (\E i \in DOMAIN view.codes : view.codes[i] > 0) =>
         RowsIn({"verify_otp"}, {"ok", "wrong_code", "attempts_exhausted"}) > 0
    /\ view.row.identity_attempts <= RowsIn({"verify_identity"}, Failures)
    /\ view.row.otp_resends <= RowsIn({"resend_otp"}, {"sent"})

\* A record that gives an ending, or a decided state, also shows the row that
\* backs it, although the two come from different statements (admin.py:53-78).
StateBackedInRecord ==
  Complete =>
    /\ view.row.state = "completed" => view.found["granted"] = 1
    /\ view.row.state = "lead_captured" => view.found["lead"] = 1
    /\ view.row.state = "escalated" => view.found["ticket"] = 1
    /\ view.row.state \in {"eligibility_assessed", "completed"} =>
         view.found["assessment"] = 1
    /\ view.row.state \in {"identity_matched", "identity_verified"}
         /\ RowsIn({"verify_identity"}, {"sent"}) > 0 => view.codes # <<>>

\* The checks the evaluation makes once its last call has returned: the trail
\* holds exactly the calls that did work, the state is the last one told, and
\* what was told about a decision, a consent, a ticket or a lead is on file, a
\* lead without a decision (run_evals.py:114-248).
EvaluationAgrees ==
  Complete /\ view.quiet =>
    LET s == view.session
    IN /\ [i \in DOMAIN view.trail |-> view.trail[i].tool] = ExpectedTools(s)
       /\ \A i \in HeardFrom(s) :
            (\A j \in HeardFrom(s) : j <= i) /\ ~IsReplay(i) =>
              view.row.state = heard[i].reply.state
       /\ HeardCount(s, "check_eligibility", Outcomes) > 0 => view.found["assessment"] = 1
       /\ view.found["granted"] = HeardCount(s, "record_consent", {"ok"})
       /\ view.found["refused"] = HeardCount(s, "record_consent", {"declined"})
       /\ HeardCount(s, "escalate", Outcomes) > 0 => view.found["ticket"] = 1
       /\ HeardCount(s, "capture_lead", Outcomes) > 0 =>
            view.found["lead"] = 1 /\ view.found["assessment"] = 0
=============================================================================
