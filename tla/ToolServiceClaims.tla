-------------------------- MODULE ToolServiceClaims --------------------------
(***************************************************************************)
(* What the service is to a caller: the abstract lifecycle of a call that  *)
(* the tool endpoints implement, read off their tables.                    *)
(***************************************************************************)
EXTENDS ToolService

\* The evidence a session holds, read off the tables.
EvidenceOf(s) ==
  {k \in Artefacts \ {"link"} : artefacts[s][k] > 0}
  \cup {e \in {"record"} : sessions[s] # None /\ sessions[s].customer # None}
  \cup {e \in {"possession"} :
          \E i \in DOMAIN challenges : challenges[i].session = s /\ challenges[i].proved}

Lifecycle == INSTANCE CallLifecycle WITH
  Calls <- Sessions,
  stage <- [s \in Sessions |-> IF sessions[s] = None THEN "absent"
                               ELSE sessions[s].state],
  evidence <- [s \in Sessions |-> EvidenceOf(s)]

\* Every commit of the tool endpoints is one step of the lifecycle of one call.
RefinesLifecycle == Lifecycle!Spec
=============================================================================
