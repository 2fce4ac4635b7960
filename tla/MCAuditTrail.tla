---------------------------- MODULE MCAuditTrail ----------------------------
(***************************************************************************)
(* A small instance of AuditTrail: one call, its requests one at a time as *)
(* the evaluation makes them, its record read at any time.                 *)
(***************************************************************************)
EXTENDS AuditTrail, TLC

CONSTANTS c1, c2

Detail(pan, dob) == [pan |-> pan, dob |-> dob, name |-> TRUE]
EvalClaims == {Detail(c1, TRUE), Detail(None, TRUE), Detail(c1, FALSE)}

\* The assessment and the hand-off carry a key and may be sent again.
EvalKeys ==
  [t \in Tools |-> IF t \in {"check_eligibility", "escalate"} THEN {t} ELSE {None}]
=============================================================================
