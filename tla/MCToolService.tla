---------------------------- MODULE MCToolService ----------------------------
(***************************************************************************)
(* Small instances of ToolService for TLC.                                 *)
(***************************************************************************)
EXTENDS ToolServiceClaims, TLC

CONSTANTS c1, c2, c3, k1

\* One way each to be matched, to be unknown and to fail.
BasicClaims ==
  {[pan |-> c1, dob |-> TRUE, name |-> TRUE],
   [pan |-> None, dob |-> TRUE, name |-> TRUE],
   [pan |-> c1, dob |-> FALSE, name |-> TRUE]}

\* A customer who always states the right details.
GoodClaims == {[pan |-> c1, dob |-> TRUE, name |-> TRUE]}

\* A customer and a sanctioned one, each stating the right details.
NeighbourClaims == GoodClaims \cup {[pan |-> c2, dob |-> TRUE, name |-> TRUE]}

\* Every failure kyc distinguishes; c2 is sanctioned, and the channel has no
\* address for c3.
AllClaims ==
  BasicClaims \cup {[pan |-> c1, dob |-> TRUE, name |-> FALSE],
                    [pan |-> c2, dob |-> TRUE, name |-> TRUE],
                    [pan |-> c3, dob |-> TRUE, name |-> TRUE]}

NoKeys == [t \in Tools |-> {None}]

\* Every call keyed with a key of its tool, so that it may be retried; guesses also
\* come without one, as many as the limit takes.
ToolKeys == Tools
OwnKeys == [[t \in Tools |-> {t}] EXCEPT !["verify_otp"] = @ \cup {None}]

\* The calls that issue passcodes, and no others.
IssuingCalls ==
  [t \in Tools |-> IF t \in {"verify_identity", "resend_otp"} THEN {None} ELSE {}]

\* The calls that issue and check passcodes.
PasscodeCalls ==
  [t \in Tools |-> IF t \in {"verify_identity", "verify_otp", "resend_otp"}
                   THEN {None} ELSE {}]

\* The passcode calls and the hand-off.
HandoffCalls == [PasscodeCalls EXCEPT !["escalate"] = {None}]

\* No keys, but for a hand-off that may reuse the key of the assessment.
ReusedKey ==
  [NoKeys EXCEPT !["check_eligibility"] = {k1}, !["escalate"] = {k1, None}]

HandlerSymmetry == Permutations(Handlers)
SessionSymmetry == Permutations(Sessions)
BothSymmetries == SessionSymmetry \cup HandlerSymmetry
=============================================================================
