---------------------------- MODULE CallLifecycle ----------------------------
(***************************************************************************)
(* What a call promises, whatever the handlers do to keep it: at any time  *)
(* it is at one stage and holds the evidence collected on the way.  A      *)
(* stage is reached from one other stage only, with the evidence that      *)
(* justifies it, and a closed call never changes.                          *)
(***************************************************************************)
EXTENDS SessionStates

CONSTANTS Calls

VARIABLES stage,     \* stage of each call, "absent" before it starts
          evidence   \* what each call has on record

vars == <<stage, evidence>>

Evidence == {"record", "possession", "assessment", "granted", "refused",
             "lead", "ticket"}

Init == /\ stage = [c \in Calls |-> "absent"]
        /\ evidence = [c \in Calls |-> {}]

Step(c, from, to, found) ==
  /\ stage[c] = from
  /\ stage' = [stage EXCEPT ![c] = to]
  /\ evidence' = [evidence EXCEPT ![c] = @ \cup found]

Open(c)     == Step(c, "absent", "started", {})
Match(c)    == Step(c, "started", "identity_matched", {"record"})
Unknown(c)  == Step(c, "started", "prospect", {})
Capture(c)  == Step(c, "prospect", "lead_captured", {"lead"})
Prove(c)    == Step(c, "identity_matched", "identity_verified", {"possession"})
Assess(c)   == Step(c, "identity_verified", "eligibility_assessed", {"assessment"})
Refuse(c)   == Step(c, "eligibility_assessed", "eligibility_assessed", {"refused"})
Agree(c)    == Step(c, "eligibility_assessed", "completed", {"granted"})
HandOver(c) == \E st \in LiveStates : Step(c, st, "escalated", {"ticket"})

Next == \E c \in Calls :
  \/ Open(c) \/ Match(c) \/ Unknown(c) \/ Capture(c) \/ Prove(c)
  \/ Assess(c) \/ Refuse(c) \/ Agree(c) \/ HandOver(c)

Spec == Init /\ [][Next]_vars
=============================================================================
