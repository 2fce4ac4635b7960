---------------------------- MODULE SessionStates ----------------------------
(***************************************************************************)
(* The states a call can occupy, the edges between them and the two guards *)
(* every tool handler applies (app/models.py, app/services/sessions.py).   *)
(***************************************************************************)

\* SessionState
States == {"started", "prospect", "lead_captured", "identity_matched",
           "identity_verified", "eligibility_assessed", "consent_recorded",
           "completed", "escalated", "blocked"}

\* ALLOWED_TRANSITIONS
AllowedTransitions ==
  [st \in States |->
     CASE st = "started"  -> {"identity_matched", "prospect", "escalated", "blocked"}
       [] st = "prospect" -> {"lead_captured", "escalated", "blocked"}
       [] st = "identity_matched"  -> {"identity_verified", "escalated", "blocked"}
       [] st = "identity_verified" -> {"eligibility_assessed", "escalated"}
       [] st = "eligibility_assessed" -> {"consent_recorded", "escalated"}
       [] st = "consent_recorded" -> {"completed", "escalated"}
       [] OTHER -> {}]

\* TERMINAL_STATES
TerminalStates == {"completed", "lead_captured", "escalated", "blocked"}

LiveStates == States \ TerminalStates

Tools == {"verify_identity", "verify_otp", "resend_otp", "capture_lead",
          "check_eligibility", "record_consent", "escalate"}

\* The states each handler passes to require_state; escalate calls require_live.
ExpectedStates ==
  [t \in Tools |->
     CASE t = "verify_identity" -> {"started"}
       [] t \in {"verify_otp", "resend_otp"} -> {"identity_matched"}
       [] t = "capture_lead" -> {"prospect"}
       [] t = "check_eligibility" -> {"identity_verified"}
       [] t = "record_consent" -> {"eligibility_assessed"}
       [] t = "escalate" -> LiveStates]

\* Mutant: every handler guarded by require_live alone.
GuardedByLiveness(st, t) == IF st \in TerminalStates THEN "session_closed" ELSE "none"

\* Mutant: escalation from a list of states that a later state is missing from.
GuardedByList(st, t) ==
  IF st \in TerminalStates THEN "session_closed"
  ELSE IF st \notin ExpectedStates[t] \ {"prospect"} THEN "invalid_transition"
  ELSE "none"

\* require_state and require_live: why a session in state st refuses tool t.
StateRefusal(st, t) ==
  IF st \in TerminalStates THEN "session_closed"
  ELSE IF st \notin ExpectedStates[t] THEN "invalid_transition"
  ELSE "none"

\* transition: an edge the state machine defines.
CanMove(st, target) == target \in AllowedTransitions[st]
=============================================================================
