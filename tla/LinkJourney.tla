----------------------------- MODULE LinkJourney -----------------------------
(***************************************************************************)
(* The way of a link from capture_lead to the applicant: the handler issues *)
(* it, posts the email with the retries of ResendEmailSender, and commits   *)
(* or is rolled back (app/routers/tools.py:410-502), while page requests    *)
(* for the link come in from the moment the provider has the email.         *)
(***************************************************************************)
EXTENDS ApplicationLinks, Delivery

journeyVars == <<vars, sendVars>>

JourneyInit == Init /\ SendIdle

\* issue_link, then the first post.
Capture(l) == IssueLink(l) /\ StartSend

\* The provider has the email: its token is out.
HandOver(l) == Accept /\ EmailLink(l)

\* The sender returned, with whatever result: the call commits.
Finish(l) ==
  /\ sending \in {"sent", "failed"}
  /\ CommitLink(l)
  /\ ForgetSend

\* An exception, a duplicate or a restart, at any point of the call.
GiveUp(l) == LoseLink(l) /\ ForgetSend

JourneyNext ==
  \/ \E l \in Links : Capture(l) \/ HandOver(l) \/ Finish(l) \/ GiveUp(l)
  \/ SendStep /\ UNCHANGED vars
  \/ Visit /\ UNCHANGED sendVars

JourneySpec == JourneyInit /\ [][JourneyNext]_journeyVars
=============================================================================
