--------------------------- MODULE ApplicationLinks ---------------------------
(***************************************************************************)
(* The web half of a prospect's journey: a link emailed by capture_lead is *)
(* opened and submitted through app/routers/application.py, which resolves *)
(* it with app/services/links.py.  Each page request has a thread and a    *)
(* transaction of its own; it resolves the token first and writes later.   *)
(***************************************************************************)
EXTENDS Integers

CONSTANTS
  Links,        \* links the service may issue; a token that is none of these
  Unknown,      \* is unknown
  Handlers,     \* threads serving page requests
  None,         \* SQL NULL and absent values
  LinkTtl,      \* application_link_ttl_hours
  MaxTime       \* bound: ticks of the clock

Times == Nat \cup {None}

\* opened and consumed are opened_at and consumed_at.
LinkRows == [expires : Nat, opened : Times, consumed : Times]

Kinds   == {"show", "submit"}
Answers == {"form", "unavailable", "invalid", "submitted"}

ASSUME LinkAssumption ==
  /\ Unknown \notin Links /\ None \notin Links \cup {Unknown} \cup Answers
  /\ None \notin Nat /\ None \notin LinkRows
  /\ LinkTtl \in Nat /\ MaxTime \in Nat

VARIABLES
  unborn,       \* tokens not generated yet
  drafts,       \* expires_at of the links in open capture_lead transactions
  links,        \* application_links: committed rows
  emailed,      \* links whose token was handed to the email provider
  submissions,  \* application_submissions: rows each link led to
  pages,        \* the request each handler serves
  now

vars == <<unborn, drafts, links, emailed, submissions, pages, now>>

\* valid tells whether the submitted fields pass validation; read is the link row
\* as resolved, None when there was none.
Pages ==
  [phase : {"idle", "resolved", "answered"}, kind : Kinds \cup {None},
   token : Links \cup {Unknown, None}, valid : BOOLEAN,
   read : LinkRows \cup {None}, answer : Answers \cup {None}]

IdlePage == [phase |-> "idle", kind |-> None, token |-> None, valid |-> FALSE,
             read |-> None, answer |-> None]
-----------------------------------------------------------------------------
\* resolve: the status of a token.  A lead is never deleted before its link.
Status(token) ==
  IF token \notin Links THEN "not_found"
  ELSE IF links[token] = None THEN "not_found"
  ELSE IF links[token].consumed # None THEN "already_used"
  ELSE IF links[token].expires < now THEN "expired"
  ELSE "valid"

\* Mutant: the link never expires.
IssueForEver(l) ==
  /\ l \in unborn
  /\ unborn' = unborn \ {l}
  /\ drafts' = [drafts EXCEPT ![l] = now + LinkTtl]
  /\ links' = [links EXCEPT ![l] = [expires |-> None, opened |-> None, consumed |-> None]]
  /\ UNCHANGED <<emailed, submissions, pages, now>>

\* issue_link: the row is flushed, and its lifetime begins before it is committed.
IssueLink(l) ==
  /\ l \in unborn
  /\ unborn' = unborn \ {l}
  /\ drafts' = [drafts EXCEPT ![l] = now + LinkTtl]
  /\ UNCHANGED <<links, emailed, submissions, pages, now>>

\* capture_lead hands the token to the email provider before it commits, so the
\* applicant may hold a link that is not there yet, or, when the call is rolled
\* back, never will be.
EmailLink(l) ==
  /\ drafts[l] # None
  /\ emailed' = emailed \cup {l}
  /\ UNCHANGED <<unborn, drafts, links, submissions, pages, now>>

\* The lead and its link are committed, whether or not the email went out.
CommitLink(l) ==
  /\ drafts[l] # None
  /\ links' = [links EXCEPT ![l] =
                 [expires |-> drafts[l], opened |-> None, consumed |-> None]]
  /\ drafts' = [drafts EXCEPT ![l] = None]
  /\ UNCHANGED <<unborn, emailed, submissions, pages, now>>

\* The call fails or is a duplicate: rolled back, and its token is lost.
LoseLink(l) ==
  /\ drafts[l] # None
  /\ drafts' = [drafts EXCEPT ![l] = None]
  /\ UNCHANGED <<unborn, links, emailed, submissions, pages, now>>

Answered(page, answer) == [page EXCEPT !.phase = "answered", !.answer = answer]

Resolved(token) == IF token \in Links THEN links[token] ELSE None

\* Both pages resolve the token first.  A dead link gets one page whatever is
\* wrong with it, and so does a form with errors, which spends nothing.
Request(p, kind, token, valid) ==
  LET page == [IdlePage EXCEPT !.kind = kind, !.token = token, !.valid = valid,
                               !.read = Resolved(token)]
  IN /\ pages[p].phase = "idle"
     /\ pages' = [pages EXCEPT ![p] =
          IF Status(token) # "valid" THEN Answered(page, "unavailable")
          ELSE IF kind = "submit" /\ ~valid THEN Answered(page, "invalid")
          ELSE [page EXCEPT !.phase = "resolved"]]
     /\ UNCHANGED <<unborn, drafts, links, emailed, submissions, now>>

\* Mutant: the whole row is written back as it was read.
WriteRowBack(p) ==
  /\ pages[p].phase = "resolved" /\ pages[p].kind = "show"
  /\ links' = [links EXCEPT ![pages[p].token] = [pages[p].read EXCEPT !.opened = now]]
  /\ pages' = [pages EXCEPT ![p] = Answered(pages[p], "form")]
  /\ UNCHANGED <<unborn, drafts, emailed, submissions, now>>

\* mark_opened and commit: the time of the first view is kept.
ShowApplication(p) ==
  LET page == pages[p]
  IN /\ page.phase = "resolved" /\ page.kind = "show"
     /\ links' = IF page.read.opened = None
                 THEN [links EXCEPT ![page.token].opened = now] ELSE links
     /\ pages' = [pages EXCEPT ![p] = Answered(page, "form")]
     /\ UNCHANGED <<unborn, drafts, emailed, submissions, now>>

\* Mutant: the link is left for a later transaction to consume.
SubmitUnspent(p) ==
  /\ pages[p].phase = "resolved" /\ pages[p].kind = "submit"
  /\ submissions' = [submissions EXCEPT ![pages[p].token] = @ + 1]
  /\ pages' = [pages EXCEPT ![p] = Answered(pages[p], "submitted")]
  /\ UNCHANGED <<unborn, drafts, links, emailed, now>>

\* The submission and consume, in one commit.
SubmitApplication(p) ==
  LET page == pages[p]
  IN /\ page.phase = "resolved" /\ page.kind = "submit"
     /\ submissions' = [submissions EXCEPT ![page.token] = @ + 1]
     /\ links' = [links EXCEPT ![page.token].consumed = now]
     /\ pages' = [pages EXCEPT ![p] = Answered(page, "submitted")]
     /\ UNCHANGED <<unborn, drafts, emailed, now>>

\* Mutant: the applicant is thanked although the commit failed.
AbortThanked(p) ==
  /\ pages[p].phase = "resolved"
  /\ pages' = [pages EXCEPT ![p] = Answered(pages[p], "submitted")]
  /\ UNCHANGED <<unborn, drafts, links, emailed, submissions, now>>

\* An exception or a restart: rolled back.
Abort(p) ==
  /\ pages[p].phase = "resolved"
  /\ pages' = [pages EXCEPT ![p] = IdlePage]
  /\ UNCHANGED <<unborn, drafts, links, emailed, submissions, now>>

Return(p) ==
  /\ pages[p].phase = "answered"
  /\ pages' = [pages EXCEPT ![p] = IdlePage]
  /\ UNCHANGED <<unborn, drafts, links, emailed, submissions, now>>

Tick ==
  /\ now < MaxTime
  /\ now' = now + 1
  /\ UNCHANGED <<unborn, drafts, links, emailed, submissions, pages>>

Init ==
  /\ unborn = Links
  /\ drafts = [l \in Links |-> None]
  /\ links = [l \in Links |-> None]
  /\ emailed = {}
  /\ submissions = [l \in Links |-> 0]
  /\ pages = [p \in Handlers |-> IdlePage]
  /\ now = 0

Visit ==
  \/ \E p \in Handlers :
       \/ \E token \in emailed \cup {Unknown}, valid \in BOOLEAN, kind \in Kinds :
            Request(p, kind, token, valid)
       \/ ShowApplication(p) \/ SubmitApplication(p) \/ Abort(p) \/ Return(p)
  \/ Tick

Next ==
  \/ \E l \in Links : IssueLink(l) \/ EmailLink(l) \/ CommitLink(l) \/ LoseLink(l)
  \/ Visit

Spec == Init /\ [][Next]_vars
-----------------------------------------------------------------------------
(* Properties *)

\* The types of the variables.
TypeOK ==
  /\ unborn \subseteq Links
  /\ drafts \in [Links -> Times]
  /\ links \in [Links -> LinkRows \cup {None}]
  /\ emailed \subseteq Links
  /\ submissions \in [Links -> Nat]
  /\ pages \in [Handlers -> Pages]
  /\ now \in Nat

\* A link is spent exactly when a submission it authorised was recorded: no crash
\* loses the record and spends the link (application.py:185-187).
SpentWhenSubmitted ==
  \A l \in Links :
    submissions[l] > 0 <=> links[l] # None /\ links[l].consumed # None

\* A link leads to one submission at most (failure-modes.md, "Applicant submits
\* twice"; application.py:185-187).
SubmittedOnce == \A l \in Links : submissions[l] <= 1

\* A link that was there and turned an applicant away is spent or expired, and
\* stays so: no later commit brings it back to life (links.py:95-118).
RefusedStaysDead ==
  \A p \in Handlers :
    pages[p].answer = "unavailable" /\ pages[p].read # None =>
      LET row == links[pages[p].token]
      IN row.consumed # None \/ row.expires < now

\* The thank-you page is shown only for a recorded submission (application.py:189-197).
ThanksForRecorded ==
  \A p \in Handlers :
    pages[p].answer = "submitted" => submissions[pages[p].token] > 0
=============================================================================
