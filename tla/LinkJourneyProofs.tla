--------------------------- MODULE LinkJourneyProofs ---------------------------
(***************************************************************************)
(* What a link and the email that carries it promise, for any number of    *)
(* links, of page requests that overlap in any way, of retries and of slow *)
(* waits, and any time limit: first of ApplicationLinks, then of Delivery, *)
(* then of the two together.                                               *)
(*                                                                         *)
(* The links lean on one fact: a committed row is never replaced.  IInv    *)
(* says why: the only write that replaces a row is the commit of a draft,  *)
(* and a link with a draft has no row yet; every page request that         *)
(* resolved a link found a row.                                            *)
(*                                                                         *)
(* The time of a send is the arithmetic behind "about 6.5 seconds"         *)
(* (config.py:47) with the term the comment leaves out: every post pays    *)
(* the limit once per wait, not once.                                      *)
(*                                                                         *)
(* Together they keep what each promises: every step of the journey is a   *)
(* step of the links or leaves them alone, and the same of the send.       *)
(***************************************************************************)
EXTENDS LinkJourney, TLAPS
-----------------------------------------------------------------------------
(* The links *)

\* A link is generated, drafted and committed in this order.
OneBirth ==
  \A l \in Links :
    /\ l \in unborn => drafts[l] = None /\ links[l] = None
    /\ drafts[l] # None => links[l] = None

\* A page that read a row read one that is still there.
ReadIsThere ==
  \A p \in Handlers :
    /\ pages[p].read # None => /\ pages[p].token \in Links
                               /\ links[pages[p].token] # None
    /\ pages[p].phase = "resolved" => pages[p].read # None /\ pages[p].answer = None
    /\ pages[p].answer = "submitted" => pages[p].read # None

IInv == /\ TypeOK
        /\ OneBirth
        /\ ReadIsThere
        /\ SpentWhenSubmitted
        /\ RefusedStaysDead
        /\ ThanksForRecorded

-----------------------------------------------------------------------------
LEMMA IdlePageOK == IdlePage \in Pages
BY DEF IdlePage, Pages

LEMMA InitIInv == Init => IInv
<1> SUFFICES ASSUME Init PROVE IInv
  OBVIOUS
<1>1. TypeOK
  BY IdlePageOK DEF Init, TypeOK, Times
<1>2. OneBirth /\ SpentWhenSubmitted
  BY DEF Init, OneBirth, SpentWhenSubmitted
<1>3. \A p \in Handlers : pages[p] = IdlePage
  BY DEF Init
<1>4. ReadIsThere /\ RefusedStaysDead /\ ThanksForRecorded
  BY <1>3, LinkAssumption
     DEF ReadIsThere, RefusedStaysDead, ThanksForRecorded, IdlePage, Answers
<1> QED
  BY <1>1, <1>2, <1>4 DEF IInv
-----------------------------------------------------------------------------
(* The way of a link to its row: no page has read it yet *)

\* A step that touches neither the rows, the submissions nor the pages.
LEMMA BirthStep ==
  ASSUME IInv, NEW l \in Links,
         UNCHANGED <<links, submissions, pages, now>>,
         unborn' \subseteq unborn,
         drafts' \in [Links -> Times],
         \A k \in Links \ {l} : drafts'[k] = drafts[k],
         drafts'[l] # None => links[l] = None /\ l \notin unborn',
         emailed' \subseteq Links
  PROVE  IInv'
<1>1. TypeOK'
  BY DEF IInv, TypeOK
<1>2. OneBirth'
  BY DEF IInv, OneBirth
<1>3. ReadIsThere' /\ SpentWhenSubmitted' /\ RefusedStaysDead' /\ ThanksForRecorded'
  BY DEF IInv, ReadIsThere, SpentWhenSubmitted, RefusedStaysDead, ThanksForRecorded
<1> QED
  BY <1>1, <1>2, <1>3 DEF IInv

LEMMA IssueLinkStep ==
  ASSUME IInv, NEW l \in Links, IssueLink(l) PROVE IInv'
<1>1. now + LinkTtl \in Times
  BY LinkAssumption DEF IInv, TypeOK, Times
<1>2. links[l] = None
  BY DEF IssueLink, IInv, OneBirth
<1> QED
  BY <1>1, <1>2, BirthStep DEF IssueLink, IInv, TypeOK

LEMMA EmailLinkStep ==
  ASSUME IInv, NEW l \in Links, EmailLink(l) PROVE IInv'
BY BirthStep DEF EmailLink, IInv, TypeOK, OneBirth

LEMMA LoseLinkStep ==
  ASSUME IInv, NEW l \in Links, LoseLink(l) PROVE IInv'
BY BirthStep DEF LoseLink, IInv, TypeOK, Times

LEMMA CommitLinkStep ==
  ASSUME IInv, NEW l \in Links, CommitLink(l) PROVE IInv'
<1> DEFINE row == [expires |-> drafts[l], opened |-> None, consumed |-> None]
<1>1. row \in LinkRows /\ row # None
  BY LinkAssumption DEF CommitLink, IInv, TypeOK, LinkRows, Times
<1>2. links[l] = None /\ l \notin unborn /\ ~(submissions[l] > 0)
  BY DEF CommitLink, IInv, OneBirth, SpentWhenSubmitted
<1>3. /\ links' \in [Links -> LinkRows \cup {None}]
      /\ links'[l] = row
      /\ \A k \in Links \ {l} : links'[k] = links[k]
  BY <1>1 DEF CommitLink, IInv, TypeOK
<1>4. TypeOK'
  BY <1>3 DEF CommitLink, IInv, TypeOK, Times
<1>5. OneBirth'
  BY <1>2, <1>3 DEF CommitLink, IInv, TypeOK, OneBirth
<1>6. ReadIsThere'
  BY <1>1, <1>3 DEF CommitLink, IInv, ReadIsThere
<1>7. SpentWhenSubmitted'
  <2>1. row.consumed = None
    OBVIOUS
  <2> QED
    BY <1>1, <1>2, <1>3, <2>1 DEF CommitLink, IInv, SpentWhenSubmitted
<1>8. RefusedStaysDead'
  BY <1>2, <1>3 DEF CommitLink, IInv, ReadIsThere, RefusedStaysDead
<1>9. ThanksForRecorded'
  BY DEF CommitLink, IInv, ThanksForRecorded
<1> QED
  BY <1>4, <1>5, <1>6, <1>7, <1>8, <1>9 DEF IInv
-----------------------------------------------------------------------------
(* The page requests *)

\* A page changes, and the rows and the submissions do not.
LEMMA PageStep ==
  ASSUME IInv, NEW p \in Handlers, NEW page \in Pages,
         pages' = [pages EXCEPT ![p] = page],
         UNCHANGED <<unborn, drafts, links, emailed, submissions, now>>,
         page.read # None => page.token \in Links /\ links[page.token] # None,
         page.phase = "resolved" => page.read # None /\ page.answer = None,
         page.answer = "unavailable" /\ page.read # None =>
           links[page.token].consumed # None \/ links[page.token].expires < now,
         page.answer # "submitted"
  PROVE  IInv'
<1>1. /\ pages' \in [Handlers -> Pages]
      /\ \A r \in Handlers : pages'[r] = IF r = p THEN page ELSE pages[r]
  BY DEF IInv, TypeOK
<1>2. TypeOK' /\ OneBirth' /\ SpentWhenSubmitted'
  BY <1>1 DEF IInv, TypeOK, OneBirth, SpentWhenSubmitted
<1>3. ReadIsThere'
  BY <1>1 DEF IInv, ReadIsThere
<1>4. RefusedStaysDead'
  BY <1>1 DEF IInv, RefusedStaysDead
<1>5. ThanksForRecorded'
  BY <1>1 DEF IInv, ThanksForRecorded
<1> QED
  BY <1>2, <1>3, <1>4, <1>5 DEF IInv

LEMMA IdleAgainStep ==
  ASSUME IInv, NEW p \in Handlers, Abort(p) \/ Return(p) PROVE IInv'
<1>1. /\ IdlePage.read = None /\ IdlePage.phase = "idle" /\ IdlePage.answer = None
  BY DEF IdlePage
<1>2. None # "submitted"
  BY LinkAssumption DEF Answers
<1> QED
  BY <1>1, <1>2, PageStep, IdlePageOK DEF Abort, Return

LEMMA RequestStep ==
  ASSUME IInv, NEW p \in Handlers, NEW token \in Links \cup {Unknown},
         NEW valid \in BOOLEAN, NEW kind \in Kinds,
         Request(p, kind, token, valid)
  PROVE  IInv'
<1> DEFINE page == [IdlePage EXCEPT !.kind = kind, !.token = token, !.valid = valid,
                                    !.read = Resolved(token)]
           next == IF Status(token) # "valid" THEN Answered(page, "unavailable")
                   ELSE IF kind = "submit" /\ ~valid THEN Answered(page, "invalid")
                   ELSE [page EXCEPT !.phase = "resolved"]
<1>1. Resolved(token) \in LinkRows \cup {None}
  BY DEF Resolved, IInv, TypeOK
<1>2. page \in Pages
  BY <1>1, IdlePageOK DEF IdlePage, Pages
<1>3. /\ next \in Pages
      /\ next.token = token /\ next.read = Resolved(token)
      /\ next.phase = "resolved" => Status(token) = "valid" /\ next.answer = None
      /\ next.answer = "unavailable" => Status(token) # "valid"
      /\ next.answer # "submitted"
  BY <1>2, LinkAssumption DEF Answered, Pages, Answers, IdlePage
<1>4. next.read # None => next.token \in Links /\ links[next.token] # None
  BY <1>3 DEF Resolved
<1>5. Status(token) = "valid" => Resolved(token) # None
  BY DEF Status, Resolved
<1>6. Status(token) # "valid" /\ Resolved(token) # None =>
        links[token].consumed # None \/ links[token].expires < now
  BY DEF Status, Resolved
<1>7. /\ pages' = [pages EXCEPT ![p] = next]
      /\ UNCHANGED <<unborn, drafts, links, emailed, submissions, now>>
  BY DEF Request
<1> HIDE DEF next
<1> QED
  BY <1>3, <1>4, <1>5, <1>6, <1>7, PageStep

\* A page writes the row it resolved, which is there, and keeps it a row.
LEMMA WriteStep ==
  ASSUME IInv, NEW p \in Handlers, NEW row \in LinkRows, NEW answer \in Answers,
         NEW n \in Nat, pages[p].phase = "resolved", pages[p].token \in Links,
         row.expires = links[pages[p].token].expires,
         links[pages[p].token].consumed # None => row.consumed # None,
         n > 0 <=> row.consumed # None,
         n >= submissions[pages[p].token],
         answer = "submitted" => n > 0, answer # "unavailable",
         links' = [links EXCEPT ![pages[p].token] = row],
         submissions' = [submissions EXCEPT ![pages[p].token] = n],
         pages' = [pages EXCEPT ![p] = Answered(pages[p], answer)],
         UNCHANGED <<unborn, drafts, emailed, now>>
  PROVE  IInv'
<1> DEFINE t == pages[p].token
           done == Answered(pages[p], answer)
<1>1. row # None /\ links[t] # None /\ pages[p].read # None
  BY LinkAssumption DEF IInv, ReadIsThere
<1>2. /\ done \in Pages /\ done.phase = "answered" /\ done.answer = answer
      /\ done.token = t /\ done.read = pages[p].read
  BY DEF IInv, TypeOK, Answered, Pages
<1>3. /\ pages' \in [Handlers -> Pages]
      /\ \A r \in Handlers : pages'[r] = IF r = p THEN done ELSE pages[r]
  BY <1>2 DEF IInv, TypeOK
<1>4. /\ links' \in [Links -> LinkRows \cup {None}]
      /\ \A l \in Links : links'[l] = IF l = t THEN row ELSE links[l]
  BY DEF IInv, TypeOK
<1>5. /\ submissions' \in [Links -> Nat]
      /\ \A l \in Links : submissions'[l] = IF l = t THEN n ELSE submissions[l]
  BY DEF IInv, TypeOK
<1> HIDE DEF done
<1>6. TypeOK'
  BY <1>3, <1>4, <1>5 DEF IInv, TypeOK
<1>7. OneBirth'
  BY <1>1, <1>4 DEF IInv, OneBirth
<1>8. ReadIsThere'
  BY <1>1, <1>2, <1>3, <1>4 DEF IInv, ReadIsThere
<1>9. SpentWhenSubmitted'
  BY <1>1, <1>4, <1>5 DEF IInv, SpentWhenSubmitted
<1>10. RefusedStaysDead'
  BY <1>1, <1>2, <1>3, <1>4 DEF IInv, ReadIsThere, RefusedStaysDead
<1>11. ThanksForRecorded'
  <2>1. \A r \in Handlers : pages[r].answer = "submitted" => pages[r].token \in Links
    BY DEF IInv, ReadIsThere
  <2>2. \A l \in Links : submissions[l] > 0 => submissions'[l] > 0
    BY <1>5 DEF IInv, TypeOK
  <2> QED
    BY <1>2, <1>3, <1>5, <2>1, <2>2 DEF IInv, ThanksForRecorded
<1> QED
  BY <1>6, <1>7, <1>8, <1>9, <1>10, <1>11 DEF IInv

\* What a page in progress knows of its link.
LEMMA ResolvedPage ==
  ASSUME IInv, NEW p \in Handlers, pages[p].phase = "resolved"
  PROVE  /\ pages[p].token \in Links
         /\ links[pages[p].token] \in LinkRows
         /\ submissions[pages[p].token] \in Nat
         /\ submissions[pages[p].token] > 0 <=> links[pages[p].token].consumed # None
         /\ now \in Nat /\ now # None
BY LinkAssumption DEF IInv, TypeOK, ReadIsThere, SpentWhenSubmitted

LEMMA ShowApplicationStep ==
  ASSUME IInv, NEW p \in Handlers, ShowApplication(p) PROVE IInv'
<1> DEFINE t == pages[p].token
           row == IF pages[p].read.opened = None THEN [links[t] EXCEPT !.opened = now]
                  ELSE links[t]
           n == submissions[t]
<1>1. /\ t \in Links /\ links[t] \in LinkRows /\ submissions[t] \in Nat
      /\ submissions[t] > 0 <=> links[t].consumed # None
      /\ now \in Nat
  BY ResolvedPage DEF ShowApplication
<1>2. /\ row \in LinkRows /\ row.expires = links[t].expires
      /\ row.consumed = links[t].consumed
  BY <1>1 DEF LinkRows, Times
<1>3. links' = [links EXCEPT ![t] = row]
  BY <1>1 DEF ShowApplication, IInv, TypeOK
<1>4. submissions' = [submissions EXCEPT ![t] = n]
  BY <1>1 DEF ShowApplication, IInv, TypeOK
<1>5. /\ pages' = [pages EXCEPT ![p] = Answered(pages[p], "form")]
      /\ pages[p].phase = "resolved"
      /\ UNCHANGED <<unborn, drafts, emailed, now>>
  BY DEF ShowApplication
<1>6. /\ row.expires = links[t].expires
      /\ links[t].consumed # None => row.consumed # None
      /\ n \in Nat /\ n >= submissions[t]
      /\ n > 0 <=> row.consumed # None
      /\ "form" \in Answers
  BY <1>1, <1>2 DEF Answers
<1> HIDE DEF row, n
<1> QED
  BY <1>1, <1>2, <1>3, <1>4, <1>5, <1>6, WriteStep

LEMMA SubmitApplicationStep ==
  ASSUME IInv, NEW p \in Handlers, SubmitApplication(p) PROVE IInv'
<1> DEFINE t == pages[p].token
           row == [links[t] EXCEPT !.consumed = now]
           n == submissions[t] + 1
<1>1. /\ t \in Links /\ links[t] \in LinkRows /\ submissions[t] \in Nat
      /\ now \in Nat /\ now # None
  BY ResolvedPage DEF SubmitApplication
<1>2. /\ row \in LinkRows /\ row.expires = links[t].expires /\ row.consumed # None
  BY <1>1 DEF LinkRows, Times
<1>3. n \in Nat /\ n > 0 /\ n >= submissions[t]
  BY <1>1
<1>4. /\ links' = [links EXCEPT ![t] = row]
      /\ submissions' = [submissions EXCEPT ![t] = n]
      /\ pages' = [pages EXCEPT ![p] = Answered(pages[p], "submitted")]
  BY DEF SubmitApplication
<1> HIDE DEF row, n
<1> QED
  BY <1>1, <1>2, <1>3, <1>4, WriteStep DEF SubmitApplication, Answers

LEMMA TickStep ==
  ASSUME IInv, Tick PROVE IInv'
<1>1. now \in Nat /\ now' = now + 1
  BY DEF Tick, IInv, TypeOK
<1>2. TypeOK' /\ OneBirth' /\ ReadIsThere' /\ SpentWhenSubmitted' /\ ThanksForRecorded'
  BY <1>1 DEF Tick, IInv, TypeOK, OneBirth, ReadIsThere, SpentWhenSubmitted,
              ThanksForRecorded
<1>3. RefusedStaysDead'
  <2>1. ASSUME NEW p \in Handlers, pages[p].answer = "unavailable", pages[p].read # None
        PROVE  links[pages[p].token].expires \in Nat
    BY <2>1 DEF IInv, TypeOK, ReadIsThere, LinkRows
  <2> QED
    BY <1>1, <2>1 DEF Tick, IInv, RefusedStaysDead
<1> QED
  BY <1>2, <1>3 DEF IInv
-----------------------------------------------------------------------------
LEMMA NextIInv == IInv /\ [Next]_vars => IInv'
<1> SUFFICES ASSUME IInv, [Next]_vars PROVE IInv'
  OBVIOUS
<1>1. ASSUME NEW l \in Links, IssueLink(l) \/ EmailLink(l) \/ CommitLink(l) \/ LoseLink(l)
      PROVE  IInv'
  BY <1>1, IssueLinkStep, EmailLinkStep, CommitLinkStep, LoseLinkStep
<1>2. CASE Visit
  <2>1. ASSUME NEW p \in Handlers, NEW token \in emailed \cup {Unknown},
               NEW valid \in BOOLEAN, NEW kind \in Kinds, Request(p, kind, token, valid)
        PROVE  IInv'
    BY <2>1, RequestStep DEF IInv, TypeOK
  <2>2. ASSUME NEW p \in Handlers,
               ShowApplication(p) \/ SubmitApplication(p) \/ Abort(p) \/ Return(p)
        PROVE  IInv'
    BY <2>2, ShowApplicationStep, SubmitApplicationStep, IdleAgainStep
  <2> QED
    BY <1>2, <2>1, <2>2, TickStep DEF Visit
<1>3. CASE UNCHANGED vars
  BY <1>3 DEF vars, IInv, TypeOK, OneBirth, ReadIsThere, SpentWhenSubmitted,
              RefusedStaysDead, ThanksForRecorded
<1> QED
  BY <1>1, <1>2, <1>3 DEF Next

\* IInv holds in every reachable state.
THEOREM Invariance == Spec => []IInv
<1> QED
  BY InitIInv, NextIInv, PTL DEF Spec

\* The rows, drafts and page requests keep their types.
THEOREM TypeCorrect == Spec => []TypeOK
<1>1. IInv => TypeOK
  BY DEF IInv
<1> QED
  BY <1>1, Invariance, PTL

\* A link is spent exactly when a submission was recorded, however many page
\* requests overlap and wherever they are cut off (application.py:173-188).
THEOREM SpentIsSubmitted == Spec => []SpentWhenSubmitted
<1>1. IInv => SpentWhenSubmitted
  BY DEF IInv
<1> QED
  BY <1>1, Invariance, PTL

\* No commit brings a link back that turned an applicant away (links.py:95-132).
THEOREM DeadForGood == Spec => []RefusedStaysDead
<1>1. IInv => RefusedStaysDead
  BY DEF IInv
<1> QED
  BY <1>1, Invariance, PTL

\* Nobody is thanked for an application that is not on file (application.py:185-197).
THEOREM ThanksAreTrue == Spec => []ThanksForRecorded
<1>1. IInv => ThanksForRecorded
  BY DEF IInv
<1> QED
  BY <1>1, Invariance, PTL
-----------------------------------------------------------------------------
(* The send *)

\* The longest post, and twice the pauses before attempt n.
LongestPost == SlowWaits * Timeout
TwicePauses(n) == n * (n + 1)

\* No send takes longer than its attempts and the pauses between them.
WorstCase ==
  2 * elapsed <= 2 * ((MaxRetries + 1) * LongestPost) + TwicePauses(MaxRetries)

\* Only failures worth retrying let the loop go on.
Retried ==
  \A i \in 1..Len(answers) :
    i < Len(answers) \/ sending = "posting" => WorthRetrying(answers[i])

\* While posts are left, the messages taken are of posts that are over, or of this one.
Going ==
  sending = "posting" =>
    /\ Len(answers) <= MaxRetries
    /\ taken => accepted \in 1..(Len(answers) + 1)
    /\ ~taken => accepted <= Len(answers)
    /\ 2 * elapsed <= 2 * (Len(answers) * LongestPost) + 2 * (slow * Timeout)
                        + TwicePauses(Len(answers))

\* The last answer tells the result.
Over ==
  sending \in Results =>
    /\ Len(answers) \in 1..(MaxRetries + 1)
    /\ accepted <= Len(answers)
    /\ sending = "sent" => accepted > 0
    /\ sending = "failed" =>
         answers[Len(answers)] = "refused" \/ Len(answers) = MaxRetries + 1

SendInv == /\ SendTypeOK
           /\ sending = "idle" => answers = <<>> /\ accepted = 0 /\ elapsed = 0 /\ ~taken
           /\ Retried
           /\ Going
           /\ Over
           /\ WorstCase

USE DEF TwicePauses
-----------------------------------------------------------------------------
(* Arithmetic *)

LEMMA LongestPostNat == LongestPost \in Nat /\ Timeout \in Nat /\ SlowWaits \in Nat
BY DeliveryAssumption DEF LongestPost

\* Slow waits within their bound fit into the longest post.
LEMMA WaitsFit ==
  ASSUME NEW s \in 0..SlowWaits PROVE s * Timeout <= LongestPost /\ s * Timeout \in Nat
<1>1. PICK r \in Nat : SlowWaits = s + r
  <2>1. SlowWaits - s \in Nat /\ SlowWaits = s + (SlowWaits - s)
    BY DeliveryAssumption
  <2> QED
    BY <2>1
<1>2. (s + r) * Timeout = s * Timeout + r * Timeout
  BY DeliveryAssumption, SMTT(30)
<1>3. r * Timeout \in Nat /\ s * Timeout \in Nat
  BY DeliveryAssumption, SMTT(30)
<1> QED
  BY <1>1, <1>2, <1>3 DEF LongestPost

\* A bound on n attempts is a bound on more.
LEMMA MoreAttempts ==
  ASSUME NEW n \in Nat, NEW m \in Nat, n <= m, NEW c \in Nat
  PROVE  n * c <= m * c /\ TwicePauses(n) <= TwicePauses(m)
<1>1. PICK r \in Nat : m = n + r
  <2>1. m - n \in Nat /\ m = n + (m - n)
    OBVIOUS
  <2> QED
    BY <2>1
<1>2. (n + r) * c = n * c + r * c /\ r * c \in Nat /\ n * c \in Nat
  BY SMTT(30)
<1>3. /\ (n + r) * (n + r + 1) = n * (n + 1) + (n * r + r * n + r * r + r)
      /\ n * r \in Nat /\ r * n \in Nat /\ r * r \in Nat /\ n * (n + 1) \in Nat
  BY SMTT(30)
<1> QED
  BY <1>1, <1>2, <1>3
-----------------------------------------------------------------------------
LEMMA InitSendInv == SendIdle => SendInv
<1> SUFFICES ASSUME SendIdle PROVE SendInv
  OBVIOUS
<1>1. (MaxRetries + 1) * LongestPost \in Nat /\ MaxRetries * (MaxRetries + 1) \in Nat
  BY LongestPostNat, DeliveryAssumption, SMTT(30)
<1>2. WorstCase
  BY <1>1 DEF SendIdle, WorstCase
<1>3. SendTypeOK
  <2>1. taken \in BOOLEAN
    BY DEF SendIdle
  <2>2. slow \in 0..SlowWaits
    BY DeliveryAssumption DEF SendIdle
  <2> QED
    BY <2>1, <2>2 DEF SendIdle, SendTypeOK
<1> QED
  BY <1>2, <1>3 DEF SendIdle, SendInv, Retried, Going, Over, Results

LEMMA ForgetSendStep == ForgetSend => SendInv'
<1> SUFFICES ASSUME ForgetSend PROVE SendInv'
  OBVIOUS
<1>1. (MaxRetries + 1) * LongestPost \in Nat /\ MaxRetries * (MaxRetries + 1) \in Nat
  BY LongestPostNat, DeliveryAssumption, SMTT(30)
<1>2. WorstCase'
  BY <1>1 DEF ForgetSend, WorstCase
<1>3. SendTypeOK'
  <2>1. taken' \in BOOLEAN
    BY DEF ForgetSend
  <2>2. slow' \in 0..SlowWaits
    BY DeliveryAssumption DEF ForgetSend
  <2> QED
    BY <2>1, <2>2 DEF ForgetSend, SendTypeOK
<1> QED
  BY <1>2, <1>3 DEF ForgetSend, SendInv, Retried, Going, Over, Results

LEMMA StartSendStep == SendInv /\ StartSend => SendInv'
<1> SUFFICES ASSUME SendInv, StartSend PROVE SendInv'
  OBVIOUS
<1>1. 0 * LongestPost = 0 /\ slow * Timeout \in Nat
  BY LongestPostNat, WaitsFit DEF SendInv, SendTypeOK
<1>2. /\ answers' = <<>> /\ accepted' = 0 /\ elapsed' = 0 /\ slow' = slow
      /\ Len(answers') = 0
  BY DEF StartSend, SendInv
<1>3. ~taken'
  <2>1. ~taken
    BY DEF StartSend, SendInv
  <2>2. taken' = taken
    BY DEF StartSend
  <2> QED
    BY <2>1, <2>2
<1>4. Going'
  BY <1>1, <1>2, <1>3, DeliveryAssumption DEF Going
<1> QED
  BY <1>4 DEF StartSend, SendInv, SendTypeOK, Retried, Over, WorstCase, Results

\* A post under way stays within the worst case.
LEMMA GoingBound ==
  ASSUME NEW n \in Nat, n <= MaxRetries, NEW w \in 0..SlowWaits, NEW e \in Nat,
         2 * e <= 2 * (n * LongestPost) + 2 * (w * Timeout) + TwicePauses(n)
  PROVE  2 * e <= 2 * ((MaxRetries + 1) * LongestPost) + TwicePauses(MaxRetries)
<1>1. MaxRetries \in Nat /\ LongestPost \in Nat
  BY LongestPostNat, DeliveryAssumption
<1>2. n * LongestPost <= MaxRetries * LongestPost /\ TwicePauses(n) <= TwicePauses(MaxRetries)
  BY <1>1, MoreAttempts
<1>3. w * Timeout <= LongestPost /\ w * Timeout \in Nat
  BY WaitsFit
<1>4. (MaxRetries + 1) * LongestPost = MaxRetries * LongestPost + LongestPost
  BY <1>1, SMTT(30)
<1>5. /\ MaxRetries * LongestPost \in Nat /\ n * LongestPost \in Nat
      /\ n * (n + 1) \in Nat /\ MaxRetries * (MaxRetries + 1) \in Nat
  BY <1>1, SMTT(30)
<1> QED
  BY <1>1, <1>2, <1>3, <1>4, <1>5

LEMMA WaitStep ==
  ASSUME SendInv, NEW d \in Durations, Wait(d) PROVE SendInv'
<1>1. SendTypeOK'
  BY DeliveryAssumption DEF Wait, SendInv, SendTypeOK
<1>2. Going'
  <2>1. (slow + 1) * Timeout = slow * Timeout + Timeout /\ slow * Timeout \in Nat
    BY LongestPostNat, SMTT(30) DEF SendInv, SendTypeOK
  <2>2. d \in Nat /\ d <= Timeout /\ slow' = slow + 1 /\ elapsed' = elapsed + d
    BY DeliveryAssumption DEF Wait
  <2>3. Len(answers) * LongestPost \in Nat /\ Len(answers) * (Len(answers) + 1) \in Nat
    BY LongestPostNat, SMTT(30) DEF SendInv, SendTypeOK
  <2> QED
    BY <2>1, <2>2, <2>3, LongestPostNat DEF Wait, SendInv, SendTypeOK, Going
<1>3. WorstCase'
  <2>1. /\ sending' = "posting" /\ Len(answers') \in Nat /\ Len(answers') <= MaxRetries
        /\ slow' \in 0..SlowWaits /\ elapsed' \in Nat
    BY <1>1, <1>2 DEF Wait, SendTypeOK, Going
  <2>2. 2 * elapsed' <= 2 * (Len(answers') * LongestPost) + 2 * (slow' * Timeout)
                          + TwicePauses(Len(answers'))
    BY <1>2, <2>1 DEF Going
  <2> QED
    BY <2>1, <2>2, GoingBound DEF WorstCase
<1> QED
  BY <1>1, <1>2, <1>3 DEF Wait, SendInv, Retried, Over, Results

LEMMA AcceptStep == SendInv /\ Accept => SendInv'
<1> SUFFICES ASSUME SendInv, Accept PROVE SendInv'
  OBVIOUS
<1>1. SendTypeOK' /\ Retried' /\ WorstCase'
  BY DEF Accept, SendInv, SendTypeOK, Retried, WorstCase
<1>2. Going'
  BY DEF Accept, SendInv, SendTypeOK, Going
<1> QED
  BY <1>1, <1>2 DEF Accept, SendInv, Over, Results

LEMMA EndPostStep ==
  ASSUME SendInv, NEW ending \in Endings, EndPost(ending) PROVE SendInv'
<1> DEFINE n == Len(answers)
           again == WorthRetrying(ending) /\ AttemptsLeft
<1>0. sending = "posting"
  BY DEF EndPost
<1>1. /\ n \in Nat /\ MaxRetries \in Nat /\ n <= MaxRetries
      /\ answers \in Seq(Endings) /\ sending = "posting"
      /\ accepted \in Nat /\ elapsed \in Nat /\ slow \in 0..SlowWaits
      /\ accepted <= n + 1
  BY DeliveryAssumption, <1>0 DEF SendInv, SendTypeOK, Going
<1>2. /\ answers' = Append(answers, ending)
      /\ Len(answers') = n + 1
      /\ answers'[n + 1] = ending
      /\ \A i \in 1..n : answers'[i] = answers[i]
      /\ answers' \in Seq(Endings)
  BY <1>1 DEF EndPost
<1>3. /\ again => sending' = "posting" /\ elapsed' = elapsed + n + 1
      /\ ~again => sending' = Result(ending) /\ elapsed' = elapsed
      /\ accepted' = accepted /\ taken' = FALSE /\ slow' = 0
  BY <1>1 DEF EndPost
<1>4. Result(ending) \in Results
  BY DEF Result, Results
<1>5. SendTypeOK'
  <2>1. taken' \in BOOLEAN
    BY <1>3
  <2>2. slow' \in 0..SlowWaits
    BY <1>3, DeliveryAssumption
  <2>3. elapsed' \in Nat
    BY <1>1, <1>3
  <2>4. sending' \in {"posting"} \cup Results
    BY <1>3, <1>4
  <2> QED
    BY <1>1, <1>2, <1>3, <2>1, <2>2, <2>3, <2>4 DEF SendTypeOK
<1>6. Retried'
  <2>1. \A i \in 1..n : WorthRetrying(answers'[i])
    BY <1>1, <1>2 DEF SendInv, Retried
  <2>2. sending' = "posting" => again
    BY <1>3, <1>4 DEF Results
  <2> QED
    BY <1>1, <1>2, <2>1, <2>2 DEF Retried
<1>7. Going'
  <2> SUFFICES ASSUME sending' = "posting" PROVE Going'
    BY DEF Going
  <2>1. again
    BY <1>3, <1>4 DEF Results
  <2>2. n + 1 <= MaxRetries
    BY <1>1, <2>1 DEF AttemptsLeft
  <2>3. 2 * elapsed <= 2 * (n * LongestPost) + 2 * (slow * Timeout) + n * (n + 1)
    BY <1>1 DEF SendInv, Going
  <2>4. slow * Timeout <= LongestPost /\ slow * Timeout \in Nat
    BY <1>1, WaitsFit
  <2>5. /\ (n + 1) * LongestPost = n * LongestPost + LongestPost
        /\ (n + 1) * (n + 2) = n * (n + 1) + 2 * n + 2
        /\ n * LongestPost \in Nat /\ n * (n + 1) \in Nat /\ 0 * Timeout = 0
    BY <1>1, LongestPostNat, SMTT(30)
  <2>6. 2 * (elapsed + n + 1) <= 2 * ((n + 1) * LongestPost) + (n + 1) * (n + 2)
    <3> HIDE DEF n
    <3> QED
      BY <1>1, <2>3, <2>4, <2>5, LongestPostNat
  <2>7. Len(answers') = n + 1 /\ elapsed' = elapsed + n + 1 /\ n + 1 + 1 = n + 2
    BY <1>1, <1>2, <1>3, <2>1
  <2>8. accepted' = accepted /\ slow' = 0
    BY <1>3
  <2>9. ~taken'
    BY <1>3
  <2>10. 2 * elapsed' <= 2 * (Len(answers') * LongestPost) + 2 * (slow' * Timeout)
                           + TwicePauses(Len(answers'))
    <3>1. TwicePauses(Len(answers')) = (n + 1) * (n + 2)
      BY <2>7
    <3>2. Len(answers') * LongestPost = (n + 1) * LongestPost
      BY <2>7
    <3>3. slow' * Timeout = 0
      BY <2>5, <2>8
    <3>4. (n + 1) * LongestPost \in Nat /\ (n + 1) * (n + 2) \in Nat
      BY <1>1, LongestPostNat, SMTT(30)
    <3> HIDE DEF n
    <3> QED
      BY <1>1, <2>6, <2>7, <3>1, <3>2, <3>3, <3>4
  <2>11. accepted' <= Len(answers')
    BY <1>1, <2>7, <2>8
  <2> HIDE DEF n, again
  <2> QED
    BY <2>2, <2>7, <2>11, <2>9, <2>10 DEF Going
<1>8. Over'
  <2> SUFFICES ASSUME sending' \in Results PROVE Over'
    BY DEF Over
  <2>1. ~again /\ sending' = Result(ending)
    BY <1>3 DEF Results
  <2>2. sending' = "sent" => taken
    BY <1>3, <2>1 DEF Result, EndPost, CanEnd, Endings
  <2>3. sending' = "failed" => ending = "refused" \/ n + 1 = MaxRetries + 1
    BY <1>1, <2>1 DEF Result, WorthRetrying, AttemptsLeft, Endings
  <2>4. /\ taken => accepted \in 1..(n + 1)
        /\ ~taken => accepted <= n
    BY <1>1 DEF SendInv, Going
  <2> HIDE DEF n, again
  <2> QED
    BY <1>1, <1>2, <1>3, <2>2, <2>3, <2>4 DEF Over
<1>9. WorstCase'
  <2>1. CASE again
    <3>1. /\ sending' = "posting" /\ Len(answers') \in Nat /\ Len(answers') <= MaxRetries
          /\ slow' \in 0..SlowWaits /\ elapsed' \in Nat
      BY <1>3, <1>5, <1>7, <2>1 DEF SendTypeOK, Going
    <3>2. 2 * elapsed' <= 2 * (Len(answers') * LongestPost) + 2 * (slow' * Timeout)
                            + TwicePauses(Len(answers'))
      BY <1>7, <3>1 DEF Going
    <3> QED
      BY <3>1, <3>2, GoingBound DEF WorstCase
  <2>2. CASE ~again
    BY <1>3, <2>2 DEF SendInv, WorstCase
  <2> QED
    BY <2>1, <2>2
<1>10. sending' # "idle"
  BY <1>3, <1>4 DEF Results
<1> QED
  BY <1>5, <1>6, <1>7, <1>8, <1>9, <1>10 DEF SendInv

LEMMA NextSendInv == SendInv /\ [SendNext]_sendVars => SendInv'
<1> SUFFICES ASSUME SendInv, [SendNext]_sendVars PROVE SendInv'
  OBVIOUS
<1>1. CASE UNCHANGED sendVars
  BY <1>1 DEF sendVars, SendInv, SendTypeOK, Retried, Going, Over, WorstCase
<1> QED
  BY <1>1, StartSendStep, WaitStep, EndPostStep, AcceptStep, ForgetSendStep
     DEF SendNext, SendStep
-----------------------------------------------------------------------------
(* What a send promises *)

\* SendInv holds in every reachable state.
THEOREM SendInvariance == SendSpec => []SendInv
<1> QED
  BY InitSendInv, NextSendInv, PTL DEF SendSpec

\* The send keeps its types.
THEOREM SendTypeCorrect == SendSpec => []SendTypeOK
<1>1. SendInv => SendTypeOK
  BY DEF SendInv
<1> QED
  BY <1>1, SendInvariance, PTL

\* Sent is said only of a message the provider has, failed only after a refusal or
\* the last attempt, whatever the retries and the time limits (sms.py:110-162,
\* email.py:123-190).
THEOREM VerdictHolds == SendSpec => []VerdictJustified
<1>1. SendInv => VerdictJustified
  <2> SUFFICES ASSUME SendInv PROVE VerdictJustified
    OBVIOUS
  <2>1. sending \in {"idle", "posting"} \cup Results /\ answers \in Seq(Endings)
        /\ MaxRetries \in Nat /\ accepted \in Nat
    BY DeliveryAssumption DEF SendInv, SendTypeOK
  <2>2. Len(answers) <= MaxRetries + 1 /\ accepted <= Len(answers) + 1
    <3>1. CASE sending = "idle"
      BY <2>1, <3>1 DEF SendInv
    <3>2. CASE sending = "posting"
      BY <2>1, <3>2 DEF SendInv, Going
    <3>3. CASE sending \in Results
      BY <2>1, <3>3 DEF SendInv, Over
    <3> QED
      BY <2>1, <3>1, <3>2, <3>3
  <2> QED
    BY <2>1, <2>2 DEF SendInv, Retried, Over, Results, VerdictJustified, WorthRetrying
<1> QED
  BY <1>1, SendInvariance, PTL

\* No send takes longer than its posts, each as long as its slow waits may be, and
\* the pauses between them; with one slow wait, one retry and three seconds that is
\* the documentation's figure (config.py:46-49, email.py:60-63).
THEOREM WorstCaseHolds == SendSpec => []WorstCase
<1>1. SendInv => WorstCase
  BY DEF SendInv
<1> QED
  BY <1>1, SendInvariance, PTL

\* So a send keeps within the time allowed, when that is at least the worst case.
THEOREM BudgetHolds ==
  ASSUME 2 * ((MaxRetries + 1) * LongestPost) + TwicePauses(MaxRetries) <= 2 * Budget
  PROVE  SendSpec => []SendWithinBudget
<1>1. SendInv => SendWithinBudget
  <2> SUFFICES ASSUME SendInv PROVE SendWithinBudget
    OBVIOUS
  <2>1. (MaxRetries + 1) * LongestPost \in Nat /\ MaxRetries * (MaxRetries + 1) \in Nat
    BY LongestPostNat, DeliveryAssumption, SMTT(30)
  <2> QED
    BY <2>1, DeliveryAssumption DEF SendInv, SendTypeOK, WorstCase, SendWithinBudget
<1> QED
  BY <1>1, SendInvariance, PTL
-----------------------------------------------------------------------------
(* The journey *)

\* A step of the journey is a step of the links, and one of the send.
LEMMA JourneyStep ==
  ASSUME [JourneyNext]_journeyVars PROVE [Next]_vars /\ [SendNext]_sendVars
<1>1. CASE UNCHANGED journeyVars
  BY <1>1 DEF journeyVars
<1>2. ASSUME NEW l \in Links, Capture(l) \/ HandOver(l) \/ Finish(l) \/ GiveUp(l)
      PROVE  Next /\ SendNext
  BY <1>2 DEF Capture, HandOver, Finish, GiveUp, Next, SendNext
<1>3. CASE SendStep /\ UNCHANGED vars
  BY <1>3 DEF SendNext
<1>4. CASE Visit /\ UNCHANGED sendVars
  BY <1>4 DEF Next
<1> QED
  BY <1>1, <1>2, <1>3, <1>4 DEF JourneyNext

\* The way of a link from capture_lead to the applicant is a behaviour of the links
\* and one of the send, so that both keep what they promise (tools.py:410-502).
THEOREM JourneyRefines == JourneySpec => Spec /\ SendSpec
<1>1. JourneyInit => Init /\ SendIdle
  BY DEF JourneyInit
<1>2. [JourneyNext]_journeyVars => [Next]_vars /\ [SendNext]_sendVars
  BY JourneyStep
<1> QED
  BY <1>1, <1>2, PTL DEF JourneySpec, Spec, SendSpec

\* A link emailed before it is committed, or never committed, is spent exactly when a
\* submission was recorded; a dead one stays dead, and nobody is thanked for nothing
\* (tools.py:447-502, application.py:173-197).
THEOREM JourneyKeepsLinks ==
  JourneySpec => [](SpentWhenSubmitted /\ RefusedStaysDead /\ ThanksForRecorded)
<1> QED
  BY JourneyRefines, SpentIsSubmitted, DeadForGood, ThanksAreTrue, PTL

\* However the pages behave meanwhile, what the sender reports is justified
\* (email.py:123-190).
THEOREM JourneyKeepsVerdict == JourneySpec => []VerdictJustified
<1> QED
  BY JourneyRefines, VerdictHolds, PTL
=============================================================================
