# Verification of the voice onboarding service

A voice agent takes a caller through identity check, passcode, credit decision
and consent by calling the HTTP tools of this service. A language model chooses
the calls, a telephony platform retries them, and each call runs on a thread and
in a database transaction of its own. The service, not the prompt, is to keep
the order of the steps, the limits and the record. These TLA+ modules say what
that means, check that the code does it, prove most of it for every size of the
system, and show the cases where the code does something else than it says.

## Inventory

| Part | State it keeps | Operations | Modelled in |
| --- | --- | --- | --- |
| Session state machine (`app/models.py`, `services/sessions.py`) | one row per call: state, customer, two counters | `require_state`, `require_live`, `transition`, `find_replayed_call`, `record_tool_call` | `SessionStates`, `ToolService`, `CallLifecycle` |
| Tool endpoints (`routers/tools.py`) | none of their own: a transaction per request | `start_session` and the seven tools, `_finalize` | `ToolService` |
| Passcodes (`services/otp.py`) | `otp_challenges` | `issue_challenge`, `active_challenge`, `verify_challenge` | `ToolService` |
| Identity check (`services/kyc.py`) | `customers`, read only | `verify_identity` | `ToolService`: the order of the checks |
| Leads, hand-off (`services/leads.py`, `handoff.py`) | `leads`, `consent_records`, `escalations` | one insert each | `ToolService`: counted |
| Application links (`services/links.py`, `routers/application.py`) | `application_links`, `application_submissions` | issue, resolve, `mark_opened`, `consume`, the two pages | `ApplicationLinks`, `LinkJourney` |
| Delivery (`services/sms.py`, `email.py`) | a send in progress | the retry loop both providers share | `Delivery`, `LinkJourney` |
| Credit policy (`services/eligibility.py`) | none | `assess` and its parts | `CreditPolicy` |
| Audit endpoint (`routers/admin.py`) | a record being read | the seven statements of `get_session_audit` | `AuditTrail` |
| Evaluation (`evals/run_evals.py`) | the replies it heard | the cross-checks of a record | `AuditTrail`, in part |
| Seed data (`app/seed.py`) | rows read and staged | `seed` | `SeedCustomers` |
| Transactions (`app/db.py`, SQLAlchemy, PostgreSQL) | open transactions, row locks | load, flush, commit, rollback | all of them |
| Schemas, errors, configuration, security | none | validation, error envelopes, limits | refusals and limits only |
| Templates, migrations, prompt | | | not modelled, see the end |

How they interact: the platform calls a tool; the handler loads the session,
looks for a stored answer to a retry, guards the state, calls a service that
reads and stages rows, may flush them and send a message while it holds row
locks, and at the end `_finalize` writes the audit row and commits everything.
`capture_lead` emails a link with which the applicant later opens and submits
the web form. Operators read the record of a call while it goes on. Nothing else
is shared but the tables.

What is hard:

- a handler decides on a row that may have changed when it commits, and SQLAlchemy
  writes back absolute values of the columns it changed;
- two retries of one request race past the replay check;
- messages leave before the commit that makes them true;
- counters (attempts, guesses, resends, codes per window) are checked and
  incremented in different steps, some per session, some per customer;
- a process may stop, a provider may fail or answer too late, at any point;
- rows are locked one UPDATE after the other and stay locked while a provider is
  called, so that two requests may come to wait for each other;
- a record is read in seven statements between which calls commit;
- money is rounded three times, and compared in binary floating point.

What makes each part correct is stated at the properties, below; PROJECT.json
lists the hazards line by line.

## Modules

`SessionStates` holds `SessionState`, `ALLOWED_TRANSITIONS`, `TERMINAL_STATES`,
the states each tool accepts and the guards.

`ToolService` is the core. Its variables are the committed tables (`sessions`,
`challenges`, `toolCalls`, and `artefacts`, which counts the rows a session owns
in the five tables that are only ever inserted into), the id sequence `lastId`,
`sent` (what was handed to a provider), `now`, and `calls`: for each handler
thread the request it serves and its open transaction. A request goes through the
phases of its handler:

| Phase entered | Action | Code |
| --- | --- | --- |
| answered | `ReplayCall`, `RefuseCall` | stored answer; `ToolError` of a guard |
| loaded | `LoadCall` | `load_session`, replay check, state guard, attempt limit |
| ready or staged | one action per handler and outcome: `VerifyIdentityMatched`, `...Unknown`, `...Failed`, `VerifyOtpUnchecked`, `VerifyOtpChecked`, `ResendOtp`, `CaptureLead`, `CheckEligibility`, `RecordConsent`, `Escalate` | the body of the handler up to the flush or the response |
| staged or ready, as before | `WriteSession` | the first UPDATE of a flush that has two: the session row is locked, the passcode row is not yet |
| sending | `FlushChallenge`, `FlushLink` | the flush in `issue_challenge` and `issue_link`, to its end |
| ready | `PasscodeDelivered`, `PasscodeUndelivered`, `LinkEmailed` | the provider returned |
| answered | `RecordCall`, `SuppressDuplicate` | `_finalize`: the rest of its flush and the commit, or the rollback on a duplicate key |
| idle | `Return`, `Abort`, `BreakDeadlock` | the reply; an exception or restart, rolled back; the failure of one of two requests that wait for each other |

A record of `calls` keeps the row as loaded and as modified. `RecordCall` writes
only the columns that differ, with the values computed from the row as loaded:
that is how SQLAlchemy builds its UPDATE, and the source of the lost updates.
An UPDATE locks its row until the transaction ends (`HoldsSession`,
`HoldsChallenge`), so a handler that is sending a message makes others wait. A
flush is not one step: SQLAlchemy sends the UPDATE of `onboarding_sessions` before
that of `otp_challenges`, in `issue_challenge` (`otp.py:152`) as in the savepoint of
`record_tool_call` (`sessions.py:171`), and waits at each. `WriteSession` is the first
of two; the last UPDATE of a flush is executed by the action that follows, which is
enabled when nobody holds its row (`WaitsFor`, `CanWrite`). A `verify_otp` with the
right code has two UPDATEs, and a `resend_otp` has the passcode row when it sends and
needs the session row at its end: the two may wait for each other (`Deadlocked`),
and PostgreSQL fails one (`BreakDeadlock`).
This is PostgreSQL at its default isolation level, READ COMMITTED.
SQLite, the default for local work, has one writer for the whole database: it
allows fewer interleavings, and everything proved or checked for all
interleavings covers it. There is no autoflush (`db.py:57`), so queries see
committed rows only, and `resend_otp` has not written its session row when it
sends.

A passcode is identified with its challenge: code `i` is the one challenge `i`
carries, 0 is a wrong code. Two random codes that happen to be equal are left out.
`guesses` and `proved` in a challenge are history: what committed calls compared
with it, and whether one matched. They are not read by any action.

The constant `Overlap` states which requests the platform lets overlap:

| `Overlap` | Requests in flight at the same time |
| --- | --- |
| "never" | one |
| "one_issuer" | one per session, and one in all that issues passcodes |
| "other_sessions" | one per session |
| "retries" | on one session only a keyed request and its own retries |
| "always" | any |

It is a parameter because the guarantees differ, and the documentation does not
promise the platform waits. The first four are also what the proofs split on.

`CallLifecycle` is the abstract specification of a call: a stage, the evidence
collected, and nine steps, each of which reaches a stage from one other stage
only and with the evidence that justifies it. `ToolServiceClaims` maps the tables
to it (`RefinesLifecycle`).

`ApplicationLinks` models the two web pages and the life of a link: `IssueLink`
flushes it with its lifetime running, `EmailLink` puts the token out before
`CommitLink` makes it exist, `LoseLink` rolls it back. `Request` resolves the
token and validates the form; `ShowApplication` and `SubmitApplication` write and
commit later.

`Delivery` is the loop of `Msg91SmsSender.send_passcode` and
`ResendEmailSender._post`. A post is a sequence of waits, each with a timeout of
its own, as httpx has it; the provider may take the message in at any moment of
it (`Accept`), whether or not its answer arrives; and a post ends in a success, a
5xx, another answer, a timeout, or an exception the loop does not catch. Between
attempts it pauses. Time is counted in quarters of a second.

`LinkJourney` composes the two along `capture_lead`: a link is issued when a send
starts, is out when the provider accepts, is committed when the sender returns,
and is lost when the call is; page requests come in meanwhile.

`CreditPolicy` is `assess` as an operator, `Outcome`, with one operator per rule,
in a small machine that receives a request and stores the outcome. Shares are
counted in twentieths and rates in tenths of a percent, so that the arithmetic is
exact. Two things are not: the instalment per rupee is a constant, `Factor`, a
fraction for each rate and tenure, of which only two facts about amortising
instalments are assumed (`FactorAssumption`: it grows with the rate, and within
the 120 months the schemas accept a thousand rupees cost more than half a rupee a
month); and 0.55 and 0.35 have no exact
binary form, so a product that should be a whole number of rupees comes out a
hair off. `Slip` says when and in which direction, and it decides exact ties.

`AuditTrail` extends `ToolService` with a reader: `get_session_audit` sends seven
statements (`Statements`, the lazy `session.tool_calls` last), each of which sees
what is committed when it runs. `heard` keeps the replies of the calls made, from
which the evaluation predicts the trail (`ExpectedTools`).

`SeedCustomers` models runs of `seed` that read row after row, stage inserts and
backfills, and commit once at the end, while operators edit rows, other runs
insert the same customers, and processes die.

`MCToolService`, `MCAuditTrail`, `MCLinkJourney` and `MCRules` give the constants
their values; `MCRules` puts the two parts that share nothing with a call, policy
and seeding, side by side. An operator whose comment begins with "Mutant" is a
plausible bug of the definition that follows it; PROJECT.json pairs it with the
property that must notice it. No specification uses one.

The proofs are in `ToolServiceProofs` (types, second factor), on top of it
`ToolServiceLedgerProofs` (artefacts, answers, hand-off, who waits for
whom, what is stored and its audit rows), `ToolServiceTurnProofs`
(what holds when only retries overlap), `ToolServiceRefinementProofs` and
`ToolServiceRateProofs`; in `AuditTrailProofs`, on top of those of the turns; and in
`LinkJourneyProofs` and `RulesProofs` (credit policy and seeding).

## Runs

| Run | Asks | Bounds |
| --- | --- | --- |
| `Serial` | one request at a time: `TypeOK`, `EndingBacked`, `ProspectsApart`, `AttemptBudget`, `ResendBudget`, `MovesAllowed`, `NewestCodeOnly`, `CodesExpire` | 1 session, 3 customers (one sanctioned, one unreachable), a hand-off that may reuse another tool's key, 5 calls, 3 codes, 2 ticks |
| `Retries` | every request keyed and retried: `AuditAgrees`, `ArtefactsAudited`, `OneLiveCode`, `AnswerDurable`, `GuessBudget`, `ClosedIsFrozen`, `RefinesLifecycle` | 2 handlers, 4 calls, 3 codes, guesses with and without a key, 2 per code |
| `Overlapping` | any two requests: `SecondFactor`, `EscalationAvailable` | 2 handlers, 4 calls, 2 codes |
| `Neighbours` | two calls of one customer, one of them issuing passcodes at a time: `VerifiedOwner`, `RateLimit` | 2 sessions, 2 handlers, 2 calls each, claims of a customer and of a sanctioned one, 3 codes, 2 ticks for a window of 1 and a limit of 2 |
| `Liveness` | `EveryCallEnds`, `EscalationLands` | 2 handlers on one session, 3 calls; a check and a resend that deadlock are among them |
| `Pages` | a link from `capture_lead` through the email to any three page requests: `TypeOK`, `SpentWhenSubmitted`, `RefusedStaysDead`, `ThanksForRecorded`, `SendTypeOK`, `VerdictJustified`, `SendWithinBudget` | 1 link with a lifetime of 1, 3 ticks, 1 retry, one slow wait of the full timeout per post |
| `Rules` | `TypeOK`, `BurdenWithinShare`, `OfferIsMaximal`, `CounterOfferBarelyAbove`, `BetterFileNeverHurts`, `OverstatingGainsNothing`, `DeclineOffersNothing`, `SeedingCompletes`, `EditsSurvive` | files and requests on both sides of every limit; 2 customers with 1 field, 2 runs of the script, from any table |
| `Audit` | `TrailCoversRecord`, `StateBackedInRecord`, `EvaluationAgrees` | 1 session, 5 calls or replies, any of the seven statements between any two steps |

Why these bounds: four calls are a whole successful conversation and five leave
room for a failure in it; every limit is 1 or 2, and a request that would pass it
comes within the calls allowed of the run that asks about it: the third identity
attempt, the second resend (both `Serial`, five calls), the third guess at one code
(`Retries`, four calls: one identity and three guesses) and the third code in a window
(`Neighbours`, where two sessions issue three); two codes are needed to retire one and three to reach the rate
limit and go on in the next window; two requests suffice for every race of a read
and a write, and three pages add a reader that sees both. One retry is what the
configuration has. `MaxRows`, `MaxIssues`, `MaxTime` and `MaxReplies` bound what
would grow for ever: calls per session, passcodes, the clock, and replies heard. A
request that would pass a bound does not arrive; no step of a request in progress
is cut off. The runs without ticks ask questions that do not depend on expiry,
which `Serial`, `Neighbours` and `Pages` reach on both sides.

What the properties mean for the code is said at each of them. Three deserve a
word. `CodesExpire` is an action property because a guess is compared when the
handler works and committed later: it speaks of the comparison. `RateLimit`
speaks of windows in any position, not only of those that end now, as the code
counts; and of the passcodes on record, which the code counts, not of all that were
sent (see Disagreements). `TrailCoversRecord` asks of a record read in pieces only what the order
of the statements can give: whatever it shows has its row in the trail, but the
trail may be newer than the rest.

Where the code and its documentation part, a run shows it:

| Run | Says the documentation | Shows |
| --- | --- | --- |
| `ClosedReopened` | terminal sessions reject all writes (`failure-modes.md:10`) | a handler that loaded the session before it closed still commits to it |
| `RateExceeded` | issuance is limited per customer (`otp.py:16-18`) | two sessions count the window before either commits |
| `SubmittedTwice` | the second submission finds the link spent (`failure-modes.md:109`) | two posts resolve it before either consumes it |
| `SendLate` | one retry at three seconds is a worst case of about 6.5 seconds (`config.py:47`) | a provider slow in two phases of a post never times out and takes twice as long |

The first three need overlapping requests. `ClosedIsFrozen` holds as soon as
nothing but a retry overlaps on a session, `RateLimit` as soon as passcodes are
issued one at a time; both are proved. How far the limit of `RateExceeded` can be
passed is proved as well: by one passcode on record for every handler but the first
(`OverrunHolds`). `SendWithinBudget` holds as long as a post
is slow in one phase only (`Pages`, `BudgetHolds`).

## Disagreements

Other places where the code is weaker than a comment or a diagram, found while
modelling and visible in the modules, for which no run is kept:

- An exhausted passcode is called not recoverable inside the call
  (`tools.py:352-353`), but `verify_otp` leaves the session in `identity_matched`,
  from where `resend_otp` starts again with new guesses. What bounds the guesses
  is the resend limit times the guesses per code (`ResendBudget`, `GuessBudget`).
- "Still cannot exceed it" (`tools.py:199-200`) is true of calls one at a time.
  Two overlapping identity failures write the same absolute count
  (`tools.py:261`), and one is lost.
- "Issuance is rate limited per customer" (`otp.py:16-18`) holds of the passcodes on
  record only, even with one request at a time. The code is sent before its row is
  committed, and a request that fails after the send (`Abort`), is suppressed as a
  duplicate, or meets a response it cannot decode takes the row back. The customer has
  a passcode that the window does not count (`sent` has ids that `challenges` has
  not), and nothing bounds how many of these he gets.
- A verification and a resend in flight on one session may deadlock. `verify_otp`
  updates the session row and then waits for the passcode row (`sessions.py:171`), which
  `resend_otp` has retired and holds while it sends (`otp.py:137-152`), to need the session
  row at its end (`otp.py:182`). PostgreSQL fails one of the two: a check that is not
  counted, or a passcode that was sent and is on no record. No document says
  otherwise, and `WaitingEnds` says that nothing worse can happen.
- Two different guesses in flight at one passcode write the same absolute count
  (`otp.py:208`), and one is lost: `GuessBudget` holds where a guess overlaps its own
  retries only.
- `NewestCodeOnly` falls under `Overlap = "always"`: a verification that read the
  challenge before a resend committed accepts the retired code (`otp.py:137`).
- Nothing ever moves a session to `blocked`, against the diagram at `README.md:60`;
  a sanctions hit leaves it in `started`.
- A key used with two tools makes `_finalize` roll back and return the success it
  computed (`tools.py:136-138`, `SuppressDuplicate`). `AnswersAreDurable` is
  therefore proved for keys that are not reused between tools.
- Of two overlapping first views of a link the later one leaves its time
  (`links.py:124`), and the lifetime of a link begins before its email is out
  and before it exists (`IssueLink`).
- An edit of a field that a run of the seed script had found unset is overwritten
  when that run commits, against "never overwriting a value someone might have
  edited" (`seed.py:137`). `EditsSurvive` is about every other edit.
- A request for a rupee or two is approved with an instalment that rounds to
  nothing; a counter-offer may be a few rupees more than was asked for
  (`CounterOfferBarelyAbove` says how few).
- The evaluation's check of the final state also looks at a replayed reply, which
  may be older than the state. `EvaluationAgrees` leaves replays out of it.

## Fairness

`FairSpec` asks three things. A handler's thread goes on running (weak fairness of
`Work`). Every send returns, and a lock asked for again and again is granted (strong
fairness of `Send` and `Finalize`: the HTTP timeouts are finite, and PostgreSQL queues
waiters on a row). And two transactions that wait for each other do not wait for ever
(weak fairness of `BreakDeadlock`): PostgreSQL looks for such a circle after
`deadlock_timeout` and fails one of them. Nothing obliges the platform to call again,
the clock to advance, or anything else to fail.

The run has two handlers on one session, so each can be made to wait for the row the
other locked while it sends, and the deadlock of `verify_otp` and `resend_otp` is among
its behaviours: without the detector `EveryCallEnds` is false. What is needed beyond
the detector is checked: that a request that ended in whatever way has left its locks
behind (`Abort`; an abort that keeps them is the mutant), and that those two are the only
ones to be broken (`WaitingEnds`). The other specifications state no fairness: their
properties are about safety.

## Proofs

Every theorem is for any number of sessions, customers, handlers, links and
retries, and any limits. The only assumptions not named below are those of the
modules: the constants have their types and `None` is not a value.

### Any overlap of requests

`TypeCorrect` and `SecondFactorHolds` (`ToolServiceProofs`): no session is
verified, assessed or consented without a passcode that went out for it and was
accepted. `SecondFactor` is not inductive. A handler commits a decision taken
from a row it read earlier, so the state of the row says nothing about the rows
other handlers are about to write. The argument is that possession is never taken
back: once a challenge of a session is proved it stays so. `IInv` therefore says
of every request in flight (`GoodCall`) that if the row it loaded was verified
the session is proven, and that if the row it is about to write is verified, the
session is proven or this very request carries the accepted guess; that it adds
an assessment or a consent only to a proven session; and that the id of its
challenge is fresh, so that no commit replaces a challenge.

`LedgerBalances`, `HandoffHolds` and `AnswersAreDurable`
(`ToolServiceLedgerProofs`): every artefact has its audit row, a hand-off is
refused only when the call is over, and what was answered is on record. `LInv`
adds to `IInv` that what a request has staged and the verdict it will log fit
each other, so that a commit adds the row and the artefact together, and that an
answered request has its row. `AnswersAreDurable` assumes `KeysApart`: no key is
used with two tools.

`WaitingEnds` (`ToolServiceLedgerProofs`) says what a deadlock over rows can be, with rows
locked one UPDATE at a time. No two requests hold the same row (`LocksApart`). Waiting
requests form no circle of more than two: in a chain of four waits the request in the
middle waits for one that waits for it (`CirclesArePairs`). And two that wait for each
other are a `resend_otp` and a `verify_otp` or `verify_identity` of the same session
(`PairsAreResends`): every other request that holds a row has locked the session row first, and no
request holds a row of another session. So the detector of PostgreSQL has one kind of
pair to break, and what `EveryCallEnds` assumes of it is enough for any number of handlers.
The invariant (`KInv`) says of each tool which rows it can hold in which phase
(`LockForm`), and that the passcodes it writes are those of its session
(`OwnPasscodes`).

`TablesHaveRows` (`ToolServiceLedgerProofs`): overlapping requests lose counts, but
never make one up. The state of a session is "started" or one that an audit row
answered with; identity attempts, resends, assessments and passcodes are no more than
the rows that report them; a passcode that was tried has a row that compared it.
Where requests overlap freely a commit may write a counter taken from an old row, so
the invariant (`GInv`) bounds what each request is about to write: it is at most the
rows there are now, and one more only if the row the request is about to add is
itself of that kind. Rows are never taken back, so that bound survives the commits
of all the others.

`OverrunHolds` (`ToolServiceRateProofs`): in no window of time are as many passcodes of
a customer on record as the limit and the number of handlers together. Like the
limit it bounds rows and not messages. The invariant
`OInv` counts a window and the requests that are `Headed` for it, those that have
found room and will add a passcode that falls into it. When a request finds room
there are fewer passcodes than the limit since one window ago, and only the other
handlers can be headed there too; a commit moves one from the one count to the
other. The one assumption is that there are finitely many handlers and at least
one. The bound is reached: TLC finds a state of the `RateExceeded` instance with one
passcode less.

### Only retries overlap on a session

All of `ToolServiceTurnProofs` assumes `OnlyRetriesOverlap` (a policy other than
"always", or one handler): the audit trail tells
the state (`TrailTellsState`), endings are backed, the attempt and resend budgets
and the guesses hold, one passcode lives, prospects stay apart, the verified
customer is the owner, closed sessions are frozen, moves follow the state
machine, and only the newest passcode is accepted, within its life. Nor does any
request ever deadlock (`RetriesNeverDeadlock`): the pair of `WaitingEnds` are two tools,
and retries of one request are one.

None of these is inductive while another request may commit in between. The
argument: two requests in flight on one session carry the same key (`Retries`).
The first to commit takes the key. So of every request in flight, `Turn` says that
either its key is taken, and its commit will be suppressed, or what it has read
is still what is stored (`Current`). What it has staged is the effect of its tool
on the row it loaded (`Local`, `Effect`), so a commit that does happen makes of a
good session another good one (`GoodSession`, `GoodChallenge`).

`ServiceRefinesLifecycle` (`ToolServiceRefinementProofs`) follows from it: a
commit is the one step of `CallLifecycle` for its tool and verdict, or leaves the
stage and the evidence alone; everything else is a stutter.

`RateHolds` (`ToolServiceRateProofs`) assumes `OneIssuer`, that at most one request
that issues passcodes is in progress, and bounds the passcodes on record: those are
what the code counts. From its count to its commit a request keeps
a moment `t` since which, less the window, fewer passcodes than the limit were
created (`Room`). Its own passcode is created at `t` or later, so a window in any
position that holds it holds, apart from it, only some of those.

### The record of a call

`AuditTrailProofs`, with any number of handlers committing between the statements.
The run `Audit` has one handler; the theorems add the others.

`TrailAnswersForRecord`, for any overlap of requests: a finished record shows nothing
its trail does not answer for. What is stored has its rows at every commit
(`TablesHaveRows`), and of a record half read `CInv` says that what it shows so far
is covered by the rows stored now, which later commits only add to. The trail is read
last: that closes the argument, and a trail read second is the mutant of the run.

`RecordBacksState`, where only retries overlap: the state a record gives is backed by
the rows it gives. The tables agree the other way round too (`DInv`): a decided
session has its assessment, and a passcode once a row reports one. That is inductive
because a request about to commit carries a passcode or a decision with the verdict
that reports it (`FInv`). Of a record half read `VInv` says that a state it showed
either is final or keeps what backs it; so the statements still to come find the
row. Where requests overlap freely the property is false: two overlapping consents
are both on file.

`EvaluationIsRight`: what the evaluation concludes from its replies and a record is
right. The conclusions are many (the calls that did work and their order, the
state, consents, decision, ticket, lead), and none of them looks at more than the
last reply or the order of replies, so two invariants carry them. `HInv` relates
the replies to the tables: the rows of a session are, in order, the replies heard
that were neither refused nor replays, but for one row whose reply is on its way;
`Did` is then the trail itself, row for row. `QInv` says of a record during whose
reading no request was in progress that each part read is what is stored. That a
retry is no work done twice needs that a key was used with one tool: it is looked
up with the tool (`find_replay`, `sessions.py:122-137`), and the reply it brings is that of a row
already told. The theorem assumes `SerialEvaluation`, which describes the client:
`run_evals.py` sends one request after the other, gives no key to two tools, and
the scenarios never put a key on a consent: a replayed one would be counted twice
among the replies and once in the record. The instance of the run `Audit` satisfies
it. With overlapping requests the order of the replies need not be the order of the
rows.

### Links, delivery, credit policy, seeding

`LinkJourneyProofs` has three parts. Links, for any number of them and of
overlapping pages: a link is spent exactly when a submission was recorded, a dead
link stays dead, thanks are true; the invariant says what a page that resolved a
link may still do to it. The send: verdicts are justified, and its time is bounded
by attempts times slow phases times the timeout, plus the pauses
(`WorstCaseHolds`); `BudgetHolds` assumes that this sum is within the budget, and
with one slow phase it is 6.25 seconds, with two it is 12.25. The two together:
every step of the journey is a step of the links or a stutter of them, and a step
of the send or a stutter of it (`JourneyRefines`), so both keep their promises on
the whole way from `capture_lead` to the pages (`JourneyKeepsLinks`,
`JourneyKeepsVerdict`).

`RulesProofs` on the credit policy, every file, request and instalment factor: the burden stays
within the share, counter-offers are maximal to a thousand rupees and exceed the
request by no more than half a rupee of instalment, overstating gains nothing.
Declines, and only they, offer nothing (`DeclinesHold`).

`BetterFilesHold`: a file with a higher score, a higher income and a smaller debt
never gets less of what was asked for. The decision is a chain of bands, shares,
a rounding of rupees to the nearest and of thousands downwards, and two slips of
binary fractions; the proof follows it. The better file is in the same band or a
better one (`BetterBand`); the headroom left for it is no smaller, where the bands
are equal because the slips then are, elsewhere because a better band gives a
larger share (`BetterHeadroom`); a lower rate makes the same amount no dearer
after rounding (`RoundedGrows`, `BetterPrice`); so what was affordable still is,
and the largest affordable thousand is no lower (`BetterCounterOffer`).

`RulesProofs` on seeding, any number of customers, fields and overlapping runs: a run
that finished leaves every customer there with every field set, and takes back no
edit but of a field it had found unset before. The invariant relates what each run
has read to what is stored: a row or a
field that was there never goes away again, and a customer that a run found
missing and another inserted came in with all the others of that run, so that the
first run collides.

### Only model-checked

Liveness: `EveryCallEnds` and `EscalationLands`. Fairness and ENABLED are out of
the prover's reach. Every invariant and every action property that a passing run
checks is proved. Every invariant that is proved inductive was checked with TLC
first, those behind a theorem for any overlap on an instance with
`Overlap = "always"` (`OInv` on that of `RateExceeded`, `GInv` on that of
`Overlapping`).

## Plan

1. Done: every component with a state of its own, their runs, and the proofs above.
2. The rules for names and ages in `kyc.py` and `schemas.py` as operators, if a
   property is found that the code could break.

## Not modelled

How names are normalised and compared, how ages and PANs are validated
(`kyc.py`, `schemas.py`): text in, a boolean out, which is an input of the models.
`seed(reset=True)`: nothing calls it. The console senders: they print. The shared
secret, log lines, masking, health probes and page layout: no state, or none that
another part reads. The connection pool: its limit delays requests and changes
nothing else. Migrations: one revision that declares the tables of `models.py`
again. The scenarios, timings and reports of the evaluation, and the prompt:
clients, and the models let a client send any request at any time. Texts,
references, queues and amounts outside the credit policy are abstracted away
wherever no property depends on them.
