# A verification of the ERP error management framework

The framework collects the errors of an ERP system - from the browser, from
.NET services and from SQL - collapses them into *problems* (fingerprints),
raises *tickets* for them, keeps an audit trail of every ticket and notifies
the people concerned. This directory holds TLA+ modules of it, configurations
that check them with TLC on small instances, and theorems about them checked by
TLAPS for every value of the constants. `PROJECT.json` lists components, runs,
mutants, the source lines each definition stands for, findings, hazards and
theorems.

    tlc -workers 2 -config TicketConcurrent.cfg MCTicketLifecycle
    tlapm TicketLifecycle_proofs.tla

## 1. The system

| Part | Source (under `src/`) | State it keeps | Here |
|---|---|---|---|
| Capture, deduplication, ticket lifecycle | `db/002, 004, 007, 011` | problem, occurrence, ticket, link, history rows; counters; `OpenTicketID` | `TicketLifecycle`, `TicketPromise` |
| Notification outbox and dispatchers | `db/012, 013`, `NotificationDelivery.cs` | outbox rows with state, attempts, time of claim | `NotificationOutbox`, `NotificationPromise` |
| Reference numbers | `db/002:93-175` | a counter per day and kind | `ReferenceCounter` |
| Anonymous capture throttle | `AnonymousCaptureThrottle.cs` | token buckets, time of the last sweep | `CaptureThrottle` |
| Browser reporter and transport | `erp-error-reporter.service.ts`, `erp-error-transport.service.ts` | queue, request, timer, re-entrancy flag, one localStorage key | `ErrorTransport` |
| Capture hooks | `capture/` | none of their own | `ErrorDialog` (who reports and shows what), `ErrorCapture` (what is reported) |
| Error dialog and its service | `ui/` | the open dialog, when each problem was last shown | `ErrorDialog` |
| Classification, fingerprint | `core/classifier.ts`, `core/fingerprint.ts` | none: functions | `ErrorCapture` |
| Redaction | `core/redaction.ts` | none: functions | `Redaction` |
| Form service, result convention | `forms/`, `handled-failures.ts` | none: functions | `FormErrors` |
| Client context, envelope | `core/`, `models/` | route, correlation id | `ErrorCapture`; the rest is data |
| Support console, reporter's panel | `demo/.../admin.page.ts`, `my-issues.page.ts` | what is drawn, what is open, what is typed, flags | `PagedList`, `SupportConsole`, `MyIssues` |
| Web API 2 and ASP.NET Core adapters | `Erp.ErrorManagement.*` | none | capture endpoints, in `ErrorTransport` |
| Workflow and reference data | `db/001, 003` | statuses, transitions, rules, settings | constants of the runs |
| Support roster, capabilities | `db/011`, `SupportAuthorization.cs` | agents, cached capabilities | the constant `Agents`; `rights` in `SupportConsole` |
| Retention and archive | `db/005` | live and archive rows | not modelled |
| Capture service and store (.NET) | `Erp.ErrorManagement.Core` | none: one procedure per operation | not modelled |
| Search, dashboard | `db/010, 004` | none: queries | not modelled |
| Optional SQL capture | `db/008, 009` | add-ons that feed `usp_Error_Capture` | not modelled |
| Grants, installer | `db/006`, `VERIFY.sql`, `RUN_ALL.sql` | - | not modelled |
| Build tools and tests | `tools/`, tests | - | not modelled |

How they interact. A hook hands an error to `ErpErrorReporterService.report`,
which classifies, fingerprints and redacts it and enqueues the envelope; `flush`
posts a batch; `ErrorManagementController` asks the throttle (for anonymous
callers) and captures each entry through `ErrorCaptureService`, which calls
`usp_Error_Capture`. That procedure takes a reference number, finds or makes the
problem's row, attaches the occurrence to the problem's open ticket or evaluates
the auto-ticket rules, which may call `usp_Ticket_Create`. The result comes back
to the hook, which shows the dialog; the dialog may raise a ticket. Agents move
tickets from the console with `usp_Ticket_ChangeStatus` and `usp_Ticket_Assign`;
reporters answer from their panel with `usp_Ticket_AddUserComment`. All of them
insert into the outbox with `usp_Notification_Enqueue`; mailer processes, a SQL
Agent job or both drain it.

What is hard about it:

* the procedures validate *before* their transaction and notify *after* it, so
  what they read may have changed, and a session may die in between;
* three procedures compute the next history number, and two keep the same
  counters by increments;
* a capture trusts `OpenTicketID` without looking at the ticket;
* a capture takes its reference inside its transaction, a ticket outside, from
  the same procedure, whose retry only one of them can use;
* outbox rows are claimed in batches, sent one by one, reported by identity
  alone, and released by age, beside a job that claims nothing;
* the throttle drops a bucket under one lock while a request spends it under another;
* the browser's `flush` removes entries by position after an `await` during
  which beacons and reports change the queue; several tabs share one stored copy,
  and any write of it may fail silently;
* a re-entrancy flag stays set across an `await` of a promise that may not settle;
* one failure is met by several hooks, in different wrappings and with different
  options, and must be one problem;
* a ticket's answer may arrive when its dialog is gone and another is open;
* every list and ticket the pages draw is a read in flight whose answer may be
  overtaken, and a picked assignee or a typed reply outlives the ticket it was for.

What makes each part correct:

* tickets: one live ticket is the one captures find; occurrences land on a
  ticket of their own problem; counters equal the rows they count; the trail is
  numbered without gaps and tells the ticket's status; status moves follow the
  workflow; every change is announced;
* references: the numbers of a day are never given twice, and the race for its
  first row costs a bounded number of captures;
* outbox: a claim keeps a row for one dispatcher where it can, nobody is told twice
  without a fault or a second dispatcher on the row, nothing is marked sent that was
  not received, everything is settled in the end;
* throttle: nobody gets more than burst and refill but once more for each bucket a
  sweep took from under a request, and the table is bounded;
* transport: what was accepted is recorded or still held, copies are bounded by
  mishaps, the queue is bounded and never sleeps, every report returns while no page
  is hidden, with its own reference number;
* capture: a failed call is one problem whoever reports it; browser and server
  rows can be joined; nothing a user sent is kept unless named; every broken
  rule of a form is listed;
* dialog: a ticket number belongs to the error shown, within the window a problem
  prompts again at most with a plain dialog, an uncaught error ends on the screen;
* pages: what is drawn is what the controls say, what is posted goes where it was
  meant, the page catches up with its own changes, nothing is posted twice unasked.

## 2. The modules

### TicketLifecycle and TicketPromise

`fingerprint`, `occurrence`, `ticket`, `links`, `history`, `outbox` are the
tables `ERM_ErrorFingerprint`, `ERM_ErrorOccurrence`, `ERM_Ticket`,
`ERM_TicketOccurrenceLink`, `ERM_TicketStatusHistory`,
`ERM_NotificationOutbox`, with the columns other statements read. `session`
holds, for each database connection, where the procedure it runs has got to and
the local variables its next statement will use. A procedure is cut where
another session can come in:

| Procedure | Actions |
|---|---|
| `usp_Error_Capture` | `CaptureAttached`, `CaptureUnattached`, `CaptureSampledOut`; then `RuleFires` / `NoRuleFires` |
| `usp_Ticket_Create` | `ReportIssue` or `RuleFires` (look-up), then `LinkToExisting` or `InsertTicket`, then `NotifyCreated` |
| `usp_Ticket_CreateManual` | `CreateManual`, `NotifyCreated` |
| `usp_Ticket_ChangeStatus` | `ChangeStatus` (validation), `ApplyStatus` (transaction), `NotifyStatus` |
| `usp_Ticket_Assign` | `Assign` (reads), `AssignCommit`, `AdvanceBegin` / `AdvanceSkip` (nested change), `NotifyAssigned` |
| `usp_Ticket_AddUserComment` | `Reply` (checks), `ReplyCommit`, or `ReplyResume` and `ReplyApply` (status change inside its own transaction) |
| `usp_Fingerprint_Triage` | `Triage` |

A transaction is one step: its locks (the MERGE's on the problem, `UPDLOCK,
HOLDLOCK` on the history range) serialise it against every other writer of the
same rows. `Crash` ends a session anywhere between two steps. The rules' time
window is abstracted to "a rule may not fire"; comments, SLA and elapsed-time
columns, and validation of envelopes are left out.

`TicketPromise` is the abstract specification: a ticket's status and its trail change
together, by one entry at the end and none lost; a move is a row of the workflow out of
a status the ticket had, and out of the one it has if there is one client (`Alone`).
`KeepsPromise` is the refinement: `status` is the row's (`StatusOf`), `trail` the
history rows in the order of their numbers (`TrailOf`), `Alone` is `Serial`. That the
weaker clause is all that is promised with two sessions is section 6's `TicketRace`.

### NotificationOutbox and NotificationPromise

`NotificationPromise` is the abstract specification: a notification is queued,
received any number of times while it is queued, and settled once, as sent only
if it was received; while it is `shared` between dispatchers it may be received and
settled anew. `NotificationOutbox` is the code: `row` (DeliveryState,
AttemptCount, age of the claim), `received` (what the recipient saw), `pass`
(where each dispatcher's pass has got to), `faults`. Any number of mailer processes
(`Mailers`) and of sessions that run the procedure (`Jobs`: SQL Agent, timers of the
API) are at work side by side, which `ARCHITECTURE.md:1443-1444` and `db/012:219`
allow. A mailer's pass is `ReleaseStale`, `Claim`, then `Send` and `Report` for each
row (`Continue` to the next); a job's is `SelectPending`, which marks nothing, and the
same loop. `ClaimLost`, `SendUnsure`, `ReportThrows` and `Crash` are the faults. `Tick`
lets time pass: a unit is what one delivery of a mailer may take at most, so no second
`Tick` comes within one (`busy`); nothing is known of how long a job's adapter takes.

Two history variables say what the code cannot exclude. `exposed` are the rows in
some dispatcher's hand that no claim protects: a job took them, or a mailer claimed
them with more than it can send within the window. `overlaps` counts how often a row
was taken while another dispatcher held it. `KeepsPromise` is the refinement: `status` is
the row's state with `pending` and `sending` both mapped to `queued`, `shared` is
`exposed`.

### ErrorTransport

JavaScript runs a callback to its `await`, so an action is one callback. `tab`
holds for each page its `queue`, the `batch` of the request that is out (empty
when `sending` is false), the server's `reply` once it is there, whether the flush
`timer` is set and which error the reporter is `waiting` for (its re-entrancy
flag). `stored` is the one localStorage key, `wire` the requests no page waits
for (beacons, posts given up). Each write of the key may fail and leave what was there
(`Stores`: the quota, a private window); `unstored` counts those writes. `recorded`,
`accepted`, `told` and `mishaps` are history variables for the properties. A page hidden
between requests is the mishap `hidden`, one hidden with a request out `overtaken`.

| Code | Actions |
|---|---|
| `report`, `enqueue` | `Report`; `ReportIgnored` while the flag is set |
| `flush` up to its `await` | `TimerFires` |
| `CaptureErrors` | `Serve`, `ServeInPart` (throttled or failed entries) |
| `flush` after its `await` | `Answer`, `NoAnswer` (error status, 204, or 20 s) |
| `restoreQueue` | `Load` |
| `installUnloadFlush` | `Hide` (the page lives on), `Close` |
| a tab killed | `Crash` |
| `CaptureBeacon`, posts given up | `ServeWire`, `LoseWire` |

Delays are left out: a timer that is set may fire at any time, which includes the
immediate flush of severe errors and the back-off after a failure. An error is
its number; the page's `ignore` rules end before any state changes.

### ReferenceCounter

`counter` is `ERM_ReferenceCounter` (`LastValue` per kind and day, 0 for no row),
`lock` the open transaction that wrote a row, `caller` each connection's place in
`usp_NextReference` with its local `@Today`, attempt and number. `ClaimNext` is
the `UPDATE ... SET @Next = LastValue = LastValue + 1`, `FindNoRow` its finding
nothing, `InsertRow` / `InsertDooms` / `InsertLoops` the INSERT and its CATCH: under
`XACT_ABORT` a capture's transaction is doomed by the duplicate key, while a
ticket's procedure, outside a transaction, loops. `Commit` and `Rollback` are the
end of the caller's transaction (or of the connection), `Midnight` passes while
the procedure runs. `issued`, `wasted`, `doomed` are history variables.

### CaptureThrottle

`bucket` is every `Bucket` object so far, `table` the dictionary, `thread` each
thread's place in `TryAcquire`: `Check` (the test outside the monitor),
`EnterSweep` (the one inside), `TestIdle` (under a bucket's lock), `Remove` and
`EndSweep` (not under it), `Take` (`GetOrAdd`), `Spend` (refill and grant under the
bucket's lock, with a `now` read when the request began). `spent` is, for each client, a sequence of the
tokens granted in each of its lives: a life ends when the bucket is dropped although
it changed since it was found idle or a request of that client holds it or is older than
the sweep, or when a flood clears the table, all of which the code allows. `sweeps`
counts the sweeps begun, those the cap forced apart.

### ErrorDialog

An event with the promise continuations it runs is one action. `due` holds the
uncaught failures on their way to the `ErrorHandler` or a window listener,
`report` the report in flight (the reporter's flag), `dialog` the service's
`current`, `lastShown` its suppression map with its pruning, `ticketCalls` the
requests of dialogs that may be gone.

| Code | Actions |
|---|---|
| interceptors, `erpReport...` helpers, form service | `RequestFails`, `HandledFailure` |
| `ErpGlobalErrorHandler`, window listeners | `Throw`, then `HandleError`, `WindowEvent` |
| end of `report` and the hook's continuation | `ReportAnswered`, `ReportUnanswered`, `ReportMuted` |
| the dialog | `Submit`, `TicketAnswered`, `TicketUnanswered`, `Dismiss` |

### ErrorCapture, Redaction, FormErrors, CapturedInput

`ErrorCapture` is `buildEnvelope` and all it calls: `Unwrap`, `Classify`,
`ComputeFingerprint` and the context service, under the hooks that call it
(`ByInterceptor`, `ByHandler`, `ByWindow`, `ByHelper`, `ByForm`) with the options
each passes, in any number of wrappers, before or after a navigation. What a caller
may give a helper is all of `ErpReportOptions` that is described or hashed: a hint,
names, the broken rules of a form, and a response to be used in place of the error's
own (`HttpOf`). A message is
a record of its shape, which the normalisation keeps, and its volatile part, which
it forgets; a URL likewise; the identity of a hash is the sequence that is hashed.
`Redaction` is `redactObject` and its relatives on JSON documents, `FormErrors`
`collectErrors`, `sanitiseValidatorDetail` and the result convention. What one call
does is an operator of what the calls below it return (`Redact`, `Collect`), and the
recursion is a function of the depth (`RedactFrom`) or of the levels of controls
(`CollectFrom`). Beside them stand the references, which know nothing of either:
`At` is what a path leads to in a document, `ControlAt` in a form. `CapturedInput`
feeds them requests, forms and results.

### PagedList, SupportConsole, MyIssues

The pages over a server that answers each request at most once, in any order, or
never. `PagedList` is the error history and the recurring problems of the console
(sort, filter, pager); `SupportConsole` who-am-I, the queue, the ticket that is
open, the assignee picker and the moves, with other agents at work on the same
tickets; `MyIssues` the reporter's list, reply box and form. A request in flight is
a record that is first `served` and then answered, so that a read may be old when
it is drawn. `source`, `own`, `dropped`, `refused` and `inOrder` are history
variables.

### MC modules and proofs

`MCTicketLifecycle` holds the seeded and a short workflow. `MCBrowserParts` and
`MCServerParts` put parts that share nothing side by side: a
behaviour of theirs is a behaviour of one part while the others rest in an initial
state, so that a run's states are the sum, not the product, of its parts'.

`M_proofs` extends the module `M` with lemmas and theorems; `TicketAudit_proofs` extends
`TicketLifecycle_proofs` with those about the trail, the counters, the notifications and
the refinement; `TicketPages_proofs` is about `PagedList`, `SupportConsole` and
`MyIssues`, `ServerParts_proofs` about `ReferenceCounter` and `CaptureThrottle`, and
`ErrorCapture_proofs` about `CapturedInput` too.

## 3. The runs

| Run | Instance | States | Asks |
|---|---|---|---|
| `TicketConcurrent` | 2 sessions, 1 problem, 2 occurrences, 2 tickets, history 3, crashes, short workflow | 1.7 M | what survives every interleaving |
| `TicketSerial` | 1 session, 2 problems, 1 user and anonymous captures, seeded workflow, history 5, crashes | 2.4 M | what a serial client is promised |
| `ServerParts` | 2 sessions, 1 manual ticket, seeded workflow, history 4; 2 connections, 2 days, 2 numbers a day; 2 threads, 4 clients, burst 2, 2 tracked, 4 requests, 2 moments, sweeps one apart | 1.7 M | replies, assignments, nested changes, the refinement of `TicketPromise`; reference numbers; the throttle |
| `OutboxDelivery` | 2 rows, 2 mailers and 1 job, 2 attempts, 1 fault, batch 2, window 1 | 0.9 M | safety, refinement |
| `OutboxSettled` | 2 rows, 1 mailer and 1 job, 2 attempts, 2 faults, batch 2, window 1 | 0.8 M | liveness |
| `TransportOneTab` | 1 tab, 4 errors, 2 mishaps, 1 failed write, batch 2, 2 stored | 0.2 M | safety and liveness of one page |
| `TransportTwoTabs` | 2 tabs, 3 errors, 2 mishaps, 1 failed write, batch 2, 3 stored | 0.8 M | tabs sharing one stored queue |
| `ClientDialog` | 3 problems (1 ignored), 2 failures, window 2, times 0 to 3, map pruned from its first entry on | 0.5 M | who is shown what |
| `BrowserParts` | 2 filters, 2 pages, 3 requests; 2 tickets, 2 agents, 3 clicks, 1 loss; 1 ticket, 2 texts, 2 presses, 1 loss; 1 failure of 10 kinds, 2 envelopes, 2 places, 4 sets of options, 2 foreign responses, up to 2 wrappers of which 1 is peeled; 315 documents, 243 forms | 1.1 M | what the pages draw and post, what is reported and kept |
| `TicketTwoOpen`, `TicketRace`, `TransportHidden` | one property each | - | expected violations, section 6 |

Why the bounds are enough. Two sessions are all it takes for each read to become
stale, and two tickets of one problem for each way `OpenTicketID` changes hands.
`TicketConcurrent` uses a workflow with an open, an assigned, a terminal and a
reopened status because which arrows exist does not matter to its properties;
`ServerParts` and `TicketSerial` use the seeded workflow in full. The refinement
compares each ticket with its own trail, so that one ticket is enough; `ServerParts`
checks it for two sessions of which none dies and a ticket made by hand, the theorem for
every way of making one, for sessions that die and for a single one. A history of
3 to 5 rows lets a ticket be created, closed, reopened and closed again. In the
outbox two rows with a batch of two give a row that waits its turn while the
other is sent, two mailers a second claimant and the job one that claims nothing; a
window of one delivery makes a claim of two rows outlast it, as the installed 50 rows
do, and a claim of one fit; two attempts are a retry and a give-up, and in
`OutboxSettled` two faults a crash of the sender *and* of its successor. In the
transport the sizes keep the proportions of the defaults (10 per batch, 50
stored, 50 taken, 200 queued) with the batch smaller than what can pile up, and
four errors make a queue of three behind a request; one write that fails is enough to
leave an older queue, or none, for the next page. Two connections race for a
first row, and two numbers a day let one wait for, and follow, the other's
rollback. Two threads with four clients and room for two give the sweep of a
bucket in use, the flood that clears the table, and a table that could exceed its cap by
two; two moments refill a bucket. In
the dialog two failures are a dialog and its successor, and a map pruned from its
first entry on is the worst case for the suppression. In the capture
one failure with two envelopes is what `HooksAgree` compares, one peel under two
wrappers includes one too many, and a depth of two under documents of three levels
the cut. In the pages three requests let an answer be overtaken twice, three clicks
are select, pick or select again, and assign.

`WithoutOutbox` is a VIEW used where no action reads and no checked property
mentions the outbox; symmetry is over sessions, problems, occurrences, tickets,
rows, mailers, threads, clients or agents that no definition distinguishes, and in
no run with liveness. `CHECK_DEADLOCK FALSE` is set where identities, history rows, errors,
requests or time run out and the system rests.

Fairness. `OutboxSettled`: the schedule (a hosted timer, a SQL Agent schedule)
starts pass after pass and each statement of a pass ends - weak fairness of
`PassStep(d)` - and time passes. Faults are finite (`MaxFaults`); with unboundedly
many the code promises nothing, since a release counts no attempt. Transport:
timers fire, the server answers what reaches it, an answer is handled, and the
user opens the ERP again (`Load`); nothing is fair about reports, mishaps or the
partial server. `MaxMishaps` bounds mishaps of every kind together. `ClientDialog`:
the browser calls its `ErrorHandler` (`HandleError`), and that is all: a report need not
return (section 6), and nothing is fair about the user or about tickets' answers.

What the passing runs show:

* `OpenTicketLive`: for all stale validation, a problem never names a dead ticket, so
  that the capture, which reads the column in its own transaction, attaches to none.
* `CountersExact`, `SameProblem`: linked and distinct-user counts equal the
  rows although `usp_Ticket_Create` links outside the look-up's transaction. The
  counters are checked for two sessions without users and for one session with a user
  among the reporters; the theorem is for any number of both.
* `GaplessHistory`, `HistoryTellsStatus`: the trail is complete even when two
  changes race - although it need not be a chain then.
* `LegalMoves`, `HistoryIsAChain`, `StampsMatchStatus`: hold for one session at a
  time, wherever it dies; with two sessions the first two do not.
* `KeepsPromise` of tickets: whatever interleaves, status and trail never part, and a
  stale move still starts from a status the ticket had.
* `EveryChangeQueued`: holds when no session dies.
* `ReferencesExact`: error numbers are consecutive in commit order, ticket numbers
  distinct; the race for a day's first row loses at most one capture per other
  connection, and no ticket comes to a third attempt.
* `ThrottleHolds`: the burst and the refill are a client's limit in each of its lives,
  each sweep gives it two more lives at most, sweeps below the cap keep their pause, and
  the table exceeds its cap by less than the number of threads.
* `OneHolder`, `OutboxTruthful`, `DuplicatesBounded`, `KeepsPromise` of
  notifications, `EventuallySettled`: the claim, the report by identity and the sweep work
  together for every row that is not `exposed`; an exposed one may be delivered, attempted
  and settled once more for each time it was taken while held, and no oftener, and is
  settled in the end all the same.
* `BacklogBounded`, `NeverStalls`, `OwnReference`, `CopiesBounded`,
  `NothingLost`, `EventuallyRecorded`, `ReportsReturn`: through an unreachable
  server, late and partial answers, writes that fail while no page dies, and one crash
  if none failed. `Harmless` names the circumstances `NothingLost` does not cover, more
  errors than a queue, the stored copy or a request hold among them; each is a real loss
  (section 6).
* `TicketOfItsDialog`, `RepromptsArePlain`, `UserIsTold`: late ticket answers find
  their dialog or nothing, pruning never shortens the window, only dialogs without a
  reference ignore it, and an error that reaches the handler is shown or accounted for,
  unless its report never returns.
* `HooksAgree`: classification and fingerprint do not depend on the hook, the hint, the
  names or (up to six) the wrappers, for failures that got an answer, among reports with
  the same broken rules and no other call's response.
  `JoinedUnlessMoved`: nor does the correlation id, unless the user navigated.
* `RedactionKeepsOnlyNamed`: along every path into a request's body, a member's text
  or number is masked unless its key is allow-listed, no credential is kept (but as the
  name of a field of a `FormData`, which the code keeps as it is) and no file, and what
  is neither too deep nor too far down an array is still there in some form. Headers and
  query parameters keep their names, masked unless allow-listed.
  `BrokenRulesListed`: the errors listed at a path are the rules failed by the control it
  leads to, each once, with limits and lengths of the known rules and, for `min` and
  `max`, the number entered, which the code's comments deny (section 6).
* `ListMatchesControls`, `OwnChangeShown`: when answers come in order.
  `PickBelongsToTicket`, `PostedOnce`: in any order.

Each property of a passing run has a mutant: a plausible bug in one mapped
definition, kept in the module under a comment "Mutation:", with which TLC finds
the property violated.

## 4. The theorems

Assumed of the constants, in the module that declares them:

* `None`, `System`, `NoClient`, `NoPage` and `Blank` are none of the things they stand
  in for (in the transport `None` is no number and no sequence of references, for the
  answer of the server is either), and no ticket's row is `None`;
* sets of occurrences, users, rows, tabs and threads are finite; bounds are natural
  numbers, and sizes and caps positive where the code divides or cuts by them;
* the workflow contains the five statuses the procedures name, with `new` and
  `reopened` not terminal;
* no dispatcher is both a mailer and a job;
* what the dialog remembers is kept at least as long as the window (`Window <= KeepFor`;
  the code keeps it for four windows);
* a failure has the fields `Http` and `Thrown` give it and comes unwrapped;
* the values requests are made of are closed under their parts, and what covers a
  credential is none itself; a form has finitely many levels of controls, in which no
  control has two children of one name or fails one rule twice (both are objects' keys).

TLC evaluates these on every run. Nothing is assumed of the size of a batch against the
stale window, but in `MailersAlone`, whose hypotheses are `Jobs = {}` and
`BatchSize <= StaleWindow` in units of one delivery; with the installed 50 rows, 20 s
and 15 minutes the latter does not hold (section 6). Three more hypotheses are
part of the statements that need them: `~Crashes` (no session dies), `Serial`
(there is one session) and `RevivesByReopening` (terminal and resolved tickets come
back by a reopening only); the seeded workflow is of that kind.

`TicketLifecycle_proofs`: `TypeCorrect`, `OpenTicketCorrect`, `HistoryNumbered`,
`DeduplicationSafe`, for any workflow and number of sessions. The
inductive `Inv` joins the types, what a session remembers (`SessionsReady`: a row
it read still exists, which an update of that row needs), `OpenTicketLive` and the
numbering. `OpenTicketLive` is inductive because the transaction that makes a
ticket terminal clears `OpenTicketID` itself, from the ticket as it is then, not
as it was validated. `DeduplicationSafe` adds that a session about to link
remembers an occurrence and a ticket of one problem (rows never change problem).

`TicketAudit_proofs` builds on that invariant.

* `TrailTellsStatus`: the row a transaction appends has the number after the largest,
  hence it is the newest, and it names the status the same statement sets.
* `CountersAgree`: an increment is right because what it counts is new: the link is
  not among the links (a new ticket or occurrence has none, and `SameProblem` says
  which problem's rows can be touched).
* `ChangesAreQueued`, if no session dies: a session about to notify knows who wrote
  its row, which is not the first of the ticket (`SendersKnow`), and no other session
  can write under its number, for rows are appended under numbers not taken.
* `MovesAreLegal`, `TrailIsAChain`, `StampsAgree`, for one session, which may die
  anywhere: what it validated still holds when it writes (`AllValid`). Section 6 shows
  the first two fail for two sessions.

* `TicketsKeepPromise`, the refinement, for any number of sessions dying anywhere. A
  status about to be written from was read (`StepReads`), so a row shows it, and rows
  are only ever added (`AllBacked`, `RowsStay`). A trail of n rows numbered up to n has one row
  for each number, by counting (`OneRowPerNumber`), so a row under the next number is one
  entry at the end and leaves the others in their places (`ListGrows`). The clause for
  one client comes from `AllValid`.

`NotificationOutbox_proofs`: `OutboxTyped`, `ClaimExclusive`, `OutboxTells`,
`FewDuplicates`, `OutboxKeepsPromise`, for any mailers and jobs side by side and batches
of any size. The heart is `Protected`: a row in a mailer's hand that is not `exposed` is
`sending`, and its age plus the number of rows still held is at most the window plus
the unit in progress; so the sweep leaves it alone while its holder lives, nobody else
can take it, and a report speaks for the only sender. What happens to the exposed rows is
counted (`Counted`): attempts and the dispatchers that hold the row are together at most
the limit and its overlaps, copies and the dispatchers that may still send it at most
one, the faults and its overlaps; a dispatcher that takes a row takes it from nobody, for
which one place is kept (`Waiting`), or beside another, which is an overlap. The
refinement is proved step by step from `OutboxInv`. `MailersAlone` is what a site gets
that runs no job and whose batches fit: nothing is exposed, nothing overlaps, and only
a fault can cost a second copy.

`ErrorTransport_proofs`: `TransportTyped`, `BacklogStaysSmall`, `QueueAwake`,
`NobodyElsesReference`, for any number of tabs and mishaps and any sizes. The backlog is bounded because the
entry of the report that waits is the last of the queue (`WaiterLast`) and no
other is added until it returns; a batch that holds it is the whole queue, which
was therefore no longer than a batch (`Room`). `QueueAwake` needs only `Awake`.
`NobodyElsesReference` rests on `Honest`: each result that came back names the error
sent in that place, which the server has recorded.

That copies are bounded and nothing is lost needs two more invariants there.

* `CopiesCounted`, from which `FewCopies`: an occurrence of an error can still come
  from a page that holds it, from a request nobody waits for, or from the stored queue
  once no page is up. Those places and the occurrences recorded are together at most
  one more than the mishaps that copy and the writes that failed (`Counted`), because an
  entry is in one place of a page (`Shape`: no queue repeats an error) and each step that
  makes a second place is one of those: a failed write is one when the page is gone and
  an older queue stays behind. Finitely many tabs are all that is assumed beyond the sizes.
* `LossInvariance`, from which `NoErrorLost`: `Harmless` does not become true again once
  it is false (`HarmlessBefore`), so each step may assume it before and after. Then
  the batch is the head of the queue, an answered batch is recorded in full, an only
  tab is mirrored under the storage key while no page has died and no write has failed
  (`Intact`), and every accepted error is recorded or in a place that leads to the server
  (`Sound`). A page hidden between requests sends its whole queue by the beacon or
  keeps it (`SoundHide`). That nothing is cut off by the size of the
  queue, of the stored copy or of a request follows from the number of accepted
  errors (`Fits`), because no queue repeats one.

`ServerParts_proofs`, on references: `ReferencesTyped`, `ReferencesAreExact`, for any
number of connections, days and numbers. The row of an error counter is locked by the one
capture that has its number in hand (`LockHeld`), so the counter is the committed
references and that one (`ErrorsCounted`); a ticket's number never exceeds the counter
that gave it out (`TicketsCounted`). Once a row has a committed reference, only those who
found none before can still lose the race (`RaceEnds`), and a ticket's procedure that
lost finds the row at its second attempt (`SecondAttempt`).

On the throttle: `ThrottleInvariance`, `ThrottleAlwaysHolds`, for any number of
threads, clients and requests and any burst, rate, cap and pauses. A bucket is usable
while it is in the table or a request holds it. Each usable bucket is of a life of its
own (`OneBucketALife`), and there what was drawn and what is left are at most the burst
and what was refilled until the bucket was last looked at (`Balanced`). The delicate
step is a new bucket for a client who had one: it must not be given a burst again.
The sweep drops only a bucket that is full by then, so what was drawn before is no
more than what was refilled (`RoomForABurst`), also as of the older `now` of a request
that is about to take the new one. That each sweep gives a client two lives at most is counted
beside it: its lives and those the sweep under way may still give it (`ToCome`: one while
its bucket may be dropped, one while the table may be cleared) never exceed one and two
for each sweep begun (`SweepsCounted`). The cap is exceeded by less than the number of
threads because each thread adds at most one client after a check that saw
room (`FewAboveTheCap`).

`ErrorCapture_proofs`: `CaptureInvariance`, `HooksDescribeAlike`, `RowsJoined`, for any
failures, wrappers, navigations and requests. Every row fits the failure it is
of (`RowFits`): for an answered call in no more wrappers than are peeled, reported with
no other call's response, class, parent and signature are functions of the failure and
of the broken rules that were passed, as peeling gives the same error whatever it was
wrapped in (`UnwrapPeels`). Two rows of one failure with the same rules then agree
through those functions. `RowsJoined` rests on `CorrelationCountsMoves`: the
correlation id changes by navigating only, so equal screens mean equal ids.

`TicketPages_proofs`, on the list: `ListShowsWhatWasAsked`: while answers come in order
the last question is still awaited or is the one that is drawn, and it was asked with
what the controls say, unless something is being typed (`LastIsShownOrAwaited`).

On the console: `PicksBelong`, `OwnChangesShown`, for any number of
tickets, agents, clicks and lost answers. That the page shows its own change is not
inductive: while something older than the change is drawn or on its way, something
newer must still be to come (`WillBeRead`): whoami or the queue, which lead to a read of
the open ticket, or a later read of it.

On the reporter's panel: `PanelInvariance`, `RepliesPostedOnce`, for any number of
tickets, texts, presses and losses. At most one post of a kind is awaited, and its
button is off meanwhile (`OnePostEach`), so what may still be posted is stored no more
often than it failed (`KeptAndRefused`); and a text that failed is in its box, on its
way again, stored, or was written over (`RefusedIsShown`, `PostHeld`).

`ErrorDialog_proofs`: `DialogTyped`, `TicketsFindTheirDialog`, `PromptsKeepTheirDistance`,
for any window, map size and pruning age that is not below the window (the types are
proved only, no run checks them). `Remembers`: a problem that the map has forgotten was
shown with a reference longer ago than the pruning age, so within the window only the
plain dialogs, which have no fingerprint, come through. `CallsNumbered`:
a ticket request and a dialog of one number are of one failure.

On what is kept of a request or a form: `AlwaysRedactionKeepsOnlyNamed`,
`AlwaysBrokenRulesListed`, for bodies of any depth and width, any headers and query
parameters and forms of any number of levels. Of several headers or parameters of one name the last is kept (`LastOfName`). What bodies and forms
need are inductions, which are stated without a schema: a set of numbers has a least one (`LeastNumber`), so a set that has 0 and the
successors has all (`CountingUp`). That `RedactFrom`, `CollectFrom`, `At`, `ControlAt` and
`FlattenSeq` satisfy their equations is proved first, for a function that does exists
for each number of levels (`RedactUnfolds`, `CollectUnfolds`, `AtSteps`, `ControlAtSteps`,
`FlattenSteps`). A path into a body and the same path into what was kept of it then
correspond step by step (`PathsCorrespond`): either both are still inside the walk, or a
member was judged, or what was there is gone because of the depth or the length, or
what is there stands for elements, fields or bytes (`WalkedGoesOn`,
`CorrespondenceGoesOn`). For forms, if what is collected of each child lists the rules
failed below it, so does what is collected of the control (`CollectLists`): an error
found below a child begins with the child's name, and no two children share one.

With these, every safety and action property of the passing runs, and both
refinements, are theorems. The
liveness properties `EventuallySettled`, `EventuallyRecorded`,
`ReportsReturn` and `UserIsTold` are TLC's too; fairness is out of the provers' reach.

## 5. What is not modelled, and why

* Retention (`db/005`). As installed the archiving of an occurrence or of a ticket
  cannot run: the archive tables are made by `SELECT TOP 0 * INTO`, which keeps the
  IDENTITY column, so the `INSERT ... SELECT *` that fills them is refused, and
  `db/011` adds columns the archives lack. What is left are two independent batched
  DELETEs. (An occurrence whose `ERM_TicketID` was set to NULL with its ticket can
  still be the primary occurrence of another.)
* Lock order inside transactions, hence deadlocks between a capture (problem, then
  ticket) and a status change (ticket, then problem): the victim is rolled back,
  which is a `Crash` before the transaction.
* Elapsed-time metrics and SLA flags: arithmetic on columns no procedure decides by.
* `scrubText`'s patterns, the hash, the wording of messages: text; the C# twins of
  the classifier, fingerprint and redaction are compared with the TypeScript
  by the repository's parity test.
* Fractions of a token, severities' delays, breadcrumbs, client description, the
  dashboards' and lists' queries, grants, the installer, the in-memory demo API.
* The capability cache of `SupportAuthorization`; the pages ask whoami each time.

## 6. Where code and promise part

Shown by the three runs that expect a violation (`findings` quotes the lines):
two open tickets for one problem after a recurrence and a reopening
(`TicketTwoOpen`); an illegal move by two racing sessions (`TicketRace`); a report that
never returns once its page was hidden, which silences the reporter for good
(`TransportHidden`).

Met while modelling, without a run of their own. In the database:

* a session that dies between the COMMIT of a change and its enqueue leaves the
  change unannounced, though the comment at `db/012:176` says the enqueue is called
  in their transaction (`EveryChangeQueued` is checked without crashes for that reason).
* a row is sent twice without any fault in three ways, all of them in the model. 50 rows
  of up to 20 s each outlast the stale window of 15 minutes, so the sweep releases rows
  that are still in flight (against `db/013:157-159`). `usp_Notification_Dispatch` marks
  nothing, so a second run of it, from SQL Agent and from an API's timer (`db/012:219`),
  takes the same rows. And it takes rows beside the mailers, which read what it has not
  yet marked, though both paths are said to coexist (`ARCHITECTURE.md:1443-1444`). Such
  rows are `exposed`; they may also be attempted once too often, and be sent, or given
  up, after they were settled.
* the rule path of `usp_Error_Capture`, and `usp_Ticket_Create` itself, look the open ticket
  up outside the transaction (`db/004:498`) and link to it later (508-521): a ticket that
  is closed in between is linked to, counted on and named by the occurrence, while the
  problem has no open ticket any more. `OpenTicketLive` is about that column only.
* `db/002:134-162`: two first references of a day race. The loser's key violation
  dooms a capture's transaction under `XACT_ABORT`, so that capture is lost, though
  the comment at 145-147 takes it for success; the model counts these in `doomed`.
* `db/002:97-99` says the procedure enlists in capture and ticket transactions; the
  ticket procedures call it before theirs, so a ticket that fails wastes its number.
* `db/004:444-447` names four columns for the dead letter and supplies three values.
* `db/004:762-768` subtracts the pause that just ended twice.
* `db/001:204`, `db/003:190`: nothing enforces `reopenWindowDays`; `cancelled` has
  no way out in the seeded workflow.
* After a close and a recurrence `TriageState` stays `resolved`.
* `usp_Fingerprint_Triage` uses an undeclared `@ChangedByUserProfileID`.

In the browser's transport: errors raised while a report is in flight are dropped
(`erp-error-reporter.service.ts:60-77`); a page hidden during a request whose entries nobody
awaits loses an error raised meanwhile (the splice takes it); a second crash right
after a restart loses what the first left (`restoreQueue` deletes the key first); a
write to localStorage that fails is swallowed (239, 245-247), so that a crash after it
loses what was not written, against 39-40 ("so the error that killed the tab still arrives
after the reload"), and a page that ends after it leaves an older queue, whose entries are
sent a second time; two
tabs overwrite each other's stored queue; throttled or failed entries of an
answered batch are not sent again; a beacon may carry 51 entries of which the
server takes 50; a 204 counts as a failure and is retried without end. The
terms of `Harmless` are these.

In the hooks and the dialog:

* an ignored error, or one raised while a report is in flight, gets the plain
  dialog of an unreachable server; the result with the reference that may come
  later is dropped because a dialog is open.
* the plain dialog (`erp-global-error-handler.ts:44-56`) has no fingerprint, so it is not
  held back by the suppression and does not start it: a grid that fails every 5 seconds
  while the server does not answer prompts every 5 seconds, against
  `erp-error-notification.service.ts:24-26`. `RepromptsArePlain` says that nothing else does.
* an uncaught error whose report never returns (`TransportHidden`) ends in nothing on the
  screen; those after it are declined and get the plain dialog. `UserIsTold` says so.
* the `ErrorHandler` passes a component and the window listener does not: a
  rejection that reaches both makes two problems. `HooksAgree` therefore speaks of
  failed calls; and not of those without an answer (status 0), whose layer is
  `angular` and whose fingerprint has the screen in it.
* the broken rules a caller passes enter the signature at every layer
  (`fingerprint.ts:184`), and a response passed as `httpError` describes the error in place
  of its own (`erp-error-reporter.service.ts:103`): a helper that passes either
  (`ErpReportOptions`, 24-39) makes a second problem of a failure another hook reports too.
* for `min` and `max` a form's error keeps `actual`, which is the number that was entered
  (`erp-form-error.service.ts:222`), although "The VALUE is never included" (179) and
  "Validation values are never sent" (`erp-error-reporter.service.ts:113`).
* beyond six wrappers `Classify` unwraps again what `buildEnvelope` unwrapped, and an
  HTTP failure found only then is classified as one but reported without its URL.
* the envelope's correlation id is the one at the time of the failure, so a
  navigation between request and failure breaks the join.
* `redactObject` keeps array elements and dates below keys that are not allow-listed.
* `erpReportBusinessRule` documents severity `low` and gets `medium`; the
  `customData` of `erpReportHandled` is overwritten by `...options`; `silent`,
  `notifyOnSeverities` and `activeComponent` are read or set by nothing.

On the pages:

* a text typed into the search box without Enter goes along with the pager.
* a reply typed for one ticket is sent to the ticket opened meanwhile by an answer;
  what is typed while a reply is on its way is cleared by its answer.
* a failed whoami leaves what was drawn; a move to `assigned` names agent 20001.

## 7. Plan

Done: the ticket lifecycle with its audit trail and notifications and the outbox, each with
its promise, the transport, reference numbers, the throttle, the browser's hooks, the
dialog, redaction and forms, the support console, the list and the reporter's panel,
each with proofs.

Left:

1. Composition: the outbox of `TicketLifecycle` as the `Enqueue` of
   `NotificationOutbox`; the browser's at-least-once delivery into `CountersExact`.
2. `TicketMetrics`: a clock over `MoveTicket`; active minutes against the sum of
   the intervals in the trail.
3. `CaptureLocks`: the lock order of capture and status change.
4. Retention, once its archiving can run.
