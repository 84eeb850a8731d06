# TLA+ models of Visonaut

Visonaut compares the screenshots of a workflow run with an accepted baseline,
asks reviewers about the differences, reports the result on a required GitHub
check, and moves the baseline when a run of `main` is approved. It runs as
Cloudflare Workers over one D1 (SQLite) database, R2 object stores and the
GitHub API. A D1 batch is atomic; everything between two batches is not. Two
Workers, a Worker and a page, or a Worker and a late GitHub request can always
meet there, and that is what these models are about.

Paths below are relative to the root of the repository.

## Inventory

| Part | State it keeps | Operations | What is hard | What makes it correct |
| --- | --- | --- | --- | --- |
| Status delivery (`packages/service/src/work.ts`, `run-status.ts`, `apps/web/src/operations/checks.ts`, `packages/security/src/checks.ts`) | `work_checks`, `work_status_outbox` | touch, prepare an intent, claim, read, mark, PATCH, settle, lock, release | overlapping passes, lost answers, stopped Workers, a PATCH that lands late | one request at a time; the check shows results in order; the newest one ends on it |
| Pre-run checks (`apps/web/src/api/pre-run-checks.ts`) | `pre_run_checks` | claim, search, mark, POST, adopt | signed requests and deliveries create the same check, and nothing does by the clock; the candidate moves meanwhile | one check for each identity |
| Signed attempts and reruns (`api/pre-run-attempts.ts`, `pre-run-plan.ts`, `pre-run.ts`) | `pre_run_checks`: the attempt, the Plan and the fence of a check | bind, fence, close the old check, record or inherit a Plan, settle the end of a workflow | requests of two attempts and a late delivery at a time; a rerun takes over a check that a pass is writing; a Plan that ran again | one open check of a commit; no pass without the Plan of its own attempt; an ended attempt leaves no open check |
| Review commands (`service/src/review-commands.ts`) | rows, decisions, `visonaut_commands`, revisions | decide, approve a run, Undo | retries, concurrent commands, Undo after later decisions | each command once, on what its page showed |
| Review queue (`operations/review-queue.ts`) | `work_tasks` | admit, claim, call the service, receipt, give up | leases that end under a running consumer | order of a page; a receipt for each decision; receipts that are true |
| Main runs and the baseline (`service/src/run-admission.ts`, `local-comparison.ts`, `baseline-promotion.ts`, `run-retirement.ts`, `retention.ts`, `operations/promotions.ts`) | projects, runs, comparisons, snapshots, promotions, leases | select a reference, reserve, seal, compare, finalize, prepare, verify, promote, cancel, retire a run and a replaced baseline | a baseline that moves under open runs; passes that overlap or stop | one line of baselines, each reviewed against the one before |
| Staged submissions (`api/workflow-owned.ts`, `workflow-evidence.ts`, `workflow-materialize.ts`, `workflow-reconcile.ts`) | `ingest_staged_runs`, pages and images in the quarantine | begin, declare, upload, index, submit, materialize | retries of each request, stops midway, a newer attempt | exactly one complete run for a submission |
| Retention (`service/src/retention.ts`, `operations/retention.ts`, `snapshot-retention.ts`, `api/workflow-retention.ts`) | `work_retained_runs`, `work_retention_pins`, deletion leases | pin, release, retire, delete pages of objects | deletion is not atomic with the database; pins appear meanwhile | nothing that a baseline or an open comparison needs is deleted |
| Webhooks and missed deliveries (`api/webhooks.ts`, `operations/github-deliveries.ts`) | `github_webhook_delivery`, cursors | persist, process, replay, walk, ask again | lost, repeated and reordered deliveries | each delivery that can start work is processed |
| Pull request comments (`operations/comments.ts`) | `operations_pull_request_comments` | claim, find, POST or PATCH | lost POST answers, a lease that ends | one comment, with the newest result |
| Closed summaries (`operations/closed-summary.ts`) | `visonaut_closed_summaries` | prepare, digest, finish, prune | steps over several passes | a summary before its detail is pruned |
| Review page (`apps/web/src/review/use-review-session.ts`, `client.ts`) | pending decisions, receipts, the model of the page | decide, poll, refresh, undo | answers in any order | the page never shows a refused decision as saved |
| Command line client (`packages/cli/src`) | none that lasts | discover, compare, upload, submit | retries of writes | a submission that ends |
| Access (`packages/security/src`) | sessions, a cache of permissions | verify, authorize | stale permissions | writes ask GitHub |
| Comparison of images, protocol, Playwright integration (`packages/compare`, `protocol`, `playwright`) | none | pure functions | numeric edges | |
| Alerts and recovery (`operations/failure.ts`, `recovery.ts`, `staged-alerts.ts`) | `operations_events` | record, resolve, sanitize a restored database | | alerts follow the state |
| Interface, dashboard, read APIs, tooling, `docs/history` | none | | | |

How they meet: a review command, a promotion and each change of a run touch the
status (`touchRunStatusStatements`), which the status delivery turns into a
PATCH. The queue calls the review commands; the promotion waits for the queue
and reads the review; the promotion invalidates every other open main review.
Retention follows the pins that comparisons, reviews and promotions set. All of
them meet in rows of D1, and guard their batches with `assertion` statements on
the revision of the project and of the run.

## Modules

A module has one action for each batch, or each read whose result is used after
an await. A local of a call is a field of its record in `pass`, `call` or
`worker`. A definition whose comment starts with "Mutant" is the definition
after it with a plausible mistake; no specification uses it.

**`StatusDelivery`** is the delivery of the result of one run. `revision` and
`result` are the revision of the project that last touched the run and what it
says; `desired`, `delivered`, `lease`, `leaseLeft`, `requestStarted` and
`ambiguous` are the columns of `work_checks`; `outbox[r]` is the row of
`work_status_outbox` for revision `r`; `shown` is what GitHub shows; `writes`
are the PATCH requests that can still change it. `ChangeResult`, `CloseRun` and
`PrepareIntent` are the rest of the service as the delivery sees it.
`Select`, `ClaimStatus`, `BeginDelivery`, `ReadCheck`, `RecheckIntent`,
`MarkAndSend`, `Answered` or `RequestFails`, and `SettleStatus` are the steps of
a pass through `deliverGitHubStatuses`, `deliverStatus` and `sendGitHubCheck`;
`ReadStatusLock`, `CompareShown` and `ReleaseStatusLock` are `releaseLock`;
`LockExpiredRequest` and `SettleAbandoned` are `reconcileStatus`; `Fence`,
`ReadMark`, `CloseCheck`, `VerifyClosed` are `bindWorkflowCheck`. `Crash` stops
a Worker anywhere. A PATCH lands or is lost at any time within `WriteTime` of
its mark, whether or not its sender still waits.

**`CheckFeed`** is what readers of the check are promised: it shows results in
the order of their revisions, and nothing after it was closed.
`StatusDelivery!ImplementsFeed` is the refinement.

**`CheckIdentity`** is what the two protocols that create checks promise: GitHub
is asked once for an identity, and a row that is done names its check for good.
`CheckCreation!RunKeepsOneCheck` and `PreRunCheckCreation!CandidateKeepsOneCheck`
are the refinements. A row may be done when the behaviour begins, because each
initial state of the run starts one protocol and leaves the other one over.

**`PreRunCheckCreation`** is `ensureStoredCheck`: the columns of a row of
`pre_run_checks`, the checks that GitHub has, the POST requests that are on the
way, and calls at their places. The signed requests of an attempt
(`ensureSignedAttemptCheck`) and the deliveries that bind one
(`bindWorkflowCheck`) call it: `recordPreRunCandidate` passes `createCheck: false`,
and no scheduled pass comes back to a row. `CandidateChanges` is a `main` or a
pull request that moved: `stillCurrent` fails from then on.

**`WorkflowAttempts`** is one commit of `main` through the attempts of its
workflow. `rows[g]` is the row of `pre_run_checks` of generation `g`, with the
attempt that bound it and its Plan; `checkOf[g]` is what its check shows;
`work[a]` is what GitHub knows of attempt `a`: whether it ended, what its Plan
selected and in which attempt that Plan really ran, and whether its Submit
succeeded. A signed request (`SignedCall`, `EnsureCheck`) and the delivery of the
end of an attempt (`DeliverEnd`, `Candidate`) both go through `Bind` to
`InsertNext`, which is `bindWorkflowCheck`, and `Inherit`, which is
`inheritVisualPlan`; then a Submit records its Plan (`RecordVisual`), a report
completes the check (`RecordNone` to `CompleteNone`), and a delivery decides
(`Decide` to `StoreFailed`) or, when `main` moved, retires the attempt
(`SettleSuperseded` to `FailRetired`). `Send` and `Land` are the outbox as this
code sees it: a mark that it must wait for, and a write at the end of it.

`Create` is `ensureStoredCheck` as both of its callers reach it. A row is `posted`
from the mark of its POST until its `check_id` is stored, and `stored` until it
is active; both are `creating` or `ambiguous` in the code. `PostLands` makes the
check, whether or not its request still waits. So a request can stop between any
two of these, and `main` can move there; a row of the next attempt is bound before
its check is made. The claim, its lease, and the search that makes a second POST
impossible are in `PreRunCheckCreation`; here a generation is posted once.

It takes the reads together that one decision is made from (the row, its run, its
check and its jobs in `Decide`).
Only push candidates of `main` are here. Progress deliveries bind as the
completed one does and settle nothing; they are left out. A job ends after the
answers to its requests, so an attempt does too.

**`CommitChecks`** is what the checks of one commit promise over all its attempts:
they come one after the other, each when those before it are closed; each belongs
to one attempt for good; only the newest is ever open; a closed one opens again
only for the result of its run; it passes with a run or without work to do; and an
attempt gets a run only under the newest check, while that is open.
`WorkflowAttempts!ImplementsChecks` is the refinement; a row has its check, and
its attempt with it, once GitHub made the check. That the checks come in the order of the
attempts is not promised: the slow delivery of an earlier attempt can make the
later check.

**`ReviewCommands`** is `applyReviewCommand`, `approveRun` and
`undoReviewCommand`. `request[c]` is the body of command `c`, with the revisions
that its page showed; `saved[c]` is its row of `visonaut_commands`;
`decision[r]` and `revision[r]` are the row of the comparison; `inForce[r]` are
the decisions of the row that are not revoked. A call goes from `Begin` (the
replay of a stored command) over its reads to `Commit`, one batch with all its
guards; a batch that fails, and one whose answer is lost, look for the stored
result again.

**`ReviewLedger`** is the abstract specification: a command is entered once, and
stands on its rows until another one or its Undo. `ImplementsLedger` maps it.

**`ReviewQueue`** extends `ReviewCommands` with the rows of `work_tasks`: the
calls of the service are now made by consumers with a lease that may end at any
time, and a promotion tests that no task is open.

**`ReviewSession`** is the page: `useReviewSession` with `client.ts` and
`navigation.ts`. `command[d]` is what it sent for decision `d`; `queue` is the
queue of its command session, with the place of each response; `page` is its
saved model and `Shown` the model with the decisions that wait (`pendingReviewModel`);
`read[k]` is a read of the model, which takes the revision of the run (`ReadRun`)
and then the rows (`ReadRows`) before it lands. `Enter` and `StartLoop` are the
first half of `save`, `TakeSaved` to `TakeConflict` its loop, `Post` and
`ReadReceipt` the two requests of a decision, `Refresh` and `BeginUndo` with
their answers the buttons, `BeginRead` and `Land` the route and the read on
return. `late` has the requests that the page gave up and that can still arrive.
The service is reduced to `rowsAt`, the rows at each revision of the run, and a
task for each decision (`Process`); `ReviewCommands` and `ReviewQueue` are its detail.

**`Baseline`** is the life of the main runs of a project. `run[r]` joins the
staged attempt, its run and its comparison; `snapshots`, `promotions` and
`leases` are tables; `pass[p]` is a pass of `promoteBaselines`. From
`SelectReference` to `FinalizeComparison` it is the path of an attempt;
`AdmitDecision`, `SaveDecision` and `RefuseDecision` are a review, reduced to "each
change is approved"; `PickCandidate` to `ReleaseLease`, and `PickInterrupted`,
`CancelPrepared`, are the two loops of a pass. `Promote` moves the baseline,
closes its own run, and invalidates every other open review; `RetireReplaced`
closes those that its commit replaces. `RetireSnapshot` is what the retention does with a
baseline that was replaced and that no open review shows (`retireSourceBaselines`,
`retireSnapshot`): its snapshot stays `accepted` and can not be a reference again
(`eligible`), and its run becomes `superseded`. The delays of that pass are left out,
so that it may come at once, and so are the pins of people and of other passes,
which only delay it.

**`BaselineHistory`** is what the baseline of a project promises: one line of
accepted runs that only grows and never goes back to an older commit, each of them
approved against the end of the line as it was then; and with each of them, every
other approval is void. `Baseline!ImplementsHistory` is the refinement: the line is
`promotions`, and the approvals are those of open runs with a comparison that is
ready and whose every change is approved, each with the run it was compared with.

**`StagedRuns`** is the staged submission of the attempts of one workflow run.
`client[a]` is the Submit job; `request` are requests whose objects are written
and whose batch is not, so that a request can settle late, twice or never;
`stage[a]` is the row of `ingest_staged_runs` with its jobs, images, counters
and deletion lease; `objects`, `files` are the originals and the quarantine;
`run[a]` is the run that a sweep makes of it. `SelectStage` to `Finish` and
`CountFailure` are a sweep (`reconcileStagedWorkflows`,
`materializeWorkflowRun`); `ClaimDeletion` to `DeleteRows` and `Release` are a
pass of staged retention. The state of a baseline is reduced to `stale`.

**`Submissions`** is what those who submit are promised: a stage is collected until
it is claimed for deletion, and is gone in the end; an attempt becomes a run only
before that claim and with all its originals, which are never erased then; only
the newest attempt does, it ends the runs before it, and only it is sealed.
`StagedRuns!ImplementsSubmissions` is the refinement.

**`Retention`** is which images are kept. `pins` are the rows of
`work_retention_pins`; `uses[r]` are the runs whose images the capture list of
`r` names. From `ReadCandidates` to `Promote` the actions are the batches of
the service that add and take pins; `ReleaseReferences`,
`RetireSourceBaseline` and the claim, page and completion of a deletion are the
housekeeping. All batches of one call of `packages/service` are one step,
because they read the project and assert its revision.

**`ImageStore`** is what the store of images promises to the runs that name images
of each other: a run takes only images that are kept, and once it gave up its own it takes
nothing more; an accepted run offers its images to later ones until it is
retired, and then never again; what nobody needs or offers can be marked, goes page by
page only then, and does not come back. `Retention!ImplementsStore` is the
refinement: what a run needs is `NeededBy`, and it offers its images while its
snapshot is eligible. Pins are not in the promise; they are how it is kept.

**`GitHubDeliveries`** is GitHub's log of webhook attempts, the pass that walks
it (`ReadNewest`, `ReadOlder`, `StoreCursor`, `SettleArrived`, `Charge`, `Ask`), and the stored deliveries that `reconcileWebhooks` takes in
their turn. What processing a delivery does is the business of the other
modules; here it succeeds or fails.

**`CheckCreation`** is `createChecks`: the row of
`operations_check_creations`, whose claims have a token. **`PreRunCheckCreation`**
and it are two answers of this code to one problem, and make one promise: one check for each identity.

**`PullRequestComments`** is `deliverPullRequestComments`: `comment` is the row,
`shows` are the comments on GitHub with the status in their bodies.

**`Protocols`** extends the four modules that talk to GitHub and share no state, and
states what holds of all of them.

`MC*` modules give the constants and initial states of the runs. `MCProtocols`
composes the four modules of `Protocols`: each initial
state starts one of them and leaves the others over, so that the number of
states is their sum. `MCChecks` composes `StatusDelivery` and
`WorkflowAttempts` the same way, and `MCReview` `ReviewCommands` and
`ReviewSession`.

The theorems are in modules of their own: `StatusDeliveryProofs`,
`CheckProofs` (of `WorkflowAttempts`), `ReviewProofs` (of
`ReviewCommands` and `ReviewQueue`), `SessionProofs` (of `ReviewSession`),
`BaselineProofs`, `StagedRunsProofs`, `RetentionProofs`, and `ProtocolProofs` (of
`Protocols`, that is of `PreRunCheckCreation`, `CheckCreation`, `GitHubDeliveries`
and `PullRequestComments`).

## Runs

Each run finishes; no bound cuts a state off except those named here.

| Run | What it asks | Instance |
| --- | --- | --- |
| `ChecksSafety` | requests, locks, leases and the fence; the feed is implemented; the promise of `CommitChecks` is kept; a check passes without a run only by its own Plan | 2 passes, 2 revisions, 2 sends; 2 requests or deliveries at a time, 2 attempts of a workflow, 1 stop |
| `ChecksLiveness` | the newest result settles; a listed lock is released; an ended attempt leaves no open check, unless its creation was broken off | 1 pass, 2 revisions, 2 sends; 1 request or delivery at a time, 2 attempts of a workflow, 1 stop |
| `StatusDeliveryLock` | is every lock released? No (finding) | the delivery of `ChecksLiveness` alone |
| `Protocols` | one check for a candidate and for a run, named for good, and a created check is adopted while calls come and the candidate is current; redeliveries are bounded and each delivery settles; one comment, which ends on the newest status | 2 calls, creators, scanners or senders; a lease longer than a call; 2 deliveries, one of which may be impossible to process; 2 statuses |
| `Review` | Undo, order, promotion, the ledger; the page shows a model that the run had, and a decision reported as not saved is not saved | 3 commands, 2 rows in one screenshot, one of them with a copied approval; a page with 3 decisions on 2 variants, 1 other decision, 2 faults, 1 read |
| `ReviewQueueSafety` | concurrent calls of the service; order of a page | 2 consumers, 2 decisions, 2 attempts |
| `ReviewQueueLiveness` | each decision gets a receipt | 1 consumer, 1 direct caller |
| `BaselineRuns` | open reviews; an accepted run stays so until its replaced baseline is retired; the promise of `BaselineHistory` is kept | 2 attempts of a commit and a run of a later one, of which one is uploaded or compared at a time; 2 passes; decisions before revision 4 |
| `BaselineLiveness` | a passed run is promoted, a prepared snapshot is settled | 1 run, 2 passes, one stop, decisions and Undo up to revision 5 |
| `StagedRuns` | originals of a run are kept; only the newest attempt seals; the promise of `Submissions` is kept | 2 attempts, 2 workers, 1 image, 1 fault |
| `StagedRunsLiveness` | each submission settles; each old stage is deleted | 1 attempt, 1 worker, 2 faults |
| `Retention` | needed images are kept, a chosen reference stays usable, garbage goes; the promise of `ImageStore` is kept | a baseline, a later main run, a pull request run, 2 pages, 2 workers, 1 fault |

Why the bounds are enough: every race in this code is between two parties and a
row, so two passes, calls or consumers meet in each pair of places; a third one
only repeats a guard that the second already met. Two revisions make an older
and a newer result, three commands a decision, its replacement and an Undo, two
attempts a retry and a last attempt, two pages a first and a last one, and
three runs an owner, a user and a user of the user. Times are ticks, and only
their order counts: a lease, a write and a release delay of one tick give every
order that the guards distinguish.

Some runs start in more than one state, to reach depth without the product of
everything before it:

- `StagedRuns`: one attempt from its first request with a fault; a staged rerun
  beside a submitted first attempt without faults; a last attempt that uploads
  while the first one, compared and old, is deleted. `Narrow` lets a stage get
  old only while the last attempt has no stage yet: the passage of days while a
  job still runs is the third initial state.
- `Retention`: all runs without a fault, or each of the later runs alone with
  one. With all runs, `Narrow` lets a capture list name an image of every run
  that it can; shorter lists need fewer pins and are covered by the runs alone.
- `Review`: the commands, or the page. For the page, `SessionBounds` names which
  bounds go together: three decisions with nothing from outside (they meet each
  other, Undo and each order of answers); two decisions with one event (a
  decision of another reviewer, a fault, or a read on return); two of one
  variant or of the run with two events, when they approve; two of one variant with
  all events but reads and Undo. `DecisionsInOrder` only names the decisions in the
  order in which they are made.
- `BaselineRuns`: `MCSpec` has two halves. In one, comparisons keep the approval that
  they began with, no run fails, and reruns and two overlapping passes meet replaced and
  retired baselines (`Undecided`). In the other, reviewers decide and undo, on the two
  runs without the rerun, with one pass at work at a time (`OneByOne`). Decisions beside
  two passes are in `BaselineLiveness`; all of it at once is left to the theorems.
- `ChecksSafety`: the delivery, or the attempts. `Pairs` leaves out a result in
  progress after another one in progress (one pass meets that in `ChecksLiveness`),
  and two requests or deliveries at a time once one has stopped and `main` moved (the
  theorems have no such bound).
- `Protocols`: a delivery from its first attempt; one asked for once, with two
  passes; one that failed for good under a newer entry of the log; one stored
  behind a delivery that always fails.
  Of two passes, one may stop between its charge and its request, where a stop leaves
  something behind; a single one may stop anywhere.

The bounds of actions are `MaxRevision` (the revisions of the result in
`StatusDelivery`, of the project by other writers in `ReviewCommands`, and the
last revision of a run at which a decision is made in `Baseline`), `MaxPosts`
(above what the property allows), `MaxStatus` (statuses of a run), `MaxFaults`,
`MaxStops`, `MaxHalts`, `MaxOthers` and `MaxReads` (other reviewers, reads, lost answers, failed reads, lost originals, and Workers that
stop), and `LastAttempt` (attempts of a workflow; a third one meets the second
as that met the first). `MaxAttempt`, `Pages`, `PageSize`, `Limit`, `Burst`, `MaxRequests`,
`MaxClaims`, `MaxAttempts` and `MaxActive` are sizes and limits of the code,
made small. Symmetry is used in safety runs only, over passes, calls and
commands and variants, which no definition orders.

`CHECK_DEADLOCK FALSE` is said where the modelled part really ends: every
command is settled and the run is closed, the last attempt of a workflow is
settled, a page has no decision left to make, every attempt is accepted, closed or deleted, everything that nobody needs is gone, or a protocol is over.

### Fairness

- `StatusDelivery`: the scheduler runs passes at least every five minutes, so
  time advances and a pass takes the steps that stay possible (weak fairness). A
  pass may stop and a read may fail again and again, but not for ever: the claim,
  the read of a lock and its release are strongly fair. No fairness is put on
  `Crash`, on failures, or on touches.
- `WorkflowAttempts`: a request that started goes on until it ends or stops, a
  PATCH that was marked ends, and `reconcileWebhooks` comes back to a delivery
  that waits. Nothing is assumed of people, jobs or signed requests, nor of the
  landing of a POST.
- `PreRunCheckCreation`: a call that began goes on, time passes, and the trouble of
  GitHub or of the Worker ends. Nothing makes a call begin, and the candidate may
  change at any time and stays changed. So `CreatedIsAdopted` has its assumption in
  its statement: it speaks of behaviours in which calls come again
  (`[]<>Called`), until the candidate changes.
- `CheckCreation`: the trouble ends, leases end, and passes go on, because each
  scheduled pass starts with `createChecks`. While the trouble lasts, any request
  may fail.
- `GitHubDeliveries`: GitHub makes the attempts that are due, waits end, some
  pass goes on. Processing of a delivery that can succeed is strongly fair,
  because its row comes to the head of the list again and again.
- `PullRequestComments`: passes come and leases end; faults are bounded.
- `ReviewQueue`: consumers run, leases end, dead tasks are given up. Nothing is
  assumed of answers: a call may fail each time, and then the task is dead.
- `Baseline`: passes run and leases end; strong fairness for one candidate is
  the cursor of `promotionPage`, which passes over every row; verification of
  originals makes progress against a limit of objects for each pass; admitted
  decisions leave the queue, which `ReviewQueueLiveness` shows.
- `StagedRuns`: jobs and requests end, days pass, a sweep that selected a stage
  goes on. `SelectStage` and `ClaimDeletion` are strongly fair: a lease or a
  newer failure closes their guard, and the scheduler comes back after each.
- `Retention`: housekeeping goes on. `RetireSourceBaseline` is strongly fair,
  because a promotion that is prepared and cancelled again and again opens and
  closes its guard.

## Proofs

Each theorem holds for every value of the constants that its module's `ASSUME`
allows; TLC evaluates these in a run of the module.

`StatusDeliveryProofs`, for every number of passes, revisions and attempts, and
every timing with `WriteTime <= ReleaseDelay` (15 seconds of a request against
the two minutes of the code):

- `DeliveryCorrect`: `DeliveryInv` is inductive. `OneWriteInFlight` alone is
  not: a lock is released from what GitHub shows, while the sender may be gone.
  The argument is time: `WriteEndsInTime` says that a request on the way ends
  before the lock of its lease may be released; `WriteHoldsLease` that its lease
  is held with the mark until then; `LocalsOK` that a pass which still believes
  in its lease has the token of a claim that was counted, so that two claims
  never share a token; `Fenced` that past the read of the mark a rerun is alone.
- `TypeCorrect`, `OneRequestAtATime` and `RerunNeverRaces` follow from it.
- `DeliveryImplementsFeed`: each step is a step of `CheckFeed` or a stutter.
  Only `WriteLands` and `ChangeResult` are steps of the feed; that a landing
  request is not older than what is shown is `LeaseIsCounted`.
- `SightsCorrect`: `ShownInv`, beside `DeliveryInv`, is inductive, and
  `CompleteStaysShown` (`CompleteIsShown`) follows. A row is complete by what a
  pass read of the check some steps before. That this is still shown needs that
  no other claim has its token (`ClaimsDiffer`), that no request is left that
  could change the check (`SightsOK`), and that no newer row is complete while a
  lease is held (`LeaseIsSending`).

`RetentionProofs`, for every set of runs and workers and any number of pages
and faults:

- `InvariantHolds`: whoever needs images pins them (`BaselinePinned`,
  `CopyPinned`, `StagePinned`, `OpenPinned`), only live images are pinned
  (`PinsAreLive`), and live images are whole (`LiveIsWhole`). `NeededIsKept`
  alone is not inductive, because nothing in it stops a claim of images that are
  needed: the claim asks for pins, not for need. `Shape` carries what a row may
  be beside its pins: that an attempt has its staged row until it has a
  comparison, and that what a run names is fixed before others can name it.
- `NeededIsAlwaysKept`, `ReferencesStayEligible` and `TypeCorrect` follow.
- `StoreStays`: beside it, `StoreInv` is inductive: a run that is not admitted has no
  images, a run never comes to need itself through its reference, and of what is deleted
  no page is left.
- `RetentionImplementsStore`: each step is a step of `ImageStore` or a stutter. The
  batches that add pins are `Take` (`OneTakes`), those that take them are
  `GiveUp`; `Promote` is `Offer`, and the retirement of a snapshot `Withdraw`. A claim
  asks for pins only, and is `Mark` because all who need or offer images pin them
  (`NeededIsPinned`, `OfferedIsPinned`). A second deleting pass, and one that outlived
  its lease, erase what is marked or nothing (`DeletionStep`).

`CheckProofs`, for every number of attempts, requests and deliveries at a time,
and stops:

- `AttemptsCorrect`: `AttemptInv` is inductive. Neither property is, since a
  request writes on what it read some steps before. `PlaceOK` says what it may
  still rely on at each place, and `Kept` why: no step makes a row pending again,
  gives one that left `active` a new sender, takes a row from its attempt, or
  changes a Plan without visual work. So a request that comes to the INSERT of
  the next generation knows that the one before is settled and has no sender that
  could open its check. `RowsInLine` says that generations come one after the
  other and that only the last one is pending or sent for; `PlansCarried` that
  attempts with one source have one Plan, which is what `inheritVisualPlan`
  relies on; `NonePlanned` that the Plan of a row is the Plan of its attempt.
- `OneCheckIsOpen` (`OneOpenCheck`, which the runs check as a part of
  `ImplementsChecks`) and `PassesByItsPlan` follow.
- `LineStays`: beside `AttemptInv`, `LineInv` is inductive: an attempt is bound to
  one generation (`BoundOnce`), a later one only follows what is fenced
  (`QuietBefore`), a check is made only for a row whose POST was marked, and a row
  that names one or was written has it (`ChecksMade`), and a run
  has visual work (`RunsNeedWork`).
- `AttemptsImplementChecks`: each step is a step of `CommitChecks` or a stutter. All
  actions together change a row and its check in five ways only (`StepEffect`: a row
  is edited, bound or inserted, its check is created by a POST that lands, or it is
  patched with a result); each
  of these, under the invariant, is one step of the promise or none (`LineStep`).

`ReviewProofs`, for every number of rows, commands, reviewers and concurrent
calls, and any bound on the revisions of other writers:

- `InvariantHolds`: the service compares revisions where a reader thinks of
  decisions. So none of the properties is inductive without what revisions
  stand for: while a row has the revision that a command gave it, that command
  decides it (`RevisionNamesDecision`), and while it has the revision that a page
  sent, it has the decision that the page showed (`RequestsOK`). `CallsOK` says
  what a call read still holds when it comes to its batch. Because a run approval is guarded by
  a number of rows only, `SavedAsSent` and `DecisionsAreSaved` are needed to see
  that this number means all of them (`UndoIsWhole`).
- `OneDecision`, `CommandOnce`, `PromotedStaysAccepted` and `DecisionsAreShown`
  follow.
- `ReviewImplementsLedger`: each batch whose guards hold is one entry of
  `ReviewLedger` (`DecideIsEntered`, `UndoIsEntered`); the end of a review is
  `Close`; every other step is a stutter.

And of `ReviewQueue`, for every number of consumers, attempts and leases that end
at any time:

- `QueueInvariantHolds`: `QueueInv` is `ReviewInv` with the tasks. A consumer calls the service only after it saw the receipt of the
  predecessor (`CallsFollow`), and no step takes a receipt away.
- `PageOrder` (`InPageOrder`), `QueuedOnce` (`EachCommandOnce` and
  `PromotedIsAccepted`) and `QueueImplementsLedger` follow: each step of a
  consumer is a step of a call of `ReviewCommands`, or changes tasks only.

`SessionProofs`, of `ReviewSession`, for every finite set of screenshots, any number
of decisions of the page and of others, any delay, loss and order of answers
(`NoDecision` is no decision):

- `SessionInvariant`: `SessionInv` is inductive. None of the properties is, since
  the page acts on answers of states that are gone. Receipts name what their
  decision wrote while the other rows stayed (`ReceiptIn`); each model that the
  page has, or that is on its way, is one that the run had, at its revision or
  row by row later (`Had`); each decision of a queue names the one before it and is
  not saved before any that precedes it (`QueueIn`); and a read that confirms the
  loop or an Undo began after the receipts it must contain (`ReadIn`).
- `PageStaysReal`, `SavedStaysNewest` and `UnsavedStays` follow, which are the
  first parts of the two properties.
- `ShownStaysReal` (`ShownIsReal`): what the page shows is a recursive function
  over the decisions that wait (`Shown`), and the queue has no bound. The proof
  takes the first of them that would show a row behind the page
  (`LeastIsIn`, the minimum of a set of numbers), so that no induction over
  an operator is needed.
- `RefusalsAreTrue` (`RefusalIsTrue`): a page that is alone is never refused.
  This compares a decision with rows that do not exist yet when it is sent. While
  no other decides and nothing failed, `AloneInv` says that there is a course of
  rows: those the run had, and behind them those that the queue is going to write
  (`Course`). Each decision of the queue is of the rows at its place on the course
  (`Writes`); what the page shows is the end of it, so that a new decision
  prolongs it (`ShownIsCourse`); and no read puts the page behind what came before
  its queue (`PageAt`).

`BaselineProofs`, for every set of main runs with their commits, workflows and
attempts, and every number of promotion passes:

- `BaselineInvariantHolds`: `BaselineInv` is inductive. `BaselineLine`,
  `OpenRunIsCurrent` and `AcceptedIsFinal` compare what a pass wrote with a
  baseline that it read long before. Three facts hold the ends together: what
  names a baseline is not written again once a run is selected, a run that a
  promotion or its retirement closed (`Closed`) changes only its revision and its
  state (`ClosedKept`), and a call that still
  finds the revision that it read has the baseline that it read (`RowOK`). Each
  promotion closed a run of its own, and each accepted snapshot has one
  (`Promoted`, `AcceptedPromoted`). `Standing` says which of them are retired: a run
  is `accepted` for as long as its snapshot can be a reference, and that of the
  project always can.
- `BaselineIsALine` (`BaselineLine`, a part of `ImplementsHistory` in the runs),
  `OpenRunsAreCurrent` and `AcceptedStaysFinal` follow; in the last one, a run has one
  accepted snapshot only (`OneSnapshot`), so that the retirement of a snapshot never
  takes the run of another one back.
- `BaselineImplementsHistory`: each batch is a step of `BaselineHistory` or a
  stutter. `Promote` appends one run; that it was approved against the
  end of the line, and not against the baseline that its pass read, is what the
  invariant says of a pass that still finds its revision. Each other batch adds one
  approval, or takes some back; the retirement of a snapshot is none of these.
- The assumption on the constants is that the runs are finite, and that `None` names
  no snapshot.

`StagedRunsProofs`, for every number of attempts, sweeps, retention passes,
requests on their way, images and faults:

- `StagedInvariantHolds`: `StagedInv` is inductive. A stage goes one way: a
  complete index has all its originals stored, retention claims a stage only when
  its job and its requests are over, and a deletion reads whether there is a run
  after its claim, when none can be admitted any more (`AttemptOK`, `WorkerOK`).
  `NewestIsActive` says that an active run is of the newest admitted attempt.
- `OriginalsAreKept`, `DeletedStaysGone` (`DeletedIsGone`, a part of
  `ImplementsSubmissions` in the runs) and `NewestSeals` follow.
- `StagedImplementsSubmissions`: each step of the jobs, requests, sweeps and
  retention passes is a step of `Submissions` or a stutter, from stages of any age.

`ProtocolProofs`, for every number of passes, calls, candidates, claims and
deliveries:

- `CommentClaims` (`CommentInv`): the pass with the claim of a comment is alone,
  and posts only when no comment is marked. `OneCommentStays` follows.
- `CandidateClaims` (`PreRunInv`): a claim of a row that is not marked is of one
  call, and the rest of its lease and the age of that call make a whole lease.
  `OneCheckOfCandidateStays` follows, with the hypothesis `CallTime < Lease`: a
  call comes to its mark within the two minutes of its lease. The claim has no
  token, so this is needed (see Findings). With it each step is one of
  `CheckIdentity` or a stutter (`CandidateImplementsIdentity`).
- `ChargesCover` (`AskInv`): the requests that were made, and the different
  charges of those on their way, are never more than the attempts that were
  counted. `AskedStaysInBounds` follows.
- `StoredInOrder` (`QueueInv`, with `AskInv`): the two lists from which
  `reconcileWebhooks` takes deliveries name each stored one once and in one
  of them, whatever passes and arrivals overlap; a request on its way was
  counted; and a cursor names a place of the log. That taking a
  delivery from a list leaves each other one there once is proved of
  `RemoveFirst`, without recursion (`PlacesLeft`).
- `CreationCorrect`: `CInv` is inductive. `OneCheckOfRun` alone is not: a pass
  whose claim ended still runs towards its mark. `TokensDiffer` says that no two
  passes, late ones included, have one token, because each claim counts;
  `MarkIsFirst` that a pass before its mark which still has the token of the row
  meets a row without a mark; `FoundIsThere` that what a row is completed with
  is a check of GitHub.
- `OneCheck` follows, and `RunImplementsIdentity`: a step sends, or creates a
  check, or writes the row (`OneAtATime`), and no step takes back a complete row,
  because a pass that still has the token of the row finds it claimed
  (`TokenIsClaim`, `CompleteStays`). No assumption on time is needed: this is what
  the token buys, and what `PreRunCheckCreation` buys with `CallTime < Lease`
  instead.
- `EachStaysTyped` (`EachTypeOK`): the types of the four modules together, from their
  invariants, with the same hypothesis on the candidates.

Every safety invariant, action property and refinement that a run checks has a
theorem. Only model-checked are the liveness properties, since liveness and
`ENABLED` are out of the prover's reach.

## Findings

`StatusDeliveryLock`. A pass finds a locked check through the outbox row of its
desired revision. A touch raises that revision without a row; when the run
closes, or a rerun fences the check, before the row is written, the lock is
never listed, read or released. `apps/web/src/operations/README.md` promises
that each pass reads it.

Other things met while modelling, that a maintainer should know. No run checks
them:

- The claim of a pre-run check has no token, and the mark of its POST tests only
  the state of the row and its lease. With a call longer than its claim,
  `OneCheckOfCandidate` fails: a search that outlives the claim marks the claim
  of another call. The run assumes calls shorter than the lease of two minutes.
- A consumer of the queue that outlived its lease can save its decision after
  another consumer answered `concurrent_change` for it, and the last attempt can save
  its decision and stop before its receipt, so that the task ends dead. The comments
  on these answers say otherwise: `review-queue.ts:60-63` that "nothing of the decision is
  stored", and `:27-29` that "each attempt failed".
- A row of `pre_run_checks` is taken up only by a signed request or a delivery of its
  attempt. When these end, a check that was created without an answer stays
  open beside an `ambiguous` row; when the candidate changed, every later call ends
  in an error of `stillCurrent`.
- The creation of a check can be broken off so that no delivery closes it
  (`LeftBehind` in `WorkflowAttempts`; `EndedAttemptSettles` excludes these states).
  A rerun binds its row first; when its Worker stops between the POST and
  the UPDATE of `check_id` (`pre-run-checks.ts:198-222`), the completed delivery returns at
  `if (!candidate.check_id) return` (`pre-run-attempts.ts:1049`) and counts as
  processed. The check is open until a signed request of a rerun searches for it.
  When `main` moved, retirement throws each time: for a row that does not name its
  check, and for one that names it and is not active, which no call activates any more.
- A check of generation 0 whose creation was broken off has no attempt yet.
  A delivery then throws `check_pending` (`pre-run-attempts.ts:686-691`), passes over it or, when
  `main` moved, finds no check that the attempt bound. `EndedAttemptSettles` speaks of the checks
  that the newest attempt bound.
- The lease of a comment outlasts its call, so in the model a request has
  changed GitHub, or never will, when its sender goes on; a POST that lands
  later than that makes a second comment. A person who deletes a comment whose
  POST had no answer gets it again. When that answer is lost and the next status
  has no change, the pull request is not listed again; a listed status that a
  lost answer left stale stays. So `NewestWithoutFault` speaks of passes without
  faults, and the stronger `NewestIsShown` is not a property of a run.
- Sealing and comparing commit apart. A sealed staged run whose reference moved
  in between, or whose stage got a day old, has no way to its comparison
  (`Stranded`), until a newer attempt closes it.
- A pull request can select an older snapshot that the pass over old baselines
  retires between the read of the candidates and the batch of the selection. The
  batch checks that the images are live, not that the snapshot can still be a
  reference, so that the run can not be compared until a new attempt.
  `ReferenceStaysEligible` speaks of references that are eligible after it.

- Two processings of one completed delivery may overlap. When `main` moves
  between their reads and the later one stops between its fence and its PATCH
  (`retireBoundHistoricalCheck`), the earlier one finds the row `failed` and
  returns (`pre-run-attempts.ts:1061`), so that the delivery counts as processed
  and the check stays open. `EndedAttemptSettles` excludes this state, and its run
  has one request or delivery at a time.
- The delivery of the end of attempt 1 that is processed after attempt 2 started
  is historical (`pre-run-attempts.ts:975-990`). When attempt 2 then makes no
  signed request, its own delivery returns at line 1053, and the check of
  attempt 1 stays open until another attempt binds one.
  `EndedAttemptSettles` speaks of the check of the newest attempt.
- A signed request that still runs after its attempt ended can bind or open a
  check after the delivery settled. The model assumes that jobs wait for their
  answers, which a cancelled job does not.

## What is not modelled

Of the modelled parts: alerts other than `redelivery-exhausted`, shards of a
capture, merge group runs, historical comparisons, the legacy columns of
commands, the individual rows of a review in `Baseline` (they are in
`ReviewCommands`), the validation of a staged page against the reference, and
what the processing of the deliveries of pull requests and merge groups writes:
the attempts of `WorkflowAttempts` are of pushes to `main`, so the retirement of
superseded pull request attempts, which compares bases and merge commits before
it comes to the same fence, is left out, as is a workflow that a person
dispatched. Deletion of accepted snapshots is
left out: it copies the shape of the staged deletion in `StagedRuns`, with one
object for each page.

Of the review page: the selection and the focus, which follow the state; the
renewal of a review session; a comparison that is replaced, which starts the
page again; a baseline that moves under it, which makes the service refuse
(`DecidedAsShown`); and the receipt of a no-op, which the service no longer
writes. `ReviewSession` is safety only: its requests have no deadline that makes
them end.

Of the rest: pure reads, rendering, the interface, the comparison of pixels and the
verification of signatures have no shared state to explore, and most of the
lines of the repository are of this kind: the interface and the pages, tests
and fixtures, tooling, and the pure packages `protocol`, `compare` and
`playwright`.

## Plan

Done, in this order: the delivery of results, which the required check of every
pull request depends on; the review, its queue and the baseline; staged
submissions and retention, which give the baseline its runs and keep their
images; the protocols with GitHub; the attempts of a workflow on `main`; the
review page. Left:

1. Pull request and merge group candidates in `WorkflowAttempts`: a base that
   moves, a pull request that closes, and the retirement of their attempts.
2. `ClosedSummaries` and the pruning after them; historical comparisons; the
   permission cache; the pool of image workers.

Proofs left: theorems about the modules of this list.
