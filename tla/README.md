# TLA+ models of radhouse

Radhouse is a private web assistant for one owner.  The live product is
`src/radhouse/chat`: one web process (FastAPI, worker threads), SQLite files,
and the Hermes runtime behind HTTP (`runtime/hermes`), which gives the agent a
browser (`runtime/selkies`) and the owner a terminal.  An older task engine with
its Buzz channels and projects (`application/`, `channels/`, `domain/`,
`storage/`) is retained.  This directory models the parts whose correctness
depends on order, failure or time.

## The system

| Part | State | Operations | Talks to |
|---|---|---|---|
| Chat store (`chat/store.py`) | `turns`, `conversations`, `document_grants`, uploads (SQLite) | reserve, promote, cancel, begin, attach, observe, reject, grant, bind; upload, share, list | service, bridge, push, browser collector |
| Chat service (`chat/service.py`) | `_dispatching` futures, `send_lock` | send, retry, poll | store, gate, Hermes |
| Dispatch hold (`chat/worker_control.py`) | `admission.lock`, `hold.json` | admission (shared lock), hold/release (exclusive) | service, web middleware, operator |
| Web application (`chat/app.py`) | observer task | routes; `_observe_reply` polls every two seconds until it is stopped or ends with an exception it does not catch | service |
| Hermes client (`integrations/hermes.py`) | none | start_or_attach, status, guidance, approval, stop | gateway |
| Hermes admission (`runtime/hermes`) | idempotency ledger (durable), run states | lookup, checks, reserve, replay, prune, restart | runs, bridge plugin |
| Document bridge, parser, access (`chat/document_*.py`) | cursors, which the caller keeps | authorise, read, search, share, content | store, Hermes; called by runs |
| Push outbox (`chat/push.py`) | `devices`, `deliveries` | register, unregister, reconcile, enqueue, dispatch | provider, store |
| Background review (`chat/commitment_*.py`) | mandate, reviews, suggestions, follow-ups | claim, research, complete, decide, progress | store, cron worker, push |
| Owner browser (`runtime/hermes/browser_control.py`, `native_control.py`, `bridge.py`) | one row per conversation; the driver's line | launch, assign, pause, hand off, recover, operate | driver, stream, chat |
| Desktop platform (`runtime/selkies`) | stream lease, input tokens, guest journal, worker's memory | attach, input, private hand-over, launch, retire, publish grants | guest, worker, browser row |
| Browser files (`browser_files.py`, three of them) | guest outbox, host receipts, library | list, acknowledge, collect, stage, choose | guest, host, store |
| Owner terminal (`runtime/hermes/owner_terminal.py`) | shells, their rings and locks | open, attach, input, output, end; maintenance | chat relay |
| Local authentication (`auth/local.py`) | principals, sessions, throttle | provision, sign in, renew, revoke | web application |
| Task engine (`application/service.py`, `work_service.py`, `runtime_controls.py`) | tasks, attempts, dispatches, work items, controls (Postgres) | admit, claim, dispatch, poll, stop, settle, control | Hermes, Space |
| Buzz conversations (`channels/buzz_conversations.py`) | messages, outbox | receive, route, act, answer, publish | relay, task engine |
| Coordinated projects (`channels/project_buzz.py`) | one snapshot, messages | plan, build, review, deploy, hand off | task engine, relay |
| Release (`scripts/release.py`) | journal, snapshot, tree | preflight, stop, apply, verify | API unit, hold |

What is hard here: web threads, the observer and a second process (during a
replacement) work on one table; no lock is held across the POST that starts a
run, so its answer may be lost, late, refused or overtaken by a retry or by a
callback of the run itself; either process may die between two steps; the
idempotency key that makes retries safe lives only for the gateway's retention.
The browser has two hands, the agent's and the owner's, and what either did
last may be unknown; it runs in a guest or a worker whose answers get lost.
The task engine, the Buzz channels and the projects are loops that take up what
an earlier loop, which may have stopped anywhere, left in the rows.

## Modules

The chat:

* `ChatBase`: identities, and the run states the parts share.
* `ChatStore`: the `turns` table and the document grants, a variable per
  column, an action per transaction.  `StoreSpec` lets the transactions run in
  any order that the callers' contract (`CallerBegins`, `CallerPosted`) allows.
* `HermesRuns`: the gateway.  A POST has a phase; its handler looks the key up,
  awaits its checks, then reserves.  The k-th POST is the member k of `Run`,
  which also names the run that POST creates.  The request stands for its key,
  because a turn has one key and every POST of a turn has the same body.
* `ChatDispatch`: the service on top of both.  A leading thread is named by
  service and request (the futures make the others wait); its `pc` has one
  value per place where another actor may come in between: the admission gate,
  the lock, each transaction, the POST, the answer.  `watch` is the poll of a
  service, its observer's or a page's; `observing` says that the observer lives.
  Also here: cancellation, callbacks, hold and release, time, crashes.
* `ReplyQueue`: the promise to the owner.  `ChatDispatch` implements it
  (`QueueImplemented`), with `phase` from the turn's status, `place` from its
  sequence number and `work` from the runs of the turn.
* `PushOutbox`: the `devices` and `deliveries` tables, an operator for what each
  write transaction of `chat/push.py` does at a given clock reading.
* `PushDelivery`: the outbox with everything that acts on it: the device routes,
  the login sessions, the chat turns and notices that fall due, and an observer
  loop per web process (`_dispatch_notifications`).

The task engine:

* `TaskStore`: the rows and what each transaction does to them.  One advisory
  lock serialises transactions (postgres.py:214), so each is one step.
* `TaskControls`: the agent runtime as the engine sees it, and guidance and
  permission answers with their receipts.
* `TaskEngine`: a `driver` is a thread inside `Coordinator.run_once`, an
  operator a command of the owner; `act[a].pc` says between which transactions a
  thread is and `act[a]` what it read.  A stop loses the thread.

The parts around the chat, put together by `Deployment`:

| Module | Models | State and actions |
|---|---|---|
| `AuthSessions` | `auth/local.py` | a caller reads the clock, then runs its transaction; sign-ins of one name hold `mutex` |
| `OwnerTerminal` | `runtime/hermes/owner_terminal.py` | `opener` is the lock of opens, `latch` a shell's; a spawn can be cancelled or fail at each await |
| `BrowserControl` | `browser_control.py` | `br`, the row; one operator per transaction; leases lapse by a step |
| `OwnerBrowser` | `bridge.py`, `native_control.py`, `selkies/control.py`, `platform.py` | extends `BrowserControl`: operation lock, the driver's `line` of commands, the stream's input and hand-over; hands may outlive leases |
| `BrowserTransfers` | the three `browser_files.py` | a download from Chrome, whose events reach the outbox later, over outbox, receipt and collector into the library; a recovery of a dead launch that may fail to read a file; an upload from original to chooser |
| `SpaceBrowser` | `space_client.py` ... `space_guest.py`, `space_bootstrap.py` | one request at a time, its answer may be lost and it may arrive `late`; grants, journal, cold retirement |
| `WorkerBrowser` | `network_worker.py`, `network_client.py` | requests of three threads reach the worker in any order |
| `BuzzMessages` | `application/conversations.py`, `buzz_conversations.py` | a message, the threads that take it up and their transactions, the outbox, the relay |
| `ProjectCoordination` | `project_buzz.py`, `project_coordination.py` | the saved snapshot `coord`, the copies a cycle holds, messages, tasks and their reports |
| `Commitments` | `chat/commitment_*.py` | `mandate`, reviews, suggestions, follow-ups, cron workers |
| `Releases` | `operate()` of `scripts/release.py` | the journal as saved, the command's copy, unit, tree and rows |
| `Library` | uploads, sharing, grants (`store.py`), `document_bridge.py` | files, disk, grants, callbacks between their two authorisations |
| `DocumentReader` | `document_parser.py`, `document_access.py` | fragments, the scan, cursors from answer to answer |

None of these parts reads or writes what another keeps, as far as it is modelled
(the row of the browser, which several share, is in `BrowserControl`), so
`Deployment` follows one part per behaviour: `part` names it and the variables
of the others are `None`.  Its states are the union of the parts' states; its
invariants each begin with the part they speak of.

`MCChatDispatch`, `MCPushDelivery`, `MCTaskEngine`, `MCDeployment` are the
instances for TLC.  `ChatDispatch_proofs`, `ChatPromise_proofs`,
`ReplyQueue_proofs`, `PushDelivery_proofs`, `TaskEngine_proofs` and
`Deployment_proofs` hold the theorems, the last with the lemmas of
`DeploymentParts_proofs` and `BrowserParts_proofs`.

Definitions whose comment begins with "Mutant" are wrong variants of the
definition that follows; no specification uses them.  They show that each
property fails when the code is wrong in the way they describe.

Abstractions.  The prompt, options, tools and browser context of a turn are
frozen before the first attempt and only decide whether the gateway may refuse
(`Selective`).  One owner: the table is keyed by owner and the chat serves one.
A crash of a web process is also a thread that disappears.  A poll reads the
pending turn and the runtime's answer in one step; the window between
that answer and its saving is a step of its own, and so is each later read.

In the push modules a dispatch holds the database's write lock from the
selection of a row to the saving of its outcome, the provider's call included
(push.py 253-304), so every other write waits for `LockFree`.  `Session` stands
for a session hash together with the revision of its binding: losing either is
`Revoke`.  The state `closed` stands for discarded, expired, exhausted and
blocked, which no code tells apart.  Device tokens are left out: a token in use
elsewhere is a refusal (`DropRegister`).  A clock reading taken just before a
transaction is the time of the transaction, because a wait for the lock ends
after ten seconds (push.py:118) and the unit of time is the smallest delay, a
minute; the reading a pass keeps for
its later transactions is kept (`at`).  `Break` is a pass that ends early: an
exception the loop catches, a stop, or a crash, which while the provider is
called loses the outcome.  An answer `retry` may have been delivered.

In the task engine dispatch, attempt and session of a task share the attempt's
number, which is also the runtime's idempotency key.  In the other modules bytes,
digests, file names, page contents, messages and revisions are members of small
sets; what the code compares is what the model compares.  What an answer of a
human, a model, Chrome or the relay says is any of the answers the code tells
apart.

In `BrowserTransfers` Chrome's events reach the outbox in order and any time later,
or, after the guest has faulted, never.  A call on a launch that is gone recovers
its outbox first; recovery and call are one step.

## Runs

| Run | Instance | Shows |
|---|---|---|
| `queue` | 2 messages, 2 threads, 1 crash, hold; or 3 messages | callers keep the store's contract; outcomes are the run's own; the promise is kept |
| `service` | four corners, below | one run per turn although keys are forgotten; no POST outside the window; turn and grant name the turn's run; retries carry a grant; nothing is sent while held |
| `progress` | 2 messages, 2 POSTs, fairness | polls alone advance the queue and save outcomes: the observer's until it ends, then those of an open page |
| `refused` | 1 selective turn, 2 POSTs | finding, below |
| `observer` | 2 messages, 2 POSTs | finding, below |
| `push` | 1 handset in seven corners, 2 in one | what waits is consented to and belongs to the present registration; dispatch excludes all else; one push after revocation; nothing twice |
| `push_progress` | 2 handsets, 2 replies, 1 notice, fairness | every reply owed is queued, what is due is dealt with |
| `push_opt_out` | 1 handset, 2 notices | finding, below |
| `tasks` | ten corners of 2 tasks, 2 coordinators, 2 owners, 2 attempts | one run per attempt and resource, outcomes that are the run's, controls sent once, nothing reopened |
| `tasks_cancel` | the same | finding, below |
| `deployment` | each part on an instance of its own | the invariants of the twelve parts, below |
| `released` | 2 messages, 2 tasks, 1 revision | finding, below |

What `deployment` checks, besides the types:

| Property | In words |
|---|---|
| `CodesAreSpentOnce` | a one-time code serves one sign-in; sessions do not outlast their end |
| `ShellsAreCounted` | maintenance never finds zero while a shell's process runs |
| `HandsApart` | agent and owner never act on the page together; what the owner had in private is not shown |
| `UncertaintySticks` | after a command with an unknown outcome nobody gets the browser before the driver is gone |
| `TransfersAreFaithful` | a finished download goes only when the library has it or a recovery could not read it; what ran while the owner had the browser in private is private; one file per chooser |
| `OneBrowserOneHolder` | a microVM's browser taken for retired is gone; input is honoured within its lease only |
| `OneChromeAtATime` | the same of the worker beside the gateway |
| `MessagesActOnce` | a message acts once and is published as one event, wherever a thread stopped |
| `ProjectsArePrecise` | a verdict and a deployment are about the revision that is the preview |
| `OwnerHasTheLastWord` | no late review undoes what the owner did |
| `ReleaseKeepsItsProof` | a verified release kept the rows it first found, over every retry |
| `FilesKeepTheirScope` | a callback sees what its grant held while it was in force |
| `ReadingMissesNothing` | the answers to a question put together show each hit once |

Corners.  A corner bounds how much takes part (`Corner`, `Fits` in the MC
modules), and the `CONSTRAINT` of the run explores every state that fits into
one of them.  The corners of `service` are a turn with two POSTs while time
passes window and retention; a turn with three POSTs while time passes the
window; a turn with documents and a model choice, two POSTs and a crash; and two
web processes on one store with one turn and the hold.
Those of the push runs are listed at `SafetyCorners` and `ProgressCorners`, those
of the task engine at `Corners` in `MCTaskEngine`, those of the parts in
`MCDeployment`, each with the story it is there for.  Every part has two actors
wherever the code has two (two callers with one code, two receivers of a
message, two overlapping cron workers, two callbacks), and two or three rounds of what repeats.
The constraint of `push_progress` bounds only what no step of a pass increases,
the breaks included, so the fairness of a pass is not cut off by it.

Bounds.  Two POSTs of one key are enough for both to pass the lookup, for a replay,
and for a lost and a repeated acceptance; two messages are enough for every order
relation between an active and a waiting turn, and `queue` adds a third.  The first
corners of `service` have room for a first POST and one after the key is forgotten,
and for a retry inside the window and one that comes too late: retention 3, margin 1
and delivery 1 are the smallest values with margin and delivery not zero.  Elsewhere
`MaxClock = 0` because nothing in those properties depends on time. `MaxCrashes`
counts crashes of web process and gateway together.  In the push runs `Minute = 1`,
`Hour = Day = 2` and `Retention = 4` keep the order of the code's delays with room
for a pass (`PassLimit = 1`) on either side; `MaxGeneration`, `MaxClock` and
`MaxFailures` bound registrations of a handset, time and broken passes; batches and
passes of size one make every batch and pass boundary happen.  `MaxClock = 6` lets a
row of time 0 be older than the retention, so that a pass deletes it: the corner
`Aged` follows one reply to that point, with two observers, and the registrations
made after its handset is deleted too.  In `deployment` every number is the smallest
at which the case it bounds happens: `MaxRevision` for a hand-over and back,
`MaxRequest` for a start, a stop and a restart between, `MaxReviews` for a review
overtaken by the next and one more, `MaxFragments` for a hit across two fragments at
a limit, `Needles` for one as long as a chunk and one longer, `Offsets` for a
locator at the start, in the middle and at the end of a chunk.

The time a POST may need from its window check to the end of its handler is
`Delivery`; the model assumes `Delivery <= Margin`, the 60 seconds that
`service.py` keeps off the advertised retention.  The client's own
deadline is 40 seconds; nothing bounds a handler that outlives its client, so
this is an assumption about the gateway and is named as one.  In the same way
`PassLimit` bounds the time from a clock reading of a pass to its next, and
`DeliveryAssumption` says that twice this is less than the 29 days between the
age at which turns are no longer scanned and the age at which rows are deleted.

Runs set `CHECK_DEADLOCK FALSE` because the bounds on POSTs, time, crashes,
requests and registrations let a behaviour stop, as does an owner who sends
nothing more.

Fairness (`FairSpec`).  Threads are scheduled and every call has a deadline
(`integrations/hermes.py`, 108-160), so a leader always moves on, and so does a
poll once begun; a waiter's future stays resolved.  The observer begins polls for
as long as it lives.  `_observe_reply` catches `Rejected` and `sqlite3.Error`; any
other exception, such as the `OSError` of an original that cannot be read or a
`ValueError` of the client, ends the observer until the process is restarted
(`Escape`).  After that polls are begun by pages (`GET /chat/reply`), of which
nothing is assumed, so `QueueAdvances` and `OutcomeIsSaved` are promised under
`PollsGoOn`: the observer lives, or some page asks again and again.  `Recovery`
says that preparations stop failing and such exceptions stop at last: without it a
gateway that is out of reach for ever blocks the queue, which the code does not
promise to survive.  The gateway's answers, the owner and the
operator are not fair.  In `PushDelivery` only the passes are fair: `_observe`
runs one after another and catches whatever a pass raises; the provider's call
has a deadline, so `Answer` is one of the steps of a pass.  Logins, devices and
completions are not fair.

## Findings

* `refused`: `reject_unadmitted` (store.py:639) closes a turn on the refusal of
  any of its POSTs.  "Only an explicit gateway proof of no run admission may
  close an unsent handoff", but the refusal proves it of one POST: an earlier
  one, given up by the client, may still be awaiting its checks, pass them and
  start a run for a turn that is closed as failed.
* `observer`: `poll` (service.py:361) decides on a row that it read before, and
  `retry` dispatches whatever the row has become.  "Only a positively
  never-attempted queued follow-up may auto-dispatch": another thread may have
  attempted it and lost the acknowledgement in between.  The key keeps this from
  starting a second run; the rule itself does not hold.
* `push_opt_out`: the admitted notices of a day are counted from the rows
  (push.py:233), and opting out deletes the rows of a handset.  "At most two new
  suggestion events are admitted in a rolling day" (docs/plans,
  2026-11-02-native-proactive-assistance.md:115) fails after opting out and in
  again.  What does hold is that the rows of a day show no more (`NoticesCapped`).
* `tasks_cancel`: a driver that finds the gateway down saves phase `recovering`
  over a cancel committed while it asked (service.py:586); the dispatch it had
  prepared keeps every later cycle from taking the task up, so if the thread of
  the command is lost too nothing settles the cancel, though "restart can settle
  the same exact stop if this local response or process is lost".
* `released`: a READY without a revision equals a project without a preview
  (project_coordination.py:167), and the comparison made before a deployment lets
  it pass too, though "Reviewer READY requires the reviewed revision to equal the
  preview revision".

Seen while modelling, and not findings, because no document says otherwise:

* Projects: a crash or refusal between the snapshot's saving in `_reconcile` and
  `_handoff` loses the handoff; a refusal inside `_reconcile` leaves the cycle's
  copy stale, so its later messages are rejected; a deferred attachment behind a
  task that ends without a result holds up the ingress; a message while a plan is
  made starts a Researcher task of its own; "deploy" while Deployer is at work
  starts a second one.
* Observer: its comment says that it saves completions and advances the queue
  "including when the browser is closed" (app.py 277-278), but the exceptions it
  does not catch end it for the life of the process.
* Downloads: one that Chrome begins while the owner has the browser in private, but
  whose `downloadWillBegin` the guest handles after the next change of control was
  published, gets a public row (browser_files.py 200-210).  The recovery of a dead
  launch takes any `OSError` or `ValueError` for a download that was not finished,
  and removes the finished file (browser_files.py 373-382).
* Background review: `set_active` with another binding turns completed and
  stopped follow-ups into `scope_changed`, after which they cannot start again.
* Releases: `verify` before any apply, or after a second attempt that was refused
  because the API was busy, fences the journal although nothing drifted.
* Browser: a login in progress pauses the owner's lease at reconciliation; a
  download's run is the one admitted when it is first listed; a guest's `files`
  call during a launch opens a second outbox object on the same directory.
* Microvm and worker: a lost freeze answer leaves the guest frozen until the
  browser is retired; a lost DELETE answer leaves the cold retirement to the
  operator; a local start with an unknown outcome keeps its handle until the
  gateway restarts; a worker restarted while a retirement was unanswered answers
  "unknown" from then on, which the adapter counts as still owned.

## Proofs

The first section of `ChatDispatch_proofs` is about the store alone and proves, for
any set of requests, of runs and any times: `StoreTypeCorrect`,
`StoreKeepsOrder` (`HeadOfQueue`), `StoreKeepsOneActiveReply`,
`StoreBindsOneRun`, `StoreWithdrawsOnlyUnbegun` and `StoreIsMonotone`.
`HeadOfQueue` is not inductive alone: it needs that sequence numbers are distinct
and bounded by the counter (`SeqInv`), and the grant and deadline facts need each
other (`HistoryInv`): a waiting or withdrawn row was never begun, a grant exists
only behind a deadline.  The only assumption is `IdentityAssumption`.

The rest proves that the whole system implements that contract: `StoreSpec`
(`ServiceImplementsStore`), so that the store's theorems hold of it
(`ServiceKeepsOneActiveReply`, `ServiceBindsOneRun`), and the stricter
`StoreImplemented` that the run `queue` checks (`ServiceImplementsItsStore`): each
call is the transaction with the service's one window and the date of the clock.
Then type correctness, `TurnsNameTheirRuns` and `HeldMeansSilent`.  Its invariant
`DispatchInv` says what a thread established and may still rely on (`LeaderInv`:
it is `StoreMoves`, the monotonicity of rows, that keeps this true while others
work), that POSTs, answers and ledger agree on which run belongs to which turn
(`WireInv`), and that a held gate has no admitted thread (`HoldInv`).

`ChatPromise_proofs` proves first that a turn has one run (`AtMostOneRunPerTurn`).
A thread posts under a check that was in the window (`CheckedInv`, `SentInv`); a
run ends after its turn began, and the ledger forgets a key only `Retention` after
that (`KeyInv`); a handler ends within `Delivery` of the check, and
`Window + Delivery <= Retention` (`WindowFits`).  So a handler that finds no key
knows there never was a run.  Assumptions: `IdentityAssumption`,
`HermesAssumption`, `DispatchAssumption`.  Then the promise to the owner:

* `OutcomesAreTheRuns` (`OutcomeIsTheRuns`).  A terminal status that was read is
  the run's and stays so, because ended runs stay ended (`ReadInv`); a turn ends
  in three ways, by its run's outcome, withdrawn, or closed as never admitted
  (`TurnsEnd`).
* `ChatKeepsThePromise` (`QueueImplemented`): a reservation is `Accept`, a
  promotion `Start`, a withdrawn follow-up `Withdraw`, the admission of a turn's
  first run `Execute`, a run that ends or is lost `End`, the observation of a
  terminal status `Finish`; every other step stutters.  It is proved under
  `Selective = {}`: no turn makes a choice the gateway can refuse.  With such a
  turn the promise fails, as the run `refused` shows, and `ClosedInv` (a closed
  turn gets no run) is where the proof needs it.
* With `ReplyQueue_proofs`, under the same hypothesis, the whole chat executes one
  reply at a time (`ChatExecutesOneAtATime`) and in the order of sending
  (`ChatExecutesInOrder`).

`ReplyQueue_proofs` proves what the promise is worth: one execution at a time
(`PromiseIsOneExecution`) and in the order of sending (`PromiseIsInOrder`).

`PushDelivery_proofs` first shows what each transaction does to the rows, and
that it keeps `OutboxInv` (types, attempts left, `PendingIsCurrent`,
`RetriesFit`), then that callers keep `PassInv`: an observer that holds the lock
has a claim, its row waits, its device belongs to the session that was
authorised, and nobody else holds the lock.  From it follow `PushTypeCorrect`,
`PendingBelongsToDevice`, `DispatchExcludes` and `RetriesAreInTime`.
`LastPushToSession` adds `RevokedInv`: after a call for a session that has ended,
no other call for it is under way, and none begins because `Send` asks first.

What a device is promised rests on what all steps have in common: `Touched` and
`Lasting` (what a step may do to rows and registrations), `Dated` (what was asked
or published keeps its date), `Moves` (clock readings and batches).
`NothingWithoutConsent` needs `ConsentInv`: a registration, in flight or made,
starts no earlier than its session.  `SentAtMostOnce` needs `OnceInv`: readings
are recent and a row is as old as its turn, give or take `PassLimit`; so a
row that is gone belongs to a turn too old to be found again.
`DevicesAdmitted` and `NoticesAdmitted` count: a registration adds one device at
most; of the notices of one transaction the last one granted has all others
ahead of it.  Assumptions: `PushAssumption` (which says that there are finitely
many handsets), `DeliveryAssumption`, `RowAssumption` (NULL is no row), and
`DelayAssumption` (the delays are whole numbers; the provers know no powers).

`TaskEngine_proofs` proves what the runs `tasks` and `cancel` check of safety, for
any number of tasks, coordinators, owners, commands and controls.  `EngineInv`,
which every step keeps (`EngineHolds`), says what the tables, the runs and the
threads between two transactions are to each other:

* `AttemptsFit`, `RowsFit`: the one current attempt of an open task is the attempt
  its row names, a dispatch that is prepared, submitted or unknown is current, and
  a run goes on only under a current attempt whose dispatch has left `prepared`.
* `ResourcesFit`: of two tasks that share a resource one at most has a current
  attempt.  Only `claim` adds one, and it asks every other task first.
* `ThreadsFit`: what a thread read and still acts on.  A poll's terminal answer is
  still the state of the run; a POST on its way has a current attempt, or its run
  exists and the key answers; what the thread of a cancel saw of its dispatch
  stays so (`CancelStands`) until it writes or the task closes.
* `NotesFit`, `ClosedFit`: a receipt names a dispatched attempt; a completed row
  names a completed run and its claim, a verified work item belongs to a closed
  row, an applied cancel to a cancelled one.
* `ControlsFit`: a control has one sender and a denial one that repeats it, the
  sender's control has not been sent before, and only a denial is ever retried.

Most steps are shown to be mild: they keep reservations and attempt numbers,
lose no intent to cancel and settle no dispatch a thread has seen.  What is left is
the claim, the steps that release an attempt and the steps of the controls.  From
`EngineInv` follow `TypeOK` (`EngineTypesHold`), `RunsAreFenced`
(`RunsStayFenced`), `OutcomesAreEarned` (`OutcomesStayEarned`),
`ControlsAreSentOnce` (`ControlsStaySentOnce`) and `NothingReopens`
(`NothingEverReopens`).  Assumptions: `BudgetAssumption`, `TaskAssumption` (no
task has the name that stands for none), `RequestAssumption`,
`WorkerAssumption`.

The last of them corrected the model.  `NothingReopens` used to say that the row of
a closed task never changes.  It does: a task paused while a permission was
pending and then cancelled keeps the request in its closed row, and a late answer
that the gateway accepted clears it (`runtime_controls.py` 342-346 asks for the
request, not for the phase).  The instances need 35 steps for it, more than their
corners let happen.  The property now allows that one change, and no other.

`Deployment_proofs` lifts the invariants of twelve parts to the deployment, where
a step of one part leaves every other alone.  The first six are proved in
`DeploymentParts_proofs`, the next four in `BrowserParts_proofs`.

* Reading an original, `NothingIsMissed`: the answers so far cover what the question
  asks for of the fragments before the scan, or before its cursor while it catches up
  (`Covers`), and did so before this answer too, should damage take it (`Scanning`).
  What is kept of a base is its end and long enough for the needle (`TailFits`), and
  `HitsAreSeen` proves of any two texts that a hit that ends in the second is found
  behind such an end of the first as behind all of it.  A cursor points at a fragment
  that exists and is still in reach of the locator (`CursorFits`), so no answer leads
  nowhere; chosen text that was read is remembered from answer to answer (`SawText`),
  so nothing is reported empty that is not.  What a base says is defined fragment by
  fragment; that it is defined at all, and that it grows by each fragment's text,
  needs induction, which is done on a set of numbers (`UpFromZero`, from the least
  element of its complement).  `ReaderAssumption`: a chunk fits an answer (2048
  characters against 24 kB) and a needle is at most a chunk and one character long
  (512 against 2048).  The originals, needles, locators and limits are arbitrary
  otherwise.

* Releases, `ReleaseIsProven`: the row count a journal carries is the first one
  that was recorded, in the journal or in the command that is about to save it
  (`JournalInv`, `CommandInv`), and the candidate is never started before it
  (`ServedInv`).
* Sign-ins, `CodesAreSpent`: a caller whose code was accepted holds the lock of
  the account until it commits, and its code is newer than the last one
  (`LocksInv`); a token belongs to one call until it is a session (`CallersInv`).
  `AuthAssumption`.
* Shells, `ShellsStayCounted`: an open that spawns or discards has its pending
  spawn counted and its tab to itself (`OpenerInv`), a shell that is being
  finished is held by its lock and counts by its cleanup (`HoldersInv`), so spawns
  and shells together stay in the capacity (`CapacityInv`).  `TerminalAssumption`
  (finitely many tabs).
* Library, `FilesStayInScope`: a row's bytes are those of its place on disk and no
  other row's (`BytesInv`), what a grant or an attachment says of a file stays true
  (`OwnedInv`), what a callback has read was read under a live grant and run, or
  the second authorisation refuses it (`CallsInv`), and a reading in pages has
  shown everything above its cursor once (`LookInv`).  `LibraryAssumption`.
* Background review, `OwnerKeepsTheLastWord`: a claim counts the reviews of the
  same window it is limited by (`BudgetInv`), the one running review belongs to
  the present permission (`RunningInv`), an ended follow-up stays ended and a
  notice fits the revision the owner left (`OwnersInv`).  The number
  of overlapping workers is arbitrary.  `ReviewAssumption`.
* Files of the browser, `TransfersStayFaithful`: a download is whole before it is
  committed, nothing the collector holds is removed under it, and privacy only
  grows on the way: a row that was pending while the owner had the browser in
  private (`owner`, a history of `control`, not the guest's own mark) is marked by
  the guest (`RowsFit`, `HiddenInv`), and what is marked stays so in every listing (`CollectorInv`,
  `KeptInv`).  A file removed without being in the library is one a recovery could
  not read (`lost`).  A chooser is used up before its file is set (`ChooserInv`).
  `TransferAssumption`.
* MicroVM, `OneBrowserIsKept`: a launch that the guest answered as retired runs
  nowhere and its number is used up (`ConfirmedInv`); of two requests on the way the late one is
  older (`LineInv`), which is why an old grant cannot follow the host's proof that
  nobody holds input (`HolderInv`).
* Worker, `OneChromeIsKept`: launches are numbered upwards (`NumbersInv`), of a
  launch one start is asked (`StartsInv`), and what was answered as retired is
  neither running nor still to be started (`GoneInv`).
* The shared browser, `HandsStayApart` and `RecoverySticks`: every step moves the
  row by one of a table of moves (`RowMove`), each of which ends grants for good.
  A command waiting in the driver is in the row (`BLineInv`), nothing is pressed
  while the agent has the browser (`HandsInv`), a hand-back proves only its own
  revision (`TrInv`), and a grant a capture was begun under is live or gone for
  ever (`WatchInv`).  `BrowserAssumption`.
* Buzz messages, `MessagesStayActedOnce`: a received message has its route for
  good, what was done for it is what that route says, it is done exactly when it
  is answered, and the event on the relay is the retained one (`MailInv`).
  `MailAssumption`.
* Projects, `ProjectsStayPrecise`: the accepted revision is the preview and a READY
  or healthy preview was found ready by a Reviewer (`ProjectSnapshotInv`); a
  handler works on the snapshot it saves over, and a plan that is carried out has
  its planner behind it (`ProjectCycleInv`), so that a save that is not refused
  never brings back a planner that is still at work (`ProjectSavedInv`).
  `ProjectAssumption`.

TLC checked each of these invariants on the instance of its part before it was
proved, and `DispatchInv` and `RetentionInv` on the corners of `service`.

Proved and no longer checked by a run, because the theorem says more than an
instance could: `OneActiveReply` (which `HeadOfQueue` implies), `RetriesFit`,
`LiveDevicesBounded`, `NoticesCapped` and the types of push delivery.

Only model-checked are

* liveness (`QueueAdvances`, `OutcomeIsSaved`, `RepliesAreQueued`, `DueIsServed`),
  which the prover cannot do under fairness;
* `TypeOK` of the deployment: the proofs rest on types of their own, without the
  bounds of an instance, which its parts' types include.

## Plan

1. Done: the chat core, push delivery and their proofs; the task engine; the parts
   around the chat.
2. Done: the theorems about the task engine and about reading an original.
3. Parts together: `BrowserTransfers` with the privacy of `OwnerBrowser`, the
   lease of `SpaceBrowser` with the row of `BrowserControl`, messages of
   `BuzzMessages` with the tasks of `TaskEngine`.
4. A timed run in which the chat is away for the whole retention.

## Not modelled

Per component in `PROJECT.json`.  In short: request handlers without shared state
(administration, profile, transcription, inference choices), wiring and command
line, the format of each document reader (a reader is the sequence of fragments it
yields), operator scripts that run alone on a stopped system, the vault and the
agent's other tools, cron provisioning, pages and assets.
`channels/buzz_enrollment.py` has lost its HTTP surface (a test says so) and
nothing calls `enroll`.
