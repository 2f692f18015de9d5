# Formal model of the AI code reviewer

This directory holds TLA+ specifications of the core of this repository: the
server that reviews pull requests (`src/src`) and the event runtime of its agent
framework (`src/packages/kodus-flow`). The models are translated from the
source. TLC checks them on small instances and TLAPS proves the main invariants
for every value of the constants.

Paths below leave out the leading `src/` of the repository. `stages/` stands for
`src/core/infrastructure/adapters/services/codeBase/codeReviewPipeline/stages/`.

## 1. The system

### 1.1 Components

| Component | State it keeps | Operations | What is hard |
|---|---|---|---|
| Review run (`automationCodeReview.ts`, `codeReviewHandlerService`, `pipeline-executor`, `stages/*`) | a pipeline context per run, in memory only | one stage after another: new commits, configuration, cadence, changed files, announcement, analysis, comments, summary, approval | nothing serialises the runs of one pull request; every stage awaits external calls; stage errors are swallowed |
| Executions table (`automation-execution.service`, its TypeORM repository) | one row per run (status, `lastAnalyzedCommit`, cadence state) and a timeline beside it | create, update, "latest row" queries | row and timeline are two writes; query errors are swallowed and look like "no execution" |
| Review cadence (`validate-config.stage`) | none; reads the table | automatic, manual, auto-pause decision | decides from rows other runs are writing, and its own |
| Pull request on the platform (GitHub service, comment manager) | commits, comments, reviews | list commits, diff since a commit, comment, minimize, request changes, approve | commits are ordered by author date, not by push |
| Event queue (kodus-flow `runtime/core/event-queue.ts`) | queue, processed ids, the batch in progress, a semaphore | enqueue, processBatch, processAll, clear | admission is checked before awaits; the batch in progress is invisible to the duplicate check; clear during processing |
| Event delivery (kodus-flow `runtime/index.ts`, `event-store.ts`) | pending acknowledgements, bounded metadata cache, stored events | emit, ack, nack, expiry sweep, replay | the sweep races the handler; the cache evicts |
| Middlewares (kodus-flow `runtime/middleware`: concurrency, timeout, retry) | slots per key and who waits for them | acquire, release, attempt, give up | a timeout answers the caller and stops nothing; retries of what still runs |
| Circuit breaker (kodus-flow `runtime/core/circuit-breaker.ts` and its middleware) | state, counts of failures and successes, metrics | execute, open / half-open / close, force | results that come late are counted in the state they find |
| Event processor (kodus-flow `runtime/core/event-processor-optimized.ts`) | handlers per type, time of their last use, one depth counter | register, processEvent, sweep, clear, cleanup | concurrent events share the depth; handlers are swept while events run |
| Kernel (kodus-flow `kernel`) | context data, a cache, a queue of updates with its timer, snapshots | getContext, setContext, pause, resume, complete, reset | three copies of a value, and awaits between their updates; a resumed kernel shares its data with the snapshot |
| Engine (kodus-flow `engine`, `orchestration`) | plans, tool results | plan, execute steps, call tools | step dependencies, retries of tools |
| Pull request store (`pullRequests.service.ts`, its Mongo repository) and the Bitbucket webhook handler | one document per pull request: commits, files, suggestions | save from a webhook, save from a review, decide whether a push needs a review | find, then create; read, then write the whole; what is stored decides what is reviewed |
| Issues (`kodyIssuesManagement.service.ts`, `use-cases/issues`) | issues, the flag `syncedWithIssues`, a cached list | merge, create, resolve, flag, edit, list | one awaited step after another; a cache cleared before or after what it lists |
| Kody rules, integrations, organisations, check-ins, metrics, cron, licensing | documents and tables | CRUD, synchronisation, reports | mostly I/O |

`PROJECT.json` lists every component with its modules and status, and every
hazard at its line.

### 1.2 How they interact

A webhook delivery or a `@kody start-review` comment reaches
`RunCodeReviewAutomationUseCase`, which starts a run. The run inserts a row and
a timeline entry, builds a context and gives it to the pipeline executor. The
stages read the table (the last successful execution gives the commit to start
from, the latest rows give the cadence state), read and write the pull request
through the platform services, and call language models. At the end the handler
returns a result from which the row and a second timeline entry are written. The
database and the pull request are the only things two runs share.

Beside this, the webhook handlers store the pull request. The Bitbucket handler
also decides from what is stored whether a push has been reviewed; reviews save
their suggestions in the same document; and when the pull request is closed, the
suggestions in it become issues.

In kodus-flow the runtime composes a queue, a processor with its middleware, an
acknowledgement table and an optional event store. `emit` registers the event
for acknowledgement and enqueues it; `process` drains the queue through the
processor and acknowledges each event that was handled. Around a handler stand the
middlewares, in an order the caller chooses. The kernel holds the data agents work on
and is paused, resumed and reset by calls that nothing orders.

## 2. Modules

| Module | What it is |
|---|---|
| `ReviewCadence` | pure operators: may this run review, given who asked and what the table says (`validate-config.stage.ts`) |
| `ReviewRuns` | the review runs of one pull request; one action per stage, plus pushes, failures and crashes |
| `ExecutionLedger` | abstract specification of the executions table: a row is opened once, in progress, and closed once; only a success carries a mark |
| `EventQueue` | kodus-flow's event queue: enqueue, the batch loop with its semaphore, clear, dequeue |
| `EventDelivery` | extends `EventQueue` with the runtime around it: emit and its batch buffer, acknowledgements, the expiry sweep, the event store and its replay |
| `Concurrency` | kodus-flow's concurrency manager: the slots of one key and who waits for them |
| `HandlerStack` | extends `Concurrency` with the timeout and retry middlewares, in both nestings the repository uses |
| `CircuitBreaker` | one circuit and the concurrent calls it protects |
| `EventProcessor` | the handlers of each type, the sweep, and the events processed at once |
| `KernelContext` | the context data of one kernel: cache, batched updates, snapshots, pause, resume, complete, reset |
| `PullRequestStore` | the stored record of one Bitbucket pull request: webhooks, the decision to review, the saves of webhooks and reviews |
| `IssuesFromReviews` | closed pull requests whose suggestions become issues, users who edit issues, readers of the cached list |
| `MC...` | the instances for TLC, one module for each of the above with a run |
| `ReviewRunsProofs`, `KernelContextProofs`, `IssuesProofs`, `PullRequestStoreProofs` | the theorems about the module each is named after |
| `EventDeliveryProofs` | the theorems about `EventQueue` and `EventDelivery` |
| `HandlerStackProofs` | the theorems about `Concurrency` and `HandlerStack` |
| `RuntimeProofs` | the theorems about `CircuitBreaker` and `EventProcessor` |
| `SequenceLemmas` | lemmas the proofs share: inserting in, appending to, concatenating and taking from sequences, sequences in which nothing occurs twice, and a set as a sequence |

### 2.1 ReviewRuns and the code

* `pc[r]` is the next stage of run `r`. A stage is one action, so anything may
  happen between two stages. Three stages are split where they read and then
  write: `CreateFileComments` / `PostComment` / `SaveSuggestions`, and
  `RequestChanges` / `CheckReviewState` / `Approve`.
* `ctx[r]` is the `CodeReviewPipelineContext`, cut down to the fields the control
  depends on. `row`, `created` and `entry` are the table and its timeline.
* A commit is its push number. `date` gives its author date, which any push may
  choose freely: that is how rebases and cherry-picks appear. The commit list is
  sorted by author date (`github.service.ts:3543`) and the diff since a commit
  takes strictly later dates (`github.service.ts:2905`).
* The files a commit changes and the suggestions on them are identified with the
  commit. What a language model finds is an arbitrary subset.
* A failure is a disjunct of the stage in which the code catches (or does not
  catch) it, and counts against `MaxFaults`. An outage during `InitialComment` may
  take the minimisation, the announcement or both and counts once.
* `Continue` is the executor's loop: a skipped context goes straight to the end
  (`pipeline-executor.service.ts:40`), and a stage that throws passes on the
  context it was given.
* `paused`, `approvers`, `blocking`, `seen`, `lost`, `raced`, `backdated` and `broken`
  are history: the properties read them and no action's guard does.

Left out on purpose: the custom start and end messages of a pull request; forced
pushes (a last analysed commit that has left the branch makes the code take all
commits); the EE pipeline's extra stages (fine-tuning and AST), which touch none of
this state; platforms other than GitHub; the title, branch and draft rules, which
are one arbitrary outcome in `ValidateConfig`.

### 2.2 Runs of ReviewRuns

| Run | Instance | Question |
|---|---|---|
| `review_race` | 2 concurrent runs, 2 commits, 2 dates, 1 failure or crash | Does the watermark ever cover a commit nobody looked at, does a run that finds nothing new leave nothing unaccounted for, and does the table keep its promise, however two runs interleave? |
| `review_faults` | 2 successive runs in manual mode, every switch on, 2 commits, 2 dates, 1 failure, fairness | Does a skipped run stay off the pull request, does the timeline agree with the row, is there one unrequested review at most, is every doubtful approval one of two known kinds, and is every row closed? |
| `review_sequence` | 3 successive runs, 3 commits, 3 dates, auto-pause, no failure | Are incremental reviews disjoint, is one summary visible, does the burst limit hold, does the watermark advance? |

Two runs are enough for the races: every stage compares its context with what one
other writer did to the pull request or the table. Three are needed for the
sequences, because a pause takes a first review, a burst and a decision. Two dates
let a commit be older than, as old as or newer than another, and three let two of
them lie on both sides of a mark.
Deadlock is not checked: the runs end and the model has no more to do. The
properties that talk about successive runs start with `Sequential`, which says that
one run is active at a time and nothing has failed; with concurrent runs they do not
hold of the code, since no lock keeps two runs of a pull request apart.

Fairness: `FairSpec` asks weak fairness of the stages of each started run. A stage is
only held up by the calls it awaits, and those end (they succeed, fail or time
out); nothing is assumed of pushes, failures or new runs.

### 2.3 Proofs about ReviewRuns

`ReviewRunsProofs` proves, for any finite set of runs, any number of commits,
dates, failures and concurrent runs:

* `TypeCorrect`: `Spec => []TypeOK`;
* `CoverageInvariant`: `Spec => []CoverageInv`;
* `WatermarkCorrect`: `Spec => []WatermarkCovered`;
* `SkipsAccounted`: `Spec => SkipMeansAccounted`;
* `SkippedRunsLeaveNothing` and `TimelineAgrees`: `SkippedLeavesNoTrace` and
  `TimelineFollowsRow` are invariants;
* `RunsImplementLedger`: `Spec => LedgerSpec`, the refinement of `ExecutionLedger`.

`WatermarkCovered` says that every commit dated no later than a recorded
`lastAnalyzedCommit` was analysed, or failed its analysis, or was pushed while a run
was between fetching the changes and reading the last commit, or was authored
before something pushed earlier. These last three are the ways the code lets a commit
through; the theorem says there is no fourth. It is not inductive:
the mark a run will record comes from its context, and what it may skip depends on
the mark it started from. `CoverageInv` adds the marks in the contexts, and that the
files fetched by a run (and, after the analysis, nothing more) account for
every pushed commit. The proof has one lemma per group of actions: `StepKeepsCoverage`
for steps that add no commit, `PushKeepsCoverage` for pushes, and
`ReviewKeepsCoverage` with a case per stage.

`SkipsAccounted` follows from it: a list that holds nothing after a mark some row has
holds only commits the mark covers (`NothingNew`), and no other stage gives that reason
(`ReasonKept`).

`StageInv` is behind the other three. It joins what a run has left on the pull request,
in its row and in the timeline to the stage it is at: a run is skipped before its
announcement or never, so that a skipped run has neither a trace nor a mark; the row is
open until the last stage but one, and from there the row, and after it the timeline, has
the status the context gives. Each of the three properties alone says nothing of
the stage, without which no step can be shown to keep it.

The properties of successive runs are theorems as well, each from an invariant of its own
and for any number of runs, pushes, dates and commands:

* `NothingRepeated` (`NoRepeatedComments`) and `WatermarkNeverMovesBack`
  (`WatermarkAdvances`), from `OrderInv`: the run in progress has the newest row; it starts from
  a commit no success before it goes beyond, works on later commits only, and will leave a
  mark no earlier than theirs; marks are in the order of the rows, and no comment is on a
  commit dated after its run's mark. A new comment is then dated after every older one.
* `OneSummaryShows` (`OneVisibleSummary`), from `SummariesInv`: of two completed
  summaries the earlier is minimized, and one that is started comes after all of the completed
  ones, which are minimized by then. It leans on `OrderInv` where the stage minimizes
  nothing: a run without a base follows no success, so there is no completed summary.
* `ManualReviewsOnce` (`OneManualReview`) and `WindowBounded` (`ReviewsWithinWindow`), from
  `CadenceKept`: what the cadence stage saw in the table is still so when the run succeeds.
* `ApprovalsExplained` (`ApprovalExplained`), from `ApprovalInv`, with failures and
  crashes: what a run commented is among its results until saving them fails, the review it
  approves over was looked at and has not changed, and a block is hidden by comments only.

`RankInv` says that rows are created in a strict order and that some success is the newest,
which is what `LastAnalyzedCommit`, a query for the newest row, needs to be one row's
mark. `CleanSteps` says once, stage by stage, what a step without failure may do
to each field; the invariants of successive runs are proved from it and not from the
stages. `ApprovalSteps` does the same for what approvals rest on, failures included.

That runs follow one another is part of these properties (`Sequential`, `MaxActive = 1`)
and not an assumption added for the proofs: section 2.2 says why. Liveness
(`EveryRowCloses`) is only model-checked: the prover does not handle it under fairness.

Behaviours of the review runs that were met while modelling and that no property covers:
the state of the pull request is read as that of the latest row, which is the deciding
run's own (`validate-config.stage.ts:334`); the draft check is reached only when no list
of base branches is configured (`validate-config.stage.ts:498`); the check of the resolved
comments races a timer of 30 s and goes on after it (`create-file-comments.stage.ts:568`);
and the scheduled approval reads the threads and then approves, while a run may be posting
(`CheckIfPRCanBeApproved.cron.ts:333`).

### 2.4 EventQueue and EventDelivery and the code

* JavaScript runs one piece of code at a time: an action is the code between two
  awaits. In `enqueue` these are the compression of a large event and the
  persistence of a critical one, in the loop the semaphore and the handlers of a chunk.
  What follows a handler's promise without another await (acknowledgement, release of
  the permit) belongs to the action in which it ends: `HandleAndAck`, `FailAndNack`.
* The queue holds calls of `enqueue`, not events: a caller may pass an event twice,
  and `stage[c]` says where each call is. `arg` gives its event and priority.
* `Refuses` is the admission test (processed, waiting, too large, full); it is made
  before the awaits and not repeated after them. A failed persistence changes nothing:
  the code logs it and enqueues.
* `TakeBatch`, `StartChunk`, `NextChunk`, `NextBatch` and `Finish` are the loop of
  `processBatch` (`draining = FALSE`) and `processAll`. The chunk size depends on the
  backpressure, which depends on memory and CPU: a choice unless the queue is full.
  A call of `process` while one is under way returns at once and has no action.
* `Clear` is `clear`, and `destroy` as far as the queue goes. `Dequeue` is kept since
  the class offers it, although the runtime does not use it.
* In `EventDelivery` every event has an id of its own, as `emit` makes them, so an
  event is its call. Only automatic acknowledgements are modelled.
* Time is not modelled: `Expire` may drop any pending acknowledgement and `TimerFires`
  may come whenever the timer is set.
* `Replay` is one step of `replayFromTimestamp`: it looks at one stored event. The
  events of a replay are looked at one by one with other code between.
* `before`, `overlapping`, `forgotten`, `acked`, `unacked`, `evicted`, `emitted` and
  `replayed` are history (`emitted` also keeps an event from being emitted twice).

Not modelled: statistics and the functions that only look at the queue, the
content of the events, the persistors themselves.

### 2.5 The rest of kodus-flow and the code

* `Concurrency` is the manager for one key. It is a singleton of the module, so calls
  through middlewares with different limits meet in it: `Limit[c]` is the limit of
  the middleware call `c` came through. `Patient` are the calls through one with a
  queue timeout; the others are dropped at once when there is no slot.
* `HandlerStack` is a handler within concurrency, timeout and retry. The concurrency
  limit is outermost in both nestings. `RetryInside` are the calls for which the timeout
  surrounds the retries: so builds `composeMiddleware` (it folds from the right) for
  `createStandardMiddleware`, and so builds the event processor (it folds from the
  left) from a list with the retry first, as in `middleware-composition.test.ts`; the
  lists in the runtime's README, with the timeout first, give the other nesting. The abort signals of the options are passed by nobody, so nothing
  stops an execution: `running` keeps those nobody listens to.
* `attempts` counts the executions of a call's handler. The total time of the retries
  (`maxTotalMs`) may be over after any attempt, time not being modelled.

* `CircuitBreaker`: a call is let through (`Admit`, `Attempt`) or rejected, and its
  result comes in an action of its own, counted in the state it finds. `canLog` says
  whether the observability of the circuit has a log method: the one that
  `circuitBreakerMiddleware` builds has none, and there each call of it throws. `Succeed` is
  then a success and a failure at once, because `handleSuccess` logs inside the `try` of
  `execute`. `good` is history.
* `EventProcessor`: an event starts with the list of handlers of its type and of the
  wildcard (`plan`), and calls them in chunks of one, or in batches when there are more than
  a batch. A handler ends with nothing, with an event (which is taken for a loop, and fails
  it) or with an error. `lastUsed` is by function, as the code stamps functions. `meant`,
  `dropped`, `expected` and `cut` are history.
* `KernelContext`: a value is written to the data and queued at once, and reaches the cache
  when the queue is flushed, by the timer, by a pause or a complete. The awaits split
  pause, resume, complete and reset. A snapshot is known by what it captured, for its name is
  the hash of that; `content` is what it holds by now, since `resume` makes the stored object
  itself the data of the kernel. `carried`, `orphaned` and `resumed` are history.

### 2.6 Runs of the event runtime

| Run | Instance | Question |
|---|---|---|
| `queue_race` | 3 calls of 6 events in 2 priorities, 1 permit, batches and chunks of 2, depth 2, memory of 1 | Is a call lost or doubled, do the permits add up, is an event handled twice without a reason, is a call overtaken, is the depth exceeded otherwise than by calls that awaited? |
| `delivery` | 3 events, one of them critical, queue depth 1, buffer of 2, cache of 2, 1 failing append, fairness | Do the buffer, its timer and the acknowledgements agree (`DeliveryOK`); does replay hide only what was handled and repeat only what was evicted or lost its acknowledgement; is every emitted event offered, the queue drained, and the processing ended? |
| `handler_stack` | 4 calls with limits 1 and 2, in both nestings, one of them impatient, 1 retry, fairness | Do slots add up, is a wake-up lost, are the executions beyond the limit abandoned ones, is every call answered? |
| `circuit` | 6 calls of one circuit, both thresholds 2, 2 forced transitions, with a log and without | Is every call counted once, and does an open circuit close only after its time and enough successes of the attempt under way? |
| `circuit_middleware` | the same, violation | "should execute successful operations": behind the middleware a success is answered with an error |
| `processor` | 2 events of one type, 2 handlers, depth 1, batches of 2, 4 registrations or clearings | Does the depth count the events under way, and does an event miss a registered handler for known reasons only? |
| `kernel_context` | 2 keys, 2 concurrent calls, 2 writes, 1 snapshot that cannot be stored | Do a stale cached read, a queue without a timer and a resume with other data each have one known reason? |

Six calls of a circuit are two failures that open it, two successes that close it and
two results that come late. Two keys and two calls make a kernel be resumed while another
call pauses it, with a value written before and one after. Two handlers of one type fill a
batch; with a third registration, of one of them again, they exceed it.

Three calls let one wait, one run and one arrive: an overlap needs two calls of an
event and the third makes room or fills the queue. A memory of one processed event
and a cache of two entries evict within these. Four calls give the manager two
waiting calls of different limits while a third holds the slot. Deadlock is not
checked, for the callers may stop.

Fairness: in the queue and the delivery, timers fire, what `enqueue` awaits ends,
the loop goes on and handlers end: the queue has no timeout of its own, so this is
asked of the handlers, for instance of a `withTimeout` around them. In `HandlerStack` handlers
need not end: only the timers and the delays of the retries are asked to pass.

Seen on the way, with no run of its own: `emitAsync` with `flushBatch` awaits a flush that has
nothing to do, because adding the event has already started another one
(`index.ts:400`), so it may return before its event is in the queue; every event a handler
returns is taken for a loop and fails its handler, since its type is on the chain before
the loop test looks at it (`event-processor-optimized.ts:453`), so that nothing is ever
processed at a second level.

### 2.7 Proofs about the event runtime

`EventDeliveryProofs` proves of the queue, for any finite set of calls and any depth, batch size, chunk
limit, number of permits and memory, with or without fairness:

* `TypeCorrect`, `CallsConserved` and `PermitsConserved`: from `QueueInv`, which joins
  `TypeOK`, `Conserved` and `PermitsAddUp` and adds that nothing is taken while
  nothing is being processed. None of them is inductive alone: that a batch
  starts with all the permits follows from the count of running handlers once no
  handler runs, and that a call taken from the queue is nowhere else from `Conserved`.
* `DuplicatesHaveReasons`: from `DuplicateInv`, which says the same of all calls that
  are past the admission test and not refused, and that the event of a handled call
  is remembered or was forgotten.
* `DepthKeptWithoutAwaits`: from `DepthInv`, which adds that only calls for large or
  critical events await.
* `NobodyOvertaken`: from `OrderInv`, which adds that the queue is sorted and that a call
  standing before one that came earlier has a higher priority.

About the delivery around the queue it proves, for any number of events, cache size,
batch size, faults and replays:

* `DeliveryUsesQueue`: every step of `EventDelivery` is a step of `EventQueue` or leaves
  the queue alone, so that the theorems above hold of the runtime as a whole;
* `DeliverySound`, `HiddenIsHandled` and `ReplayHasReasons`: from `DeliveryInv`, the queue's
  invariant with `EmitInv` (what has not been emitted has not been put to the queue,
  wherever the flushes hold it), `AckInv` (an acknowledgement is awaited for every emitted event
  until it is handled, fails or loses it to the sweep or to clear) and `StoreInv` (a stored event is
  in the metadata cache or was evicted, and one that is handled and not hidden has its reason).

`Touch` writes the removal from the metadata cache with an index, since the
prover does not see into the recursive operators of the library.

`HandlerStackProofs` proves of the manager, for any finite set of calls and any limits, that the slots
are counted right (`SlotsCounted`), that no call waits while its limit would let it
in (`NoWakeUpLost`) and that no waiting call is overtaken by a later one of no higher
limit (`ServedInOrder`). The second is not obvious of code that wakes one call per
release without a look at its limit: it holds since a woken call takes the slot just
given up, so the count does not fall while anybody waits. The inductive invariant is `FifoInv`: the
queue holds the waiting calls, each once; the count is that of the holders; and
nobody stands behind a call that came later.

It proves that `HandlerStack` implements `Concurrency`
(`StackImplementsSlots`), so these theorems hold of the stack, and from `LoopInv` (a
retry loop has a caller who listens or one told of a timeout; with the timeout outside
the retries, an execution is the one its loop waits for) that attempts are bounded, that executions
overlap only where the retries surround the timeout, that live executions fit the slots in
use, and that a handler starts late only for a caller told of a timeout.

`SequenceLemmas` says what becomes of a sequence without repetition, its elements and
their number when one is inserted at a position, appended or taken out, and when a
part of it is kept.

`RuntimeProofs` proves of the circuit, for any number of calls and any thresholds, with a log
or without: `ThresholdsKept` (types, and no circuit stays at its threshold),
`RecoveryIsEarned` and `MetricsCorrect`. The invariant `CircuitInv` adds that a
call that has succeeded is at its end, so that none is counted twice, and that a half-open
circuit has no more successes than calls that have succeeded since it became half-open:
the code keeps a number, the property speaks of calls.

`KernelContextProofs` proves, for any keys, callers and number of writes: `ContextTyped`,
`StaleReadsHaveReasons`, `UpdatesAreFlushed` and `FirstResumeExact`. `ContextInv` adds that
a queued update is the value last written unless the data were replaced under it, that
timer and queue go together until a resume separates them, and that a snapshot nobody has
resumed from holds what it captured.

`RuntimeProofs` also proves of the event processor, for any events, handlers, lists of
handlers and sweeps, `ProcessorTyped`, `DepthIsExact` and `HandledHasReasons`. `ProcessorInv`
adds to the count of the depth that no handler is awaited for an event that is not under way, that
a registered handler is in its list unless a sweep dropped it, so that the plan of an event has all
the handlers expected of it, and that none has failed in a plan that is not batched. Two
lemmas say what a sweep keeps of a list and that the plan puts the lists together.

Only model-checked here: the liveness properties (`DrainCompletes`, `EmittedIsOffered`,
`EveryCallEnds`), which need fairness.

### 2.8 PullRequestStore and IssuesFromReviews and the code

* `PullRequestStore` has the webhooks of one Bitbucket pull request in the order of their
  events, each of which first saves the record (`StartsSaving`), looks at the stored commits
  (`FetchCommits`, `Decide`) and may start a review. A save, by a webhook or by a review,
  fetches the commits, looks for the record, creates or updates it, and then writes
  its files one by one. `docs` is a sequence, since two saves may each find no record and create
  one; every lookup takes the first. The review itself is cut down to what it has seen and
  what it saves. `blind` and `overlapped` are history.
* `IssuesFromReviews`: a closing reads the record, merges what the language model matches
  (any subset), creates the issues of the rest one by one, looks for the open issues of the
  file, resolves those the model names, sets `syncedWithIssues` and clears the cached list. Users
  clear the list and then write; readers load the issues and then store the list. A failure
  is a disjunct of the step that catches it. `late`, `lost`, `raced` and the two marks on the
  cache (`missed`, `excused`) are history.

| Run | Instance | Question |
|---|---|---|
| `pull_requests` | 2 commits of different files, 3 webhooks, 1 failure | Is a push passed over only when a save that no review follows stored it first, and is a saved suggestion lost only behind a second record or an overlapping save? |
| `issues` | 2 closings of one or two pull requests, 3 suggestions, a user, a reader, 1 edit, 1 failure or crash | Do the flag, the cached list and the settled issues go wrong only for the reasons named? |

Three webhooks are the creation, the push that must not be missed and an edit or a merge
beside them. Two closings let one create what the other resolves, and the same pull request be
closed twice. Deadlock is not checked: the webhooks come to an end.

`IssuesProofs` proves `IssuesTyped`, `FlagHasReasons`, `StaleListHasReasons` and
`SettledStays` for any closings, suggestions, users and readers. The inductive invariant has a
part for each: `FlagInv` follows a suggestion from the record through `todo` to its issue,
`ListInv` adds that only a held list can have missed a change, and `OpenInv` that what a closing takes
for open was open when it looked, or was changed by another since, and that an issue is created once.

`PullRequestStoreProofs` proves `PushesAreSeen` and `SuggestionsAreFound` for any list of commits
and files, any number of webhooks and failures. `StoreInv` has these parts:

* `PushInv`: the newest commit of an open pull request is *looked at* (a review has seen it, is due
  or has started, or a save stored it blindly) or *undecided* (a webhook has yet to decide
  about it), and whoever finds it stored is right that it is looked at. `NoPushIgnored` alone says
  nothing while a webhook is under way, and what a webhook decides comes from the record,
  which any save may have written in between: `UnseenCovers` is the lemma that a save which
  stores the newest commit has seen it looked at or counts as blind.
* `PhaseInv` and `SaveInv`: a webhook saves only while it is handled, a review only at its own end,
  and a save that updates has found a record.
* `FoundInv`: how far the save of a review has come with the one file that has a suggestion.
  It is still to do, or in its place in the first record, or there are two records.
  `DocsGrow` is what all other steps owe it: no step takes away a record, a file or a suggestion.
* `NotedInv`: the same of the list for the whole pull request, which one review may overwrite
  with what it read before; what it thereby drops is in `overlapped`.

`StoreAssumption` says that the commits are at least one and that each changes finitely many
files, as any pull request does.

Seen on the way, with no property: the two use cases that list issues share a cache key and
store lists of different shapes under it (`get-issues.use-case.ts:62`); a review whose save ends
after the merge writes the status it fetched before; records are found by the repository's name,
which two repositories of an organisation may share.
## 3. The finding

`circuit_middleware` expects a violation. `circuitBreakerMiddleware` gives its circuits an
observability without a log method (`middleware/circuit-breaker.ts:76`), and
`handleSuccess` calls it (`core/circuit-breaker.ts:169`) when the success has been counted,
inside the `try` of `execute`: the call is counted once more as a failure, its caller gets an
error, and enough successes open the circuit. The comment on line 149 says that the result is
returned. The tests give the circuit a mock of their own, and the middleware is not among them.

## 4. Plan

In place, in this order: `ReviewCadence`, `ReviewRuns` and `ExecutionLedger`; `EventQueue`;
`EventDelivery`; `Concurrency` and `HandlerStack`; `CircuitBreaker`; `EventProcessor`;
`KernelContext`; `PullRequestStore`; `IssuesFromReviews`.

Worth doing next:

1. The scheduled approval as one more process of `ReviewRuns`.
2. The queue with its handlers going through `EventProcessor` and `HandlerStack`, and that
   this composition implements both.
3. The order of marks with failures between successive runs: which failures leave
   `WatermarkAdvances` true.

Every safety property the passing runs check is also a theorem. Four properties stay with
TLC, all of them liveness under fairness: `EveryRowCloses`, `EmittedIsOffered`,
`DrainCompletes` and `EveryCallEnds`.

### Not modelled

* The agents, plans and tools of kodus-flow's engine: prompts and the parsing of answers. The
  dependencies of plan steps are checked before each step of one sequential loop.
* Quotas and atomic operations of the kernel, which fail by throwing before any modelled state
  changes; the transaction persistor, which nothing constructs.
* The clients of GitLab, Azure, Jira, Slack and the rest, the adapters of MCP servers and
  language models, and telemetry: I/O with no protocol of this program's own. They are most
  of the repository's lines and the reason the models cover few of them.
* Organisations, teams, users, parameters, permissions, Kody rules, check-ins, metrics,
  licensing and scheduled jobs: reading and writing of one row or document at a time.

## 5. Running

    tlc -config ReviewRace.cfg MCReviewRuns
    tlapm ReviewRunsProofs.tla

Each `.cfg` names the specification, the constants and the properties of one run.
`PROJECT.json` lists the runs with their modules, the mutants that show that each
property can fail, the lines of source each definition stands for, the hazards and
the theorems.
