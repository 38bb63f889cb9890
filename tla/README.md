# PaperLab: a TLA+ verification of the agent runtime

PaperLab is a paper-writing agent built on the DeepSeek Harness (`dsh`): a
TypeScript runtime of Cordis plugins in which an *agent* drives a language
model, calls tools, and records everything that happens in an append-only
*session log*. The paper tools are skills and small command-line programs the
agent runs; what must not go wrong is the runtime underneath. These modules
model that core, TLC checks them on small instances, and TLAPS proves what
matters most for every value of the constants.

Paths below are relative to the repository.

## 1. Inventory

### The core and how its parts talk

| part | state | operations | interacts with |
|---|---|---|---|
| **agent driver** `packages/core/agent-loop/src/agent.ts` | phase (idle, maintenance, running), turn and step counters, abort controller, wake latch, idle promise | `send`, `cancel`, `runMaintenance`, `whenIdle`, the coroutine `kick`/`turn`/`step` | claims from the inbox, appends to the session, runs the tool scheduler, dispatches `agent/*` events to listeners that may call back |
| **inbox** `.../inbox.ts` | pending messages, by target (next turn, next step) | `enqueue`, `claim`, `remove` | durable through session events |
| **tool-call scheduler** `.../tool-calls.ts` | groups of calls, pool, ordered commits, sampled abort, first failure | `executeToolCalls`, `runGroup` | drives the tool pipeline, appends `tool/call` and `tool/result` |
| **tool pipeline** `packages/core/tools/src/index.ts` | per call: policy, wrappers, body, outcome | `prepare`, `dispatch`, `finalize` | pre and post policies, `tools/execute` wrappers, tool bodies |
| **session log grammar** `packages/core/session/src/invariant.ts` | open turn and step, pending calls | one fold per event | rejects an append |
| **crash repair, forks** `packages/core/session/src/repair.ts`, `fork.ts` | none | `ToolCallRecovery`, `openTurnClosers`, `buildForkSeed` | the failing step; resume, which stores the closers; forks |
| **checkpoints** `packages/session/session-checkpoint-policy/src/index.ts` | none | awaits a flush before a step, a request and a tool body | the driver and the tool pipeline on one side, the session's flush on the other |
| **session store** `packages/core/session/src/index.ts` | live sessions, attach state | create, enter, append, announce, detach, flush | emits `session/event`, `session/flush`, `session/disposed` |
| **agent factory** `packages/core/agent-loop/src/index.ts` | lifecycles, disposers, what its disposal awaits | `createAgent`, `resume`, `prepare`, publication, the memoized `dispose`, unload | owns the write handle of the session; enters, announces and detaches the session and the agent in their registries |
| **JSONL persistence** `packages/session/session-persistence-jsonl/src/` | write handle: chain, live buffer, timer, cursor, pending repair; lease | create, open, append, flush, close, live routing | files, kernel lock, session events |
| **background jobs** `packages/jobs/jobs-local/src/`, `packages/jobs/tool-jobs/src/index.ts` | job records, output rings with the model's cursor, waiting calls, `killedByModel`, spent wakes | `start`, pump, settle, `job_output`, `job_kill`, `disposeOwned` | producers, the agent (a notice wakes it; its scope's disposal ends its jobs), the job list's kill |
| **schedule** `packages/schedule/schedule/src/` | stored tasks and delivery receipts, one timer, one drive | create, update, delete, the drive loop, disposal, restart | resolves agents, sends into their inbox, flushes their session |

Around them stand services that the core calls or that call it: subagents,
approvals and questions, goals, compaction, model retry, record storage, workflows, projections and queries of the log, the API
gateway with its web client, protocol adapters (MCP, ACP, hooks, webhooks), and
the paper tools (claim ledger, citation check, audit, compile, import).
`PROJECT.json` lists all of them with what is modelled or why not.

### What is hard

* **Interleaving.** Everything runs on one event loop, so code is atomic between
  awaits, and wrong at awaits: a `send` while a turn is being aborted, a
  `cancel` while a prompt is assembled, a listener that steers the agent from
  inside its own turn, events appended while a drain writes or a close waits.
* **Cancellation.** It is cooperative and sampled; policies, wrappers and bodies
  may still be running when it arrives.
* **Ordering.** Tool calls settle in any order, results go to the log in the
  model's order; routed events are retained and retried.
* **Failure.** A listener, the model stream, a tool, an append, a file operation
  or the process may fail at each step.
* **Crashes and several processes.** A log is torn in the middle of a frame, is
  repaired by the next owner, and two processes may reach for it. A repair and a
  delivery are themselves several writes with a crash between any two.
* **Teardown.** An agent, its jobs and its service may be disposed while a
  creation, a publication, a job or a delivery is still awaited.

`PROJECT.json` "hazards" names each at its line, with the properties that would
catch it.

### What correctness means

* driver: no wake is lost; disposal reaches quiescence; a message enters the
  history once; every tool request is answered before its step closes; the log
  follows the session grammar; an aborted activity converges.
* tools: the pool is bounded and exclusive calls are alone; results are in order
  and exactly once; no work outlives the step; outcomes say truthfully whether
  a body ran; an abort starts nothing new.
* write path: the stored log is contiguous and never rewritten; what a flush
  promised survives; one writer; close loses nothing and ends.
* crash and repair: a log cut anywhere, and a repair cut anywhere, close to the
  same log; every call the model asked for has one answer, which says truthfully
  whether its body ran; no body runs twice; a fork is a closed log.
* factory: two attempts at one session id never mix their entries; listeners hear
  of a disposal exactly when they heard of the creation; what outlives an unload
  is being torn down, and nothing does unless a teardown failed; a teardown ends
  unless it waits for a turn that nobody cancelled.
* jobs: each settlement is told to its reader once; no output that reached the
  ring is dropped unread by a settlement, and none is read twice; the settlement
  comes behind the last output that the source gave; the
  observers' event protocol holds; no job outlives its owner; disposal ends.
* schedule: no due task is forgotten while drives are admitted; a receipt means a durable message; nothing
  is announced again behind its receipt; management calls and deliveries never
  undo each other.

## 2. Modules

| module | models | role |
|---|---|---|
| `SessionTrace` | `session/src/invariant.ts` | abstract: the logs that are valid |
| `AgentDriver` | `agent.ts`, `inbox.ts` | detailed; implements `SessionTrace` |
| `ToolAnswers` | what `tool-calls.ts` promises the log | abstract |
| `ToolCalls` | `tool-calls.ts`, `tools/src/index.ts`, `ToolCallRecovery` | detailed; implements `ToolAnswers` |
| `DurableLog` | the contract in `session-persistence/src/index.ts` and `handle.ts` | abstract |
| `WritePath` | `storage.ts`, file primitives of `index.ts`, `lease.ts`, the factory's use of a handle | detailed; implements `DurableLog` |
| `SessionRecovery` | turn, step and tools over a log with checkpoints; `repair.ts`, `fork.ts`, the crash | composes driver, tools, write path and repair; its stored log implements `SessionTrace` |
| `AgentLifecycle` | `agent-loop/src/index.ts`, the registries of `agent` and `session` | the factory over the claim of a stored session |
| `JobPhases` | `jobs/src/invariant.ts` | abstract: a job's events |
| `OutputRing` | `ring.ts` | operators on the bounded output |
| `BackgroundJobs` | `jobs-local/src/index.ts`, `pump.ts`, `tool-jobs/src/index.ts` | detailed; uses `OutputRing`, implements `JobPhases` |
| `Reminders` | `schedule/src/runtime.ts`, `index.ts`, `storage.ts` | the tasks, their drive and their receipts |
| `MC*` | | instances for TLC |
| `QueueLemmas`, `*_proofs` | | proofs |

Definitions whose comment starts with "Slip" are deliberately wrong variants of
the definition that follows; no specification uses them. Each is substituted for
its neighbour to see that a property fails when the code is wrong in that way.

### AgentDriver

`phase`, `turn`, `step`, `abort`, `wake` are the fields of the driver's `Phase`;
`inbox` the two pending lists; `batch`, `turnEnds`, `attempt`, `calls`,
`failed` the locals of the running coroutine. `pc` names the await, dispatch or
observed append at which the coroutine is suspended; every action of the driver
is the code from one such point to the next. `Send`, `Cancel`, `Remove`,
`runMaintenance` and `whenIdle` are actions of everybody else. At the points in
`AppendOnly` only observers of a session append run: they may cancel, but a
nested append is rejected, so they cannot send. One of these points is
"admitting", between the resolved configuration and the request: the system
message, each user message of the batch (`entering` holds those still to come)
and the request header are separate appends, none of which looks at the signal.
A cancel by an observer of one of them therefore stops the request but not the
rest of the batch, which `AbortStopsTheModel` states as it is. `owed`, `asked`, `prompts`,
`ceiling`, `owesReply` and `logNextStep` are history variables for the
properties. Message content, prompt assembly, the request envelope and the order
of a step's tool calls (`ToolCalls`) are abstracted; `calls` keeps only whether
each request was started and answered.

### ToolCalls

The scheduler is one coroutine with its `pc`; each dispatched call moves through
`stage` (planned, preparing, wrapping, running, returned, ready, answered)
beside it; the dispatch that settles fills its result slot itself, also before
the loop has taken its promise. `kind` is the registry's classification, which may change
at any await; `sawAbort` is the group's sampled copy of the signal, `inFlight`
the dispatches the loop has not taken, `failure` the first scheduler failure.
A failing step answers what is left through `ToolCallRecovery`.
`Count`, `MaxParallel` are parameters; `MaxDelegations` bounds how often the
`tools/execute` wrappers call `next()` for each call.

### WritePath

`h[p]` is the write handle process `p` has on one session; its fields keep the
names of the code (`buffered`, `draining`, `paused` for `drainPaused`, `repair`
for `tornTruncateTo`, `recovered` for `recoveredTail`). `op` is the file
operation under way at the head of the promise chain, `client` who waits for it
(an explicit append, a drain, a flush). `at` is the station of the handle's
life:

    out -> opening -> locked -> setup -> (storing ->) publishing -> live
        -> closing -> releasing -> out, or "released" while a timer or drain is left

The disk is `stored`, `lines` (records in complete lines or frames), `torn`
bytes, and `rescued`, the records a reader decodes from a torn Zstandard frame;
a torn raw line gives none. `framed` selects the encoding. An operation is a
step of its own between two awaits, so that a crash, a failure, another process,
an append to the session, a flush or a close can come between any two.
`Windows` names the stations at which the session is appended to or flushed,
`Faults` the file operations that may fail: the runs differ in them. The
windows include "releasing": an event routed while `lease.release()` is awaited
is buffered and arms the timer of a handle that is giving up its lock. So
`ClosedIsDrained` is about what was routed before the release began, which
`sealed` records, and not about all of the log; what comes later is the timer's.

Abstracted: event content, read handles, format generations, a fork's seed. A
process has at most one handle at a time, so a handle that outlives its release
delays a reopening by its own process, never by another. A drain that finds the
buffer empty ends at once (two microtasks in the code). A session whose handle
is closed during publication counts as given up. After a failed final drain,
close goes on to the release without a turn for others (one microtask). The
rollback of a failed append succeeds; the code has no second line of defence
there, and a retry behind a failed rollback would repeat sequence numbers.

### SessionRecovery

One session as a log of events: `disk` is what a reader would be given, `buffer`
what memory holds beyond it, and `Persist` moves one event across, at any time.
A flush is the wait for the log length at which it was called, which is what
`WritePath` was shown to promise. `pc`, `turn`, `step` are the agent's; `call`,
`waits`, `outcome` the pool's. `Crash` keeps `disk` alone; `Resume` folds it
(`Observe`, `Closers`) and stores the closers as any other events, so that a
crash or a failing append cuts the repair as well. `ran` and `sent`, what the
outside world saw, survive in the model and nowhere else: the properties compare
them with the log.

`RecoveryInv` is the invariant of the whole: the provider's requests and the
calls whose body was started are in the *stored* log (`SentIsRecorded`,
`RanIsRecorded`); the stored log grows by events that `Follows` allows after the
earlier ones (`GrowthInv`); and what the driver believes to be open, its turn, its
step and the pool's calls, is what `Seen`, the fold of `repair.ts`, finds open in
the log (`PlaceInv`, `PoolInv`). A turn that ends at the token ceiling counts as
completed.

### AgentLifecycle

Any number of calls of `createAgent` and `resume` with one id. `stage` is where
the call's own continuation is, `teardown` where its memoized `dispose()` is;
they run beside each other, because a cancellation, the unload of the owner or
of the factory may start the teardown while the call still awaits persistence,
setup, the storing of the suffix or a creation listener. `claim` is the write
handle, `session` and `agent` are the registries' entries, `told` is what
listeners heard. `orphans` are opens whose attempt has given up and whose handle
is closed when it arrives.

Of an attempt's driver there is its activity (`driver`: the initializing
maintenance run, a turn, or nothing), who cancelled it first, and whether a wake
is `latched` behind it. That is what the disposal meets: its own cancel changes
nothing when a user was faster, and a wake that arrives then, or on an idle agent
while the disposal waits, opens a turn that it waits for (finding 2). Nothing in
the model keeps senders away from an agent that is being torn down. Once the
disposal has stopped waiting, its driver is not followed any more: the comment at
`agent-loop/src/index.ts:537` calls work that is sent then the sender's bug.

`rejected` are the attempts whose `dispose()` has collected a failure: a handle
whose close rejects, or a cancel or replay that throws because the service's own
inbox projection is gone. It matters for the unload. `FactoryOwnership.dispose`
waits with `Promise.all`, which ends at the first rejection, and the fiber logs
that and goes on; `FactoryUnloaded` is therefore enabled when everything that the
disposal joined (`awaited`) has settled, or when one of its teardowns has
rejected. `UnloadLeavesNothing` says what holds in each case.

`admission` is the agent registry. The unload of one of its ancestors closes it
before this service is disposed; the driver that a wake would start from then on
is refused, after its phase was already set to running. It is `stuck`: its
`activityDone` never settles and whoever waits for it, such as the disposal,
waits for ever. When it is the replay of a latched wake that is refused, the
activity before it rejects, and a disposal that waits goes on to its handle.

Three things in the source read differently from what the model shows; none has a
run of its own.

* The comment in `prepare()` (`agent-loop/src/index.ts:490`) calls its ownership
  check unreachable; `createAgent` reaches it after awaiting the stored session
  when the factory is unloaded meanwhile, and it is what keeps that attempt from
  leaking.
* `trackWrapper` (`:129`) says that the factory's dispose awaits the settlement
  of every call, and `track` (`:116`) that a teardown is held until it has run;
  neither is so once another teardown has rejected (`:143`).
* `wakeDriver` (`agent.ts:225-234`) sets the running phase before
  `withInitiator` may throw in a closed registry, and nothing puts it back.

### BackgroundJobs

The registry's records (`store`, `status`, `cause`), each producer
(`work`, `asked`, `written`), each job's pump and ring, the calls that wait, and
the controller (`killedByModel`, `spent`). `Settle` is the whole of `settle()`:
it trims the ring, wakes the waiting calls and runs the controller's completion
listener, which is synchronous. `told` records which of the three ways told the
model. A chunk of a ring is known by the offset it starts at; text is left out.
A stream is a job with one pulled source, `pulled` the pump's offset in it. The
source need not give what was written: a read that throws ends it (`broken`, as
`guardSource` does), and a lossy read appends the tail that is left (`gaps`). So
`OutputPrecedesSettlement` says that at the settlement the source was read to
its end unless it threw, and all of what was written is in the ring unless a
lossy read had lost some. `RemoveJob` is the registry's `remove`, beside the
removal that comes with the owner's disposal.
`JobsInv` joins the registry's books (`BooksInv`) with `RingInv`: the cursor of
the model is a chunk's end, so no chunk is read in part.
Producer, agent and person are external and do what their contracts allow: a
producer may ignore a stop for as long as it likes, and its cancel may throw.

### Reminders

`pc` is the await at which the drive loop stands; the queue that drives and
management share is held from the scan to the last commit (`slot`). `rows` and
`inbox`, the messages flushed into sessions, survive a crash; `lastDelivery` is
the occurrence of the last receipt. The clock ticks at any time and may be set
back. A management call has one await, its write, and is one action in a free
slot. `failed` are the tasks a drive gave up on without a timer, which the next
request looks at again.

A drive runs in a boundary of the agent registry, which the unload of an ancestor
closes (`admission`) before it disposes this service. A drive that is requested
then is refused: request and timer are dropped and nothing asks again
(`runtime.ts:57-62`, tested in `tests/runtime.spec.ts:687`). From then on no
obligation is held and none can be (`ClosedIsQuiet`): the service waits for its
disposal, and the next start takes up every task that is still active.

## 3. Runs

| run | instance | states | shows |
|---|---|---|---|
| `driver` | 2 messages, 1 call, 3 steps, 2 attempts | 556 k | wakes, idle promises, admission, the inductive invariant; what a step owes; refinement of `SessionTrace`; aborts converge, latched wakes are served |
| `tool_calls` | 3 calls, pool of 2, one wrapper that may retry | 1.7 M | the invariant (pool, order, drain), outcomes, abort, refinement of `ToolAnswers`, the step reports back |
| `write_path` | 2 processes, 2 events at every station but one, 2 faults, 2 crashes | 392 k | one writer, nothing skipped, close drains, memory and disk agree, refinement of `DurableLog`; routed events are written, closes end |
| `session_recovery` | 2 turns, 2 steps, 2 calls, pool of 2, 1 crash | 920 k | every call answered once and truthfully through crash and repair, no body twice, forks closed, refinement of `SessionTrace` |
| `lifecycle` | 2 attempts at one id | 344 k | entries and claim, listeners' pairs, what an unload leaves, teardown ends unless held up |
| `jobs` | 2 jobs, one with output, 1 caller, ring of 2 and 1 bytes, 3 bytes, 1 lost, 1 wake | 369 k | told once, nothing unread trimmed or read twice, output before settlement, refinement of `JobPhases`, disposal and done jobs end |
| `reminders` | 3 tasks of one session: once, every 1, every 2; clock to 2, 1 rollback, 1 stop or closing of the registry | 955 k | no task forgotten while drives are admitted, receipts honest, none announced again, due tasks are attempted |

Five more runs must fail (below): `driver_stopping`, `driver_disposal`,
`write_path_late_write`, `write_path_unpublished`, `jobs_teardown`.

### Bounds

Two messages are a prompt and a steering message, and two prompts when the first
is answered; three steps let a token ceiling, a steered step and a step after it
meet. One call is enough where calls only answer or fail; `tool_calls` has three,
so that a pool of two is full with one left over, in every mix of barriers.
Two processes are a loser and a winner of the lock; two events are one on disk
or in the batch and one in the buffer; two faults let a retry fail again and two
crashes let a repair be interrupted. In `session_recovery` one crash cuts a first
or a second turn, whose reply has both calls, one, or none recorded, and the
failing append of a repair cuts the repair; that a repair cut anywhere leaves
the same rest is an invariant of every stored log (`RepairResumes`), so a second crash
adds no case. Two attempts are one that has the claim and one that wants it. Two
jobs are one that settles while another lives; three bytes through a ring of two
overflow it before and after a read, and one lost byte makes a gap in it. Two recurring tasks with different
intervals and one that fires once share a drive in every combination, and a
clock of two ticks lets both recur. `MaxSteps`, `MaxAttempts`, `MaxDelegations`,
`MaxEvents`, `MaxFaults`, `MaxTurns`, `MaxCrashes`, `MaxBytes`, `MaxLost`,
`MaxTime`, `MaxRollbacks`, `MaxStops` are the only bounds.

### Fairness

* `AgentDriver!FairSpec`: weak fairness of the driver's own steps and of the end
  of a maintenance task. The awaits observe the abort signal cooperatively and
  the event loop runs every ready continuation. Nobody has to send or cancel.
* `ToolCalls!FairSpec`: weak fairness of the scheduler and of each call: policies,
  wrappers, bodies and appends settle. Aborts need never happen.
* `WritePath!FairSpec`: weak fairness of a handle's timers, chain and file
  operations; strong fairness of the steps of close, whose continuation is queued
  on the chain ahead of later operations, so that repeated failing flushes
  cannot starve it. Sessions need never be opened or closed.
* `AgentLifecycle!FairSpec`: weak fairness of what an attempt, its abandoned open
  and its teardown do next, and of the end of an activity that was cancelled:
  persistence settles, setup races its signal, listeners and scope effects
  return, a cancelled turn converges (`AbortConverges`). A turn that nobody
  cancelled may run on for ever, which is why `TeardownReleases` excepts a
  disposal that waits for one (`HeldUp`) as long as it does. Nobody has to call,
  cancel, dispose or unload.
* `BackgroundJobs!FairSpec`: a producer that was asked to stop settles its promise
  (the contract of `JobHooks.cancel`); pumps and continuations run; the calls
  and the turn of a cancelled owner end; its disposal goes on. A producer that
  nobody stops may run for ever, a wait without a cancel may last.
* `Reminders!FairSpec`: awaits of the drive resolve, the timer fires, time
  passes, a disposal ends, an unload that has closed the agent registry goes on
  to dispose the service, and a host that went down is started again.
* `SessionRecovery` states no fairness: its properties are safety.

### What the runs found

The following disagreements between the code and its own documentation are kept
as runs that must fail; `PROJECT.json` "findings" quotes the lines.

1. `driver_stopping`: after a step at the token ceiling, a steered step that ran
   tools still meets a sticky ending, so `agent/turn-stopping` is asked while
   the model owes a reply.
2. `driver_disposal`: the first cancel cause wins, so a disposal after a user
   cancel does not look disposed and a send during teardown is latched and
   replayed as a model turn.
3. `jobs_teardown`: a kill from the job list, between the disposal of a job's
   owner and the job's end, overwrites the cause `teardown`, and the owner being
   disposed is sent a notice.
4. `write_path_late_write`: an event routed while a drain writes arms the timer
   again; if that drain fails the handle is paused with its timer running. When
   the drain was the final one of a close, the timer fires after the lock is
   given up and appends to a log the next owner may have extended: two events
   with one sequence number. The run shows it with a failed drain; an event
   routed while the release is awaited leads to the same late write without any
   failure. A late drain of a handle that never leased its file takes a lock
   that nobody gives up.
5. `write_path_unpublished`: an event appended while the last unpublished suffix
   is stored is never stored, and every later drain is refused.

Because of 4, `write_path` assumes that a session is not reopened before a
released or releasing handle's timer (200 ms) has fired (`PromptReopen = FALSE`);
`write_path_late_write` drops that assumption. Because of 5, its windows leave
out "publishing" and nothing else, a station which only `write_path_unpublished` has; batches that persistence
rejects because they are not contiguous occur only there.

One more disagreement has no run that must fail: a `tools/execute` wrapper that
retries after a body ran, with an abort in between, records
`ABORTED_BEFORE_DISPATCH` for a body that ran (`core/tools/src/index.ts:1572`
against the meaning given at `:485`). `OutcomeTellsWhatRan` states that outcome
with exactly this exception: a call that has it never entered its body unless its
wrappers delegated more than once.

## 4. Proofs

All theorems hold for every set of messages, calls, causes, jobs, callers, tasks
and attempts, every count, pool, ring and bound, from the named assumptions of
the modules: `"disposed"` is a cause, pools, rings, intervals and bounds are
positive, the names used for "nobody" are no members. The theorems of `WritePath`
assume `Sound` besides, because findings 4 and 5 refute them without it.

* `AgentDriver_proofs`: `TypeCorrect`; `WakeNeverLost`; `IdlePromiseIsRight`;
  `MessagesEnterOnce`. `LatchedWakeIsReplayed` is not inductive: it speaks of
  idle agents only. The strengthening says where an owed wake is on the way there (`OwedInv`: latched
  on an activity that will replay it and was not aborted by disposal, or at the
  boundary of a live turn) and that an idle agent holds neither latch nor
  controller (`PhaseInv`). The proof has one step per action; the claim of the
  inbox needs the lemmas of `QueueLemmas` on the elements of a queue. `MailInv`
  follows a message from the inbox through the batch into the log: the two lists
  hold distinct messages, the batch none of them, and a batch still to be
  admitted none that was logged; `StepInv` adds that retries count from one.
  The second half of the module has `DriverInvariant`; `DriverWritesValidLogs`, the
  refinement of `SessionTrace`; and `StepsAreSound`, the action properties of a
  step: what an abort still lets in is the rest of the batch that was entering. `LogInv` ties the driver's counters to the history of the log: which
  points have a turn or step open, and which step number comes next. Each action is then shown to be a step of the grammar or a
  stutter under the mapping `Trace`.
* `ToolCalls_proofs`: `ToolInvariant` and from it `PoolNeverExceeded`,
  `NothingStartedIsLost`, `WorkIsDrained`, `OutcomesAreHonest`,
  `AbortedTurnsStartNothing` and the refinement `ToolsAnswerInOrder`. `OrderInv`
  says that the model's order splits the calls into answered, started and
  planned ones; `FlightInv` that the loop holds every dispatch under way;
  `GroupInv` that a barrier is a group of one and that the pool is counted
  right; `OutcomeInv` relates an outcome to how far its call got. The abort
  theorem adds that a group's sampled signal implies the real one and that no
  await separates a sample from a start.
* `Reminders_proofs`: `TurnsAreTaken`, `ReceiptsAreHonest`, `NoTaskIsForgotten`,
  `NoSecondAnnouncement`. That a receipt means a durable message is not
  inductive: `ReceiptInv` adds that receipts stay behind the targets that are
  left, and that while a drive commits, the inbox holds exactly the occurrence
  it commits. That needs the drive's snapshot to agree with the rows while it
  holds the queue (`DriveKnowsItsTasks`), and a group of tasks to be taken as a
  whole (`GroupsTakenWhole`). `NoTaskIsForgotten` holds up to the first refused
  drive; `ClosedIsQuiet` and `DriveInv` carry what is known of the registry there.
* `AgentLifecycle_proofs`: `EntriesAreOwned`, `NewsComesInPairs`,
  `UnloadIsComplete`. The invariant says, for each pair of stage and teardown
  that can occur together (`StageInv`), who has the claim (`ClaimInv`), the
  entries (`EntryInv`) and the listeners' attention (`NewsInv`), and that a
  disposing service awaits every call under way, has started every teardown, and
  returns early only behind a rejected one (`UnloadInv`). `UnloadIsComplete` follows
  from it: with no rejection everything awaited is over, and with one whatever is
  left is past the start of its teardown.
* `BackgroundJobs_proofs`: `BooksAreKept`, `SettledIsDrained`,
  `NothingIsReadTwice`, `SettlementLosesNothing`, and the refinement
  `EventsFollowTheProtocol`. `SettleTells` is the heart of the books: because waiting
  calls are listed with live jobs exactly, a settlement releases the calls that
  wait, and a notice is sent only if there is none. `PumpInv` keeps the ring
  behind what was pulled and that behind what was written, makes ring and pulled
  equal without a gap, and pulled and written when the pump has ended on a source
  that never threw. That a read
  repeats nothing is not inductive, because a trim moves the first chunk:
  `RingInv` says of every retained chunk that it starts behind the cursor, or that
  another one starts between it and the cursor, or that all was read, and trims,
  appends and reads each keep that. What a settlement drops is bounded by the
  least retained offset at or beyond the cursor. The refinement splits every step,
  for every job, into registration, stop request, settlement and removal.

* `WritePath_proofs`: `WritersAreInOrder` (with `OneWriter`, `RoutedIsNext` and
  `ClosedIsDrained`), `ReadersSeeTheLog`, and `WritePathRefinesDurableLog`, the
  refinement of `DurableLog`. They hold under `Sound`: a released handle's timer
  fires before its session is reopened, and nothing is appended or flushed
  while the last suffix is stored ("publishing"). The windows may hold every
  other routed station, the awaited release among them; `write_path` is such an
  instance. `AloneInv` says that one handle at a time is past
  its claim and holds the lock from its lease on. Per handle, `ChainOf` says
  which operation its chain runs for whom, and `CursorOf` which part of the log
  a batch is and what a flush may promise. `DiskInv` is what makes the rest
  inductive: the disk is the log up to the cursor, with a recovered tail in the
  torn frame or still to be rewritten, and every promise is in complete lines.
  From it each step either extends what a reader decodes by the next events or
  drops events nobody was promised, which are the steps of `DurableLog`.

* `SessionRecovery_proofs`: `RecordSurvives` (the invariant), `AnswersBalance`,
  `OutcomesAreHonest`, `RepairIsResumable`, `ForksAreClosed`, `BodiesRunOnce`, and
  `StoredLogIsATrace`, the refinement of `SessionTrace` by a log that crashes and is
  repaired, for any number of turns, steps, calls and crashes. The module is in
  four parts.
  1. *Folds.* `Seen` and `ResultsOf` are recursive functions over a log. That each
     exists, is unique, and takes one step when the log takes one is shown by a
     least counterexample (`LeastOf`), not by an induction rule.
  2. *Logs.* A log is `Legal` when each of its events `Follows` its predecessors.
     `LegalIsGood` concludes from that alone what a reader may rely on (`Good`):
     how turns and steps are numbered and nested, that the open requests are those
     without a result and know whether they were recorded, that the results of
     every step are its requests in order, up to what is still open. `GoodStep`,
     one lemma per conjunct, is where the work is.
  3. *Runs of events.* Closing a legal log, forking it and answering the calls
     that were skipped append several events at once. `ClosersRun`, `SeedIsClosed`
     and `SkippedRun` show that each is legal one event at a time, and
     `ClosersRun` besides that the closers of a log and some of its closers are the
     rest, which is what lets a repair be cut anywhere.
  4. *Steps.* The inductive invariant is `IInv`: type, a legal log, `SentIsRecorded`,
     `RanIsRecorded`, `HonestOutcome`, `PlaceInv` and `PoolInv`, with a lemma for
     each action. `RecoveryInv` as the run checks it speaks of the last stored
     event; `IInv` speaks of all of them, stored or not. A crash keeps it because every prefix of a
     legal log is legal, and because `ran` and `sent` are tied to the disk, not to
     the buffer: that is what the checkpoints of `session-checkpoint-policy` are
     for. In the refinement only `Persist` moves, and the event it stores is a
     step of the grammar because it follows the stored ones. (`RefinesTrace` is
     written so that TLC looks at those steps alone; the theorem states
     `Trace!TraceSpec` too.)

The inductive invariants are also invariants of runs (`DriverInv`, `ToolInv`,
`RemindersInv`, `LifecycleInv`, `JobsInv`, `WriteInv`, `RecoveryInv`).

Every safety property and every refinement of the runs that pass has a theorem. Only model-checked
are the liveness properties (`AbortConverges`, `LatchedWakeIsServed`,
`StepReports`, `RoutedIsWritten`, `CloseEnds`, `JobsEnd`, `DueIsAttempted`,
`TeardownReleases`), because fairness and ENABLED are out of the prover's reach,
and the five refutations of section 3. The proofs use no rule of induction over
data; where a fact about a fold is needed it is proved by a least counterexample
from the well-foundedness of the natural numbers.

## 5. Not modelled

Message and event content, prompt assembly, schemas, rendering, protocol
adapters, process and file-system tools, and code generation are data or I/O
with little control of their own. Cordis itself is vendored: the models use what
the code relies on (synchronous dispatch, contained observers). The window
between the driver's last check for queued work and its exit, a few microtasks
wide, is documented as out of scope in the source, and the model keeps check and
exit apart only where listener code can run. Each remaining component is listed
in `PROJECT.json` with its reason or its place in the plan.

## 6. Plan

1. Done: `AgentDriver` over `SessionTrace`, `ToolCalls` over `ToolAnswers`,
   `WritePath` over `DurableLog`, `SessionRecovery`, `AgentLifecycle`,
   `BackgroundJobs` over `JobPhases`, `Reminders`; every safety property and
   refinement of their runs is proved.
2. Next components, in order: subagent continuation (results delivered to a
   parent that may be gone), approvals and questions, goal round driver,
   compaction regions, record storage, MCP connection restart, the document
   conversion queue, and the claim ledger of the paper tools (read, number and
   append without a lock).
