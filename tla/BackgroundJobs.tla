--------------------------- MODULE BackgroundJobs ---------------------------
(***************************************************************************)
(* Background jobs of one agent: the registry                               *)
(* (packages/jobs/jobs-local/src/index.ts) with its output pump (pump.ts)    *)
(* and rings (OutputRing), and the controller that lets the model wait for,  *)
(* read and kill jobs and tells it of the others' completion                 *)
(* (packages/jobs/tool-jobs/src/index.ts).                                  *)
(*                                                                         *)
(* External: the producer behind a job (it writes, settles its promise and   *)
(* may or may not heed a cancel), the agent (whether a turn runs, when it is *)
(* disposed: its lifecycle awaits the turn, then its scope's effects, then   *)
(* leaves the registry) and the person who kills jobs from the job list.     *)
(*                                                                         *)
(* Abstracted: labels, details, progress lines and spill paths; producers    *)
(* that push output, and all of a job's sources but one (a stream here is a  *)
(* job with one pulled source); unowned jobs and several owners, which share *)
(* only the identifier counters; disposeAll, which does to all owners what   *)
(* disposeOwned does to one; a cancel that throws outside a teardown, which  *)
(* changes nothing.                                                         *)
(***************************************************************************)
EXTENDS OutputRing, FiniteSets

CONSTANTS
    Jobs,                   \* identifiers of the jobs that may be started
    Streams,                \* those with a pull source
    Callers,                \* job_output calls that may be waiting at once
    NoJob,
    Outcomes,               \* those a producer may settle its promise with
    MaxConcurrentJobs,      \* config maxConcurrentJobsPerOwner
    RetainBytes,            \* config retainBytes
    SettledRetainBytes,     \* config settledRetainBytes
    WakeBudget,             \* config maxConsecutiveWakes; 0 is quiet delivery
    MaxBytes,               \* bound: bytes a producer writes
    MaxLost                 \* bound: bytes that lossy reads of a source lose

ASSUME JobsAssumption == Streams \subseteq Jobs /\ NoJob \notin Jobs
ASSUME OutcomesAssumption == Outcomes \subseteq {"completed", "killed", "failed"}
ASSUME RetainAssumption == RetainBytes \in Nat \ {0} /\ SettledRetainBytes \in Nat \ {0}
ASSUME BoundsAssumption == MaxConcurrentJobs \in Nat /\ WakeBudget \in Nat
                           /\ MaxBytes \in Nat /\ MaxLost \in Nat

Terminal == {"completed", "killed", "failed"}
Live == {"running", "stopping"}
Causes == {"none", "producer", "kill", "teardown"}
Channels == {"wait", "kill", "notice"}

VARIABLES
    store,          \* jobs with a record in the registry
    status,         \* JobStatus; unborn before start
    cause,          \* settleCause, none while unset
    announced,      \* history: cause of the settled event
    work,           \* the producer's done promise: none, busy or its outcome
    asked,          \* jobs whose producer was asked to cancel
    written,        \* bytes the producer has written
    pump,           \* off, polling or ended
    pulled,         \* the pump's offset in the source of a live job
    broken,         \* jobs whose source threw: it reads as exhausted from then on
    gaps,           \* history: jobs a lossy read of whose source lost bytes
    ring, cursor,   \* OutputRing and modelCursor
    waiting,        \* job a job_output call waits for
    returning,      \* job whose wait has resolved, its call about to read
    waitResolvers,  \* calls registered with the job
    killedByModel,
    told,           \* history: how the model learns of a settlement
    busy, spent,    \* a turn is running; spentWakes
    owner           \* live, leaving (cancelled, turn ending), cleanup or gone

registry   == <<store, status, cause, announced>>
producer   == <<work, asked, written>>
source     == <<pulled, broken, gaps>>
output     == <<pump, source, ring, cursor>>
calls      == <<waiting, returning, waitResolvers>>
controller == <<killedByModel, told, spent>>
vars       == <<registry, producer, output, calls, controller, busy, owner>>

LiveJobs == {j \in Jobs : status[j] \in Live}

TypeOK ==
    /\ store \subseteq Jobs
    /\ status \in [Jobs -> {"unborn"} \union Live \union Terminal]
    /\ cause \in [Jobs -> Causes] /\ announced \in [Jobs -> Causes]
    /\ work \in [Jobs -> {"none", "busy"} \union Terminal]
    /\ asked \subseteq Jobs
    /\ written \in [Jobs -> Nat]
    /\ pump \in [Jobs -> {"off", "polling", "ended"}]
    /\ pulled \in [Jobs -> Nat] /\ broken \subseteq Jobs /\ gaps \subseteq Jobs
    /\ ring \in [Jobs -> [starts : SUBSET Nat, total : Nat]]
    /\ cursor \in [Jobs -> Nat]
    /\ waiting \in [Callers -> Jobs \union {NoJob}]
    /\ returning \in [Callers -> Jobs \union {NoJob}]
    /\ waitResolvers \in [Jobs -> SUBSET Callers]
    /\ killedByModel \subseteq Jobs
    /\ told \in [Jobs -> SUBSET Channels]
    /\ busy \in BOOLEAN /\ spent \in Nat
    /\ owner \in {"live", "leaving", "cleanup", "gone"}

Init ==
    /\ store = {} /\ status = [j \in Jobs |-> "unborn"]
    /\ cause = [j \in Jobs |-> "none"] /\ announced = [j \in Jobs |-> "none"]
    /\ work = [j \in Jobs |-> "none"] /\ asked = {} /\ written = [j \in Jobs |-> 0]
    /\ pump = [j \in Jobs |-> "off"]
    /\ pulled = [j \in Jobs |-> 0] /\ broken = {} /\ gaps = {}
    /\ ring = [j \in Jobs |-> EmptyRing] /\ cursor = [j \in Jobs |-> 0]
    /\ waiting = [c \in Callers |-> NoJob] /\ returning = [c \in Callers |-> NoJob]
    /\ waitResolvers = [j \in Jobs |-> {}]
    /\ killedByModel = {} /\ told = [j \in Jobs |-> {}]
    /\ busy = FALSE /\ spent = 0 /\ owner = "live"

-----------------------------------------------------------------------------
(* Settlement *)

\* Slip: the settled cap is applied whatever the model has read.
SettledCapFixed(j) == SettledRetainBytes

\* A settlement keeps every byte the model has not read, whatever the settled cap.
SettledCap(j) ==
    LET unread == ring[j].total - cursor[j]
    IN  IF unread > SettledRetainBytes THEN unread ELSE SettledRetainBytes

\* settle for the jobs of S, whose new status the caller assigns: the stream is
\* trimmed, live waits are released, and the controller's listener tells the
\* owner what neither a wait nor its own kill has told it, waking an idle one.
Settle(S, reason) ==
    LET awaited    == {j \in S : waitResolvers[j] # {}}
        delivered  == awaited \union (S \intersect killedByModel)
        notified   == IF owner = "gone" THEN {}
                      ELSE {j \in S \ delivered : reason[j] # "teardown"}
        released   == {c \in Callers : \E j \in awaited : waiting[c] = j /\ c \in waitResolvers[j]}
        heardBy(j) == UNION {IF \E c \in released : waiting[c] = j THEN {"wait"} ELSE {},
                             IF j \in killedByModel THEN {"kill"} ELSE {},
                             IF j \in notified THEN {"notice"} ELSE {}}
        wakes      == notified # {} /\ ~busy /\ spent < WakeBudget
    IN  /\ announced' = [j \in Jobs |-> IF j \in S THEN reason[j] ELSE announced[j]]
        /\ ring' = [j \in Jobs |-> IF j \in S THEN Trim(ring[j], SettledCap(j)) ELSE ring[j]]
        /\ waitResolvers' = [j \in Jobs |-> IF j \in S THEN {} ELSE waitResolvers[j]]
        /\ returning' = [c \in Callers |-> IF c \in released THEN waiting[c] ELSE returning[c]]
        /\ waiting' = [c \in Callers |-> IF c \in released THEN NoJob ELSE waiting[c]]
        /\ killedByModel' = killedByModel \ S
        /\ told' = [j \in Jobs |-> IF j \in S THEN heardBy(j) ELSE told[j]]
        /\ busy' = (busy \/ wakes)
        /\ spent' = IF wakes THEN spent + 1 ELSE spent

-----------------------------------------------------------------------------
(* The producer and its pump *)

\* start: a tool call of the running turn, below the owner's limit.  A scope
\* under disposal takes no cleanup effect, so the registration is refused.
Start(j) ==
    /\ busy /\ owner \in {"live", "leaving"} /\ status[j] = "unborn"
    /\ Cardinality(LiveJobs) < MaxConcurrentJobs
    /\ store' = store \union {j}
    /\ status' = [status EXCEPT ![j] = "running"]
    /\ work' = [work EXCEPT ![j] = "busy"]
    /\ pump' = [pump EXCEPT ![j] = IF j \in Streams THEN "polling" ELSE "off"]
    /\ UNCHANGED <<cause, announced, asked, written, source, ring, cursor, calls, controller, busy, owner>>

\* The job's source grows; nobody reads what it gets behind a forced settlement.
ProducerWrites(j) ==
    /\ work[j] = "busy" /\ status[j] \in Live /\ j \in Streams /\ written[j] < MaxBytes
    /\ written' = [written EXCEPT ![j] = @ + 1]
    /\ UNCHANGED <<registry, work, asked, output, calls, controller, busy, owner>>

\* The producer's done promise settles; a rejection counts as failed.
ProducerEnds(j, outcome) ==
    /\ work[j] = "busy"
    /\ outcome = "killed" => j \in asked
    /\ work' = [work EXCEPT ![j] = outcome]
    /\ UNCHANGED <<registry, asked, written, output, calls, controller, busy, owner>>

\* The first throw of a source is its end: this drain and the later ones find
\* nothing, whatever it holds.  A throw while it holds nothing new is the same as
\* one at the next read that has something to miss.
SourceFails(j) ==
    /\ j \in broken \/ pulled[j] < written[j]
    /\ broken' = broken \union {j}
    /\ UNCHANGED <<pulled, gaps, ring>>

\* The pump moves to the end of its source and appends what came back as one
\* chunk: all of it, or the tail that a lossy read has left of it.
SourceReads(j) ==
    LET fresh == written[j] - pulled[j]
    IN  /\ j \notin broken
        /\ pulled' = [pulled EXCEPT ![j] = written[j]]
        /\ \E kept \in 0 .. fresh :
            /\ written[j] - (ring[j].total + kept) <= MaxLost
            /\ gaps' = IF kept < fresh THEN gaps \union {j} ELSE gaps
            /\ ring' = [ring EXCEPT ![j] = AppendChunk(@, kept, RetainBytes)]
        /\ UNCHANGED broken

\* What is drained behind a forced settlement is dropped, and the source not
\* followed any further here.
Drain(j) ==
    IF status[j] \in Terminal THEN UNCHANGED <<source, ring>>
    ELSE SourceFails(j) \/ SourceReads(j)

PumpPolls(j) ==
    /\ pump[j] = "polling"
    /\ Drain(j)
    /\ UNCHANGED <<registry, producer, pump, cursor, calls, controller, busy, owner>>

\* The producer's end, or a settlement forced on the job, wakes the pump for
\* one last drain.
PumpEnds(j) ==
    /\ pump[j] = "polling"
    /\ work[j] \in Terminal \/ status[j] \in Terminal
    /\ pump' = [pump EXCEPT ![j] = "ended"]
    /\ Drain(j)
    /\ UNCHANGED <<registry, producer, cursor, calls, controller, busy, owner>>

\* Slip: the continuation does not wait for the pump.
SettleUndrained(j) == status[j] \in Live

\* Slip: the continuation settles a job that was settled by force again.
SettleAlways(j) == status[j] # "unborn" /\ pump[j] # "polling"

\* Behind the pump's last drain, and unless the job was settled by force.
MaySettle(j) == status[j] \in Live /\ pump[j] # "polling"

\* The continuation of the done promise.
ProducerSettles(j) ==
    /\ work[j] \in Terminal /\ MaySettle(j)
    /\ status' = [status EXCEPT ![j] = work[j]]
    /\ Settle({j}, [k \in {j} |-> IF cause[k] = "none" THEN "producer" ELSE cause[k]])
    /\ UNCHANGED <<store, cause, producer, pump, source, cursor, owner>>

-----------------------------------------------------------------------------
(* The model's calls, the job list's kill and the removal of records *)

\* Slip: the cursor moves by what was returned, not to the end of the stream.
ReadByRetained(j) ==
    /\ cursor' = [cursor EXCEPT ![j] = @ + (ring[j].total - Earliest(ring[j]))]
    /\ ring' = IF status[j] \in Terminal
               THEN [ring EXCEPT ![j] = Trim(@, SettledRetainBytes)]
               ELSE ring

\* readJob: everything past the cursor; after settlement the ring shrinks.
Read(j) ==
    /\ cursor' = [cursor EXCEPT ![j] = ring[j].total]
    /\ ring' = IF status[j] \in Terminal
               THEN [ring EXCEPT ![j] = Trim(@, SettledRetainBytes)]
               ELSE ring

\* job_output without a wait, or on a settled job.
OutputRead(j) ==
    /\ busy /\ j \in store
    /\ Read(j)
    /\ UNCHANGED <<registry, producer, pump, source, calls, controller, busy, owner>>

\* job_output with wait on a live job; a turn that is being cancelled rejects it.
WaitStarts(c, j) ==
    /\ busy /\ owner = "live"
    /\ status[j] \in Live /\ waiting[c] = NoJob /\ returning[c] = NoJob
    /\ waiting' = [waiting EXCEPT ![c] = j]
    /\ waitResolvers' = [waitResolvers EXCEPT ![j] = @ \union {c}]
    /\ UNCHANGED <<registry, producer, output, returning, controller, busy, owner>>

\* Slip: a call that stops waiting stays registered.
StillListed(c, j) == waitResolvers

Unlisted(c, j) == [waitResolvers EXCEPT ![j] = @ \ {c}]

\* onAbort with the wait's own deadline: the call goes on to read what there is.
WaitTimesOut(c) ==
    \E j \in Jobs :
        /\ waiting[c] = j
        /\ waitResolvers' = Unlisted(c, j)
        /\ waiting' = [waiting EXCEPT ![c] = NoJob]
        /\ returning' = [returning EXCEPT ![c] = j]
        /\ UNCHANGED <<registry, producer, output, controller, busy, owner>>

\* onAbort with the caller's signal: the call fails.
WaitAborts(c) ==
    \E j \in Jobs :
        /\ waiting[c] = j
        /\ waitResolvers' = Unlisted(c, j)
        /\ waiting' = [waiting EXCEPT ![c] = NoJob]
        /\ UNCHANGED <<registry, producer, output, returning, controller, busy, owner>>

\* The call behind a resolved wait reads and returns; it fails when the record
\* was dropped in between.
WaitReturns(c) ==
    \E j \in Jobs :
        /\ returning[c] = j
        /\ returning' = [returning EXCEPT ![c] = NoJob]
        /\ IF j \in store THEN Read(j) ELSE UNCHANGED <<ring, cursor>>
        /\ UNCHANGED <<registry, producer, pump, source, waiting, waitResolvers, controller, busy,
                       owner>>

Kill(j) ==
    /\ status[j] \in Live
    /\ asked' = asked \union {j}
    /\ status' = [status EXCEPT ![j] = "stopping"]
    /\ cause' = [cause EXCEPT ![j] = "kill"]
    /\ UNCHANGED <<store, announced, work, written>>

\* job_kill: the tool's result is the model's notice.
KillByModel(j) ==
    /\ busy /\ Kill(j)
    /\ killedByModel' = killedByModel \union {j}
    /\ UNCHANGED <<output, calls, told, spent, busy, owner>>

\* The kill button of the job list (packages/api/job-controller/src/index.ts).
KillByUser(j) == Kill(j) /\ UNCHANGED <<output, calls, controller, busy, owner>>

\* drop: the records of S go, with all that was kept of them but the verdict.
Drop(S) ==
    LET Blank(f, none) == [j \in Jobs |-> IF j \in S THEN none ELSE f[j]]
    IN  /\ store' = store \ S
        /\ cause' = Blank(cause, "none") /\ announced' = Blank(announced, "none")
        /\ written' = Blank(written, 0) /\ pulled' = Blank(pulled, 0)
        /\ ring' = Blank(ring, EmptyRing) /\ cursor' = Blank(cursor, 0)
        /\ broken' = broken \ S /\ gaps' = gaps \ S /\ asked' = asked \ S
        /\ killedByModel' = killedByModel \ S /\ told' = Blank(told, {})
        /\ UNCHANGED <<status, work, pump, calls, spent, busy>>

\* remove: a settled record is dropped on request, while calls may hold its id.
RemoveJob(j) ==
    /\ j \in store /\ status[j] \in Terminal
    /\ Drop({j})
    /\ UNCHANGED owner

-----------------------------------------------------------------------------
(* The owner *)

\* A message of a human opens a turn; claiming it refills the wake budget.
UserTurn ==
    /\ owner = "live" /\ ~busy
    /\ busy' = TRUE /\ spent' = 0
    /\ UNCHANGED <<registry, producer, output, calls, killedByModel, told, owner>>

TurnEnds ==
    /\ busy
    /\ \A c \in Callers : waiting[c] = NoJob /\ returning[c] = NoJob
    /\ busy' = FALSE
    /\ UNCHANGED <<registry, producer, output, calls, controller, owner>>

\* The owner's disposal cancels its turn.
OwnerLeaves ==
    /\ owner = "live"
    /\ owner' = "leaving"
    /\ UNCHANGED <<registry, producer, output, calls, controller, busy>>

\* Slip: a job whose cancel throws is left to its producer.
SettledByForceNone(thrown) == {}

\* A job whose cancel throws is settled: its producer may never be heard of again.
SettledByForce(thrown) == thrown

\* disposeOwned, run as an effect of the owner's scope once the turn is over:
\* cancelForTeardown asks every live job to stop.
DisposeOwned ==
    /\ owner = "leaving" /\ ~busy
    /\ owner' = "cleanup"
    /\ \E thrown \in SUBSET LiveJobs :
        /\ asked' = asked \union (LiveJobs \ thrown)
        /\ status' = [j \in Jobs |-> IF j \in SettledByForce(thrown) THEN "failed"
                                     ELSE IF j \in LiveJobs THEN "stopping"
                                     ELSE status[j]]
        /\ cause' = [j \in Jobs |-> IF j \in LiveJobs THEN "teardown" ELSE cause[j]]
        /\ Settle(SettledByForce(thrown), [j \in thrown |-> "teardown"])
    /\ UNCHANGED <<store, work, written, pump, source, cursor>>

\* Every owned job has settled: the records are dropped, and the agent leaves
\* its registry.
OwnerGone ==
    /\ owner = "cleanup" /\ LiveJobs = {}
    /\ owner' = "gone"
    /\ Drop(store)

-----------------------------------------------------------------------------
JobNext(j) ==
    \/ Start(j) \/ ProducerWrites(j) \/ PumpPolls(j) \/ PumpEnds(j) \/ ProducerSettles(j)
    \/ \E outcome \in Outcomes : ProducerEnds(j, outcome)
    \/ OutputRead(j) \/ KillByModel(j) \/ KillByUser(j) \/ RemoveJob(j)

CallNext(c) ==
    \/ \E j \in Jobs : WaitStarts(c, j)
    \/ WaitTimesOut(c) \/ WaitAborts(c) \/ WaitReturns(c)

Next ==
    \/ \E j \in Jobs : JobNext(j)
    \/ \E c \in Callers : CallNext(c)
    \/ UserTurn \/ TurnEnds \/ OwnerLeaves \/ DisposeOwned \/ OwnerGone

Spec == Init /\ [][Next]_vars

\* A producer that was asked to stop settles its promise (the contract of
\* JobHooks.cancel); promises and timers fire; a cancelled turn ends.
Fairness ==
    /\ \A j \in Jobs :
        /\ WF_vars(j \in asked /\ \E outcome \in Outcomes : ProducerEnds(j, outcome))
        /\ WF_vars(PumpEnds(j)) /\ WF_vars(ProducerSettles(j))
    /\ \A c \in Callers :
        /\ WF_vars(owner # "live" /\ WaitAborts(c)) /\ WF_vars(WaitReturns(c))
    /\ WF_vars(owner # "live" /\ TurnEnds)
    /\ WF_vars(DisposeOwned) /\ WF_vars(OwnerGone)

FairSpec == Spec /\ Fairness

-----------------------------------------------------------------------------
(* Properties *)

\* A settlement with a reader left reaches the model, and only once: the call
\* that waits for it returns, or the model killed the job itself, or a notice
\* is sent, never a notice on top of the others.
SettlementIsTold ==
    \A j \in Jobs :
        /\ announced[j] \in {"producer", "kill"} => told[j] # {}
        /\ "notice" \in told[j] => told[j] = {"notice"}

\* A call is registered exactly with the live job it waits for.
WaitsAreListed ==
    \A c \in Callers, j \in Jobs :
        (c \in waitResolvers[j]) <=> (waiting[c] = j /\ status[j] \in Live)

\* A job that its producer settles has had its source read to the end, unless the
\* source threw, and all of what was read is in the ring, but for the bytes that
\* a lossy read had lost by then: the pump's last drain precedes the settlement,
\* which closes the ring.
OutputPrecedesSettlement ==
    \A j \in Streams \ broken : announced[j] \in {"producer", "kill"} =>
        /\ pulled[j] = written[j]
        /\ j \notin gaps => ring[j].total = written[j]

\* No retained chunk lies across the cursor: a read never repeats a byte that
\* an earlier read returned, although reads return whole chunks.
ReadsNeverRepeat ==
    \A j \in Streams : \A at \in ChunksFrom(ring[j], cursor[j]) : at >= cursor[j]

\* Settling a job drops nothing the model has not read.
SettlingKeepsUnread ==
    [][\A j \in Streams :
        status[j] \in Live /\ status'[j] \in Terminal
            => \/ Earliest(ring'[j]) <= cursor[j]
               \/ Earliest(ring'[j]) = Earliest(ring[j])]_vars

\* The agent leaves only when every job it owned has settled and been dropped,
\* and none is started behind its back.
NoJobOutlivesItsOwner == owner = "gone" => store = {} /\ LiveJobs = {}

\* Why these hold.  A live job has its record, a settled one stays settled, and
\* nobody waits for a job that is not live.
LivesInv == \A j \in Jobs :
    /\ status[j] \in Live => j \in store
    /\ status[j] = "unborn" => j \notin store
    /\ announced[j] # "none" => status[j] \in Terminal
    /\ \A c \in Callers : waiting[c] = j => status[j] \in Live

\* The ring is never ahead of the pump, nor the pump of the source; short of a
\* lossy read an unsettled job's ring has what was pulled.  The pump ends at the end of
\* its source, unless that threw or the job was settled by force.
PumpInv == \A j \in Streams :
    /\ ring[j].total <= pulled[j] /\ pulled[j] <= written[j]
    /\ status[j] \notin Terminal /\ j \notin gaps => ring[j].total = pulled[j]
    /\ status[j] \in Live => pump[j] # "off"
    /\ status[j] \in Live /\ pump[j] = "ended" =>
        work[j] \in Terminal /\ (j \notin broken => pulled[j] = written[j])
    /\ announced[j] \in {"producer", "kill"} => work[j] \in Terminal

\* Only a stream has a pump.
StreamInv == \A j \in Jobs : pump[j] # "off" => j \in Streams

\* The cursor is where a chunk ends: it lies in none that is retained, unless the
\* model has read everything.  No chunk is empty.
RingInv == \A j \in Streams :
    /\ cursor[j] <= ring[j].total
    /\ \A at \in ring[j].starts :
        /\ at < ring[j].total
        /\ at < cursor[j] /\ cursor[j] < ring[j].total
                => \E next \in ring[j].starts : at < next /\ next <= cursor[j]

\* The registry's books.
BooksInv ==
    /\ TypeOK /\ SettlementIsTold /\ WaitsAreListed /\ NoJobOutlivesItsOwner
    /\ LivesInv /\ StreamInv /\ PumpInv

\* Every settlement with a reader left is told once, no call waits for a job that
\* would not wake it, no job outlives its owner, and no read ends inside a chunk.
JobsInv == BooksInv /\ RingInv

\* The events of every job follow the protocol its observers rely on.
Phase(j) ==
    IF status[j] = "unborn" THEN "unknown"
    ELSE IF status[j] \in Live THEN "live"
    ELSE IF j \in store THEN "settled" ELSE "removed"

Verdict(j) == IF status[j] \in Terminal THEN status[j] ELSE "open"

Events == INSTANCE JobPhases WITH phase <- [j \in Jobs |-> Phase(j)],
                                  verdict <- [j \in Jobs |-> Verdict(j)]
FollowsProtocol == Events!PhasesSpec

\* A disposal ends, even when a producer's cancel throws.
TeardownEnds == owner = "leaving" ~> owner = "gone"

\* A job whose producer is done settles, whatever its pump is doing.
DoneIsSettled == \A j \in Jobs : work[j] \in Terminal ~> status[j] \in Terminal

\* Nothing that has begun to end hangs: neither a job nor its owner's disposal.
JobsEnd == TeardownEnds /\ DoneIsSettled

\* What cancelForTeardown's comment promises: whatever settles a job that a
\* teardown has cancelled, nobody is told of it.
TeardownIsSilent ==
    [][owner = "cleanup" => \A j \in Jobs : "notice" \in told'[j] => "notice" \in told[j]]_vars
=============================================================================
