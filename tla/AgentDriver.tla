---------------------------- MODULE AgentDriver ----------------------------
(***************************************************************************)
(* The driver of one agent (packages/core/agent-loop/src/agent.ts): the     *)
(* phase machine idle / maintenance / running, the durable inbox it claims  *)
(* from, and the turn and step boundaries it writes to the session log.     *)
(*                                                                         *)
(* The driver is one coroutine.  pc names the await, the listener dispatch   *)
(* or the observed append at which other code can run next; an action is    *)
(* the code from one such point to the next.  Everybody else (users, hooks,  *)
(* plugins, tools, the lifecycle owner) acts through send, cancel,          *)
(* inbox.remove, runMaintenance and whenIdle, at every point where listener  *)
(* code can run.                                                           *)
(*                                                                         *)
(* Abstracted: message content, the prompt assembly, the request envelope,  *)
(* and the order in which a step's tool calls run (module ToolCalls).  An   *)
(* append of a boundary event that validation rejects is modelled for       *)
(* turn/start only; the repository logs the others and goes on.             *)
(***************************************************************************)
EXTENDS Naturals, Sequences, SequencesExt

CONSTANTS
    Messages,       \* user messages; each is sent at most once
    Calls,          \* identities of the tool calls of one step
    Causes,         \* causes a caller may pass to cancel
    MaxSteps,       \* bound: the model requests tools only before this step
    MaxAttempts     \* bound: model requests per step

None == "none"

ASSUME CausesAssumption == "disposed" \in Causes /\ None \notin Causes
ASSUME BoundsAssumption == MaxSteps \in Nat \ {0} /\ MaxAttempts \in Nat \ {0}

Targets == {"next-turn", "next-step"}

\* Where the running driver is suspended.
Points == {"boundary", "opened", "proposing", "preparing", "admitting", "streaming",
           "recovering", "calling", "unwinding", "stepClosed", "stopping", "erroring",
           "turnClosed", "leaving"}

\* Points whose log has an open turn, and those with an open step too.
InStep == {"preparing", "admitting", "streaming", "recovering", "calling", "unwinding"}
InTurn == InStep \union {"opened", "proposing", "stepClosed", "stopping", "erroring"}

\* Points at which only observers of a session append run.  They may abort the
\* activity, but Session.append rejects a nested append, so they cannot send.
AppendOnly == {"opened", "admitting", "unwinding", "stepClosed", "turnClosed"}

Endings == {"completed", "max-tokens", "blocked", "aborted", "error"}

VARIABLES
    phase,          \* "idle", "maintenance" or "running"
    pc,             \* suspension point of the driver, None without one
    turn,           \* phase.turn while running, phase.lastTurn otherwise
    step,           \* phase.step: last step the turn entered
    abort,          \* cause that aborted the activity's controller, or None
    wake,           \* phase.wakeRequested: a wake to replay at convergence
    inbox,          \* the two pending lists
    batch,          \* messages of the proposed, then of the entered step
    turnEnds,       \* how the open turn ends so far, or None
    attempt,        \* model requests this step has made
    entering,       \* messages the request being built has yet to append
    calls,          \* state of each tool call of the open step
    failed,         \* whether the step that just closed threw
    waiter,         \* one whenIdle caller, e.g. a disposer
    sent,           \* messages ever sent
    logged,         \* user/message events per message
    owed,           \* history: wakes that landed where no driver could serve them
    asked,          \* history: causes passed to cancel during this activity
    prompts,        \* history: next-turn messages claimed by the open turn
    ceiling,        \* history: a step of the open turn hit the token ceiling
    owesReply,      \* history: the last step ran tools the model has not answered
    logNextStep     \* history: the step number the log expects next

control  == <<phase, pc, turn, step, abort, wake>>
work     == <<batch, turnEnds, attempt, entering, calls, failed>>
mail     == <<inbox, sent, logged>>
history  == <<owed, asked, prompts, ceiling, owesReply, logNextStep>>
vars     == <<control, work, mail, history, waiter>>

-----------------------------------------------------------------------------
NextTurn == inbox["next-turn"]
NextStep == inbox["next-step"]
HasPending == NextTurn # <<>> \/ NextStep # <<>>
Pending == ToSet(NextTurn) \union ToSet(NextStep)

Aborted == abort # None

\* Listener code that may send, cancel or edit the inbox can run now.
Listening == phase = "running" => pc \notin AppendOnly

NoCalls == [c \in Calls |-> "none"]
Requested == {c \in Calls : calls[c] = "requested"}
Started == {c \in Calls : calls[c] = "started"}

TypeOK ==
    /\ phase \in {"idle", "maintenance", "running"}
    /\ pc \in Points \union {None}
    /\ turn \in Nat /\ step \in Nat
    /\ abort \in Causes \union {None}
    /\ wake \in BOOLEAN
    /\ inbox \in [Targets -> Seq(Messages)]
    /\ batch \subseteq Messages
    /\ turnEnds \in Endings \union {None}
    /\ attempt \in Nat
    /\ entering \subseteq Messages
    /\ calls \in [Calls -> {"none", "requested", "started", "answered"}]
    /\ failed \in BOOLEAN
    /\ waiter \in {"off", "watching", "settled", "superseded"}
    /\ sent \subseteq Messages
    /\ logged \in [Messages -> Nat]
    /\ owed \subseteq Messages
    /\ asked \subseteq Causes
    /\ prompts \in Nat
    /\ ceiling \in BOOLEAN /\ owesReply \in BOOLEAN
    /\ logNextStep \in Nat \ {0}

Init ==
    /\ phase = "idle" /\ pc = None
    /\ turn = 0 /\ step = 0
    /\ abort = None /\ wake = FALSE
    /\ inbox = [t \in Targets |-> <<>>]
    /\ batch = {} /\ turnEnds = None /\ attempt = 0 /\ entering = {}
    /\ calls = NoCalls /\ failed = FALSE
    /\ waiter = "off"
    /\ sent = {} /\ logged = [m \in Messages |-> 0]
    /\ owed = {} /\ asked = {} /\ prompts = 0
    /\ ceiling = FALSE /\ owesReply = FALSE
    /\ logNextStep = 1

-----------------------------------------------------------------------------
(* Callers. *)

\* Slip: wakeDriver starts a driver without replacing activityDone.
KeepPromise(w) == w

\* A whenIdle caller holds the activity promise it read; a new activity
\* installs another promise, so the caller has to look again.
Supersede(w) == IF w = "off" THEN "off" ELSE "superseded"

\* wakeDriver on an idle agent: reserve the phase and start the driver.
StartDriver ==
    /\ phase' = "running" /\ pc' = "boundary"
    /\ step' = 0 /\ abort' = None /\ wake' = FALSE
    /\ asked' = {}
    /\ waiter' = Supersede(waiter)
    /\ UNCHANGED turn

\* Slip: only maintenance latches a wake, as before the convergence latch.
LatchesMaintenanceOnly(late) == abort # "disposed" /\ phase = "maintenance"

\* wakeDriver on a busy agent: latch the wake where the activity cannot serve it.
Latches(late) ==
    abort # "disposed" /\ (phase = "maintenance" \/ late)

WakeDriver(late) ==
    \/ phase = "idle" /\ StartDriver
    \/ /\ phase # "idle"
       /\ wake' = (wake \/ Latches(late))
       /\ UNCHANGED <<phase, pc, turn, step, abort, asked, waiter>>

\* A waking send cannot join an aborted activity: it goes to the next turn.
JoinsLate(wakeup) == wakeup /\ phase # "idle" /\ Aborted

SendTarget(target, wakeup) == IF JoinsLate(wakeup) THEN "next-turn" ELSE target

\* send; followup, steer and inject are its fixed presets.
Send(m, target, wakeup) ==
    /\ Listening
    /\ m \notin sent
    /\ inbox' = [inbox EXCEPT ![SendTarget(target, wakeup)] = Append(@, m)]
    /\ sent' = sent \union {m}
    /\ \/ wakeup /\ WakeDriver(JoinsLate(wakeup))
       \/ ~wakeup /\ UNCHANGED <<control, asked, waiter>>
    /\ owed' = IF wakeup /\ phase # "idle" /\ abort # "disposed"
                         /\ (phase = "maintenance" \/ Aborted)
               THEN owed \union {m} ELSE owed
    /\ UNCHANGED <<work, logged, prompts, ceiling, owesReply, logNextStep>>

\* cancel.  The first cause wins; a later one leaves the controller alone.
\* Clearing a non-empty inbox appends, so an append observer cannot do it.
Cancel(cause, keepInbox) ==
    /\ keepInbox \/ Listening \/ ~HasPending
    /\ inbox' = IF keepInbox THEN inbox ELSE [t \in Targets |-> <<>>]
    /\ wake' = IF ~keepInbox /\ phase # "idle" THEN FALSE ELSE wake
    /\ abort' = IF phase # "idle" /\ ~Aborted THEN cause ELSE abort
    /\ asked' = IF phase # "idle" THEN asked \union {cause} ELSE asked
    /\ owed' = IF ~keepInbox \/ (~Aborted /\ (phase = "running" \/ cause = "disposed"))
               THEN {} ELSE owed
    /\ UNCHANGED <<phase, pc, turn, step, work, sent, logged, waiter,
                   prompts, ceiling, owesReply, logNextStep>>

\* inbox.remove: take one pending message back.
TakeBack(target, i) ==
    /\ Listening
    /\ inbox' = [inbox EXCEPT ![target] = RemoveAt(@, i)]
    /\ UNCHANGED <<control, work, sent, logged, history, waiter>>

\* runMaintenance throws unless the agent is truly idle.
MaintenanceStarts ==
    /\ phase = "idle"
    /\ phase' = "maintenance"
    /\ abort' = None /\ wake' = FALSE /\ asked' = {}
    /\ waiter' = Supersede(waiter)
    /\ UNCHANGED <<pc, turn, step, work, mail, owed, prompts, ceiling, owesReply, logNextStep>>

\* The activity ends: its promise settles, and a latched wake is replayed by a
\* new driver while there is still something to claim.
GoIdle ==
    /\ phase' = "idle" /\ pc' = None /\ abort' = None /\ wake' = FALSE
    /\ asked' = {}
    /\ waiter' = IF waiter = "watching" THEN "settled" ELSE waiter
    /\ UNCHANGED <<turn, step>>

MaintenanceEnds ==
    /\ phase = "maintenance"
    /\ IF abort # "disposed" /\ wake /\ HasPending THEN StartDriver ELSE GoIdle
    /\ UNCHANGED <<work, mail, owed, prompts, ceiling, owesReply, logNextStep>>

\* whenIdle awaits the current activity and looks again until it did not change.
WaitBegins ==
    /\ waiter = "off"
    /\ waiter' = IF phase = "idle" THEN "settled" ELSE "watching"
    /\ UNCHANGED <<control, work, mail, history>>

WaitLooksAgain ==
    /\ waiter = "superseded"
    /\ waiter' = IF phase = "idle" THEN "settled" ELSE "watching"
    /\ UNCHANGED <<control, work, mail, history>>

WaitResolves ==
    /\ waiter = "settled"
    /\ waiter' = "off"
    /\ UNCHANGED <<control, work, mail, history>>

-----------------------------------------------------------------------------
(* The turn. *)

\* The turn closes with turn/end.  A normal ending goes on to look for queued
\* work; a blocked, empty or failed one makes the driver leave.
CloseTurn(ending, to) ==
    /\ turnEnds' = ending
    /\ pc' = to

\* The catch of turn(): an aborted turn closes with the cause, any other
\* failure is reported to agent/error listeners before it closes.
FailTurn ==
    \/ Aborted /\ CloseTurn("aborted", "leaving")
    \/ ~Aborted /\ turnEnds' = "error" /\ pc' = "erroring"

\* turn() begins: an aborted activity throws before it opens a turn.
TurnStart ==
    /\ pc = "boundary" /\ ~Aborted
    /\ pc' = "opened"
    /\ turn' = turn + 1
    /\ turnEnds' = None
    /\ logNextStep' = 1
    /\ owed' = {} /\ prompts' = 0 /\ ceiling' = FALSE /\ owesReply' = FALSE
    /\ UNCHANGED <<phase, step, abort, wake, batch, attempt, entering, calls, failed,
                   mail, asked, waiter>>

\* turn/start was rejected by validation: reported, and the driver stops.
TurnStartRejected ==
    /\ pc = "boundary" /\ ~Aborted
    /\ pc' = "leaving"
    /\ owed' = {}
    /\ UNCHANGED <<phase, turn, step, abort, wake, work, mail, waiter,
                   asked, prompts, ceiling, owesReply, logNextStep>>

AbortedBeforeTurn ==
    /\ pc = "boundary" /\ Aborted
    /\ pc' = "leaving"
    /\ UNCHANGED <<phase, turn, step, abort, wake, work, mail, history, waiter>>

\* The first proposal of a turn also claims one queued prompt.
ClaimTarget == IF step = 0 THEN "next-turn" ELSE "next-step"

Prompt(target) == IF target = "next-turn" /\ NextTurn # <<>> THEN {Head(NextTurn)} ELSE {}

\* inbox.claim, then preStep waits for the assembly and its listeners.
Propose ==
    /\ batch' = ToSet(NextStep) \union Prompt(ClaimTarget)
    /\ inbox' = [inbox EXCEPT
                   !["next-step"] = <<>>,
                   !["next-turn"] = IF Prompt(ClaimTarget) = {} THEN @ ELSE Tail(@)]
    /\ prompts' = IF Prompt(ClaimTarget) = {} THEN prompts ELSE prompts + 1
    /\ pc' = "proposing"

FirstProposal ==
    /\ pc = "opened" /\ ~Aborted
    /\ Propose
    /\ UNCHANGED <<phase, turn, step, abort, wake, turnEnds, attempt, entering, calls, failed,
                   sent, logged, owed, asked, ceiling, owesReply, logNextStep, waiter>>

\* The loop head finds the activity aborted, or a pre-step listener, the
\* assembly or a turn-stopping listener throws.
TurnThrows ==
    /\ \/ pc = "opened" /\ Aborted
       \/ pc \in {"proposing", "stopping"}
    /\ FailTurn
    /\ UNCHANGED <<phase, turn, step, abort, wake, batch, attempt, entering, calls, failed,
                   mail, history, waiter>>

Rejected ==
    /\ pc = "proposing" /\ ~Aborted
    /\ CloseTurn("blocked", "leaving")
    /\ UNCHANGED <<phase, turn, step, abort, wake, batch, attempt, entering, calls, failed,
                   mail, history, waiter>>

\* The listeners let an empty batch through: a turn that was already ending
\* ends, and a turn without a step spends no model call.
EnteredEmpty ==
    /\ pc = "proposing" /\ ~Aborted
    /\ \/ turnEnds # None /\ CloseTurn(turnEnds, "turnClosed")
       \/ turnEnds = None /\ step = 0 /\ CloseTurn("completed", "leaving")
    /\ batch' = {}
    /\ UNCHANGED <<phase, turn, step, abort, wake, attempt, entering, calls, failed,
                   mail, history, waiter>>

\* The step opens with the messages the listeners kept.  extra is a message
\* they, or the runtime context, added; a tool continuation may be empty.
StepStart(kept, extra) ==
    /\ pc = "proposing" /\ ~Aborted
    /\ kept # {} \/ extra \/ (turnEnds = None /\ step > 0)
    /\ batch' = kept
    /\ step' = step + 1
    /\ attempt' = 1 /\ calls' = NoCalls
    /\ pc' = "preparing"
    /\ UNCHANGED <<phase, turn, abort, wake, turnEnds, entering, failed, mail, history, waiter>>

-----------------------------------------------------------------------------
(* The step. *)

\* Slip: the first-attempt guard is lost, so a retry logs the batch again.
AdmittedEveryAttempt == batch

\* The first attempt admits the batch to the log.
Admitted == IF attempt = 1 THEN batch ELSE {}

\* The configuration is resolved; what follows up to BuildRequest appends only.
RequestPrepared ==
    /\ pc = "preparing" /\ ~Aborted
    /\ entering' = Admitted
    /\ pc' = "admitting"
    /\ UNCHANGED <<phase, turn, step, abort, wake, batch, turnEnds, attempt, calls, failed,
                   mail, history, waiter>>

\* user/message: an observed append.  The loop does not look at the signal, so
\* the rest of the batch follows although an observer aborted the activity.
AdmitMessage(m) ==
    /\ pc = "admitting" /\ m \in entering
    /\ entering' = entering \ {m}
    /\ logged' = [logged EXCEPT ![m] = @ + 1]
    /\ UNCHANGED <<control, batch, turnEnds, attempt, calls, failed, inbox, sent, history, waiter>>

\* Slip: the request is built without looking at the signal again.
BuildUnchecked ==
    /\ pc = "admitting" /\ entering = {}
    /\ pc' = "streaming"
    /\ UNCHANGED <<phase, turn, step, abort, wake, work, mail, history, waiter>>

\* buildRequest: the envelope is logged, the abort is seen, the request goes out.
BuildRequest ==
    /\ pc = "admitting" /\ entering = {} /\ ~Aborted
    /\ pc' = "streaming"
    /\ UNCHANGED <<phase, turn, step, abort, wake, work, mail, history, waiter>>

\* Slip: step/end is appended after a returning step only, not in a finally.
CloseReturningStep(threw) ==
    /\ pc' = "stepClosed"
    /\ failed' = threw
    /\ logNextStep' = IF threw THEN logNextStep ELSE logNextStep + 1

\* step/end is appended; failed tells the turn whether the step threw.
CloseStep(threw) ==
    /\ pc' = "stepClosed"
    /\ failed' = threw
    /\ logNextStep' = logNextStep + 1

\* Slip: a request-error wait is not ended by cancellation.
StepThrowsUnlessRecovering ==
    /\ pc \in {"preparing", "admitting", "streaming"}
    /\ entering' = {}
    /\ CloseStep(TRUE)
    /\ UNCHANGED <<phase, turn, step, abort, wake, batch, turnEnds, attempt, calls, mail,
                   owed, asked, prompts, ceiling, owesReply, waiter>>

\* Preparing, an append, streaming or recovering threw, or found the activity
\* aborted: no tool call is outstanding, so step/end follows.
StepThrows ==
    /\ pc \in {"preparing", "admitting", "streaming", "recovering"}
    /\ entering' = {}
    /\ CloseStep(TRUE)
    /\ UNCHANGED <<phase, turn, step, abort, wake, batch, turnEnds, attempt, calls, mail,
                   owed, asked, prompts, ceiling, owesReply, waiter>>

\* The model finished with an error: request-error listeners may retry.
RequestFails ==
    /\ pc = "streaming" /\ ~Aborted
    /\ pc' = "recovering"
    /\ UNCHANGED <<phase, turn, step, abort, wake, work, mail, history, waiter>>

Retry ==
    /\ pc = "recovering" /\ ~Aborted
    /\ attempt < MaxAttempts
    /\ attempt' = attempt + 1
    /\ pc' = "preparing"
    /\ UNCHANGED <<phase, turn, step, abort, wake, batch, turnEnds, entering, calls, failed,
                   mail, history, waiter>>

\* How a returning step changes the turn's ending: max-tokens is sticky.
EndingAfter(stepEnd) == IF turnEnds = "max-tokens" THEN turnEnds ELSE stepEnd

StepReturns(stepEnd) ==
    /\ turnEnds' = EndingAfter(stepEnd)
    /\ ceiling' = (ceiling \/ stepEnd = "max-tokens")
    /\ owesReply' = (stepEnd = None)
    /\ CloseStep(FALSE)

\* The model answered without tool calls, or ran into the token ceiling
\* (whose tool calls the assembler drops).
ModelFinishes(stepEnd) ==
    /\ pc = "streaming" /\ ~Aborted
    /\ StepReturns(stepEnd)
    /\ UNCHANGED <<phase, turn, step, abort, wake, batch, attempt, entering, calls, mail,
                   owed, asked, prompts, waiter>>

ModelRequestsTools(requested) ==
    /\ pc = "streaming" /\ ~Aborted
    /\ step < MaxSteps
    /\ calls' = [c \in Calls |-> IF c \in requested THEN "requested" ELSE "none"]
    /\ pc' = "calling"
    /\ UNCHANGED <<phase, turn, step, abort, wake, batch, turnEnds, attempt, entering, failed,
                   mail, history, waiter>>

\* tool/call: a call starts, or is recorded as skipped after an abort.
CallStarts(c) ==
    /\ pc = "calling" /\ calls[c] = "requested"
    /\ calls' = [calls EXCEPT ![c] = "started"]
    /\ UNCHANGED <<control, batch, turnEnds, attempt, entering, failed, mail, history, waiter>>

\* tool/result, and the contexts the result carries for the next step.
CallSettles(c, contexts) ==
    /\ pc = "calling" /\ calls[c] = "started"
    /\ calls' = [calls EXCEPT ![c] = "answered"]
    /\ ToSet(contexts) \intersect sent = {}
    /\ inbox' = [inbox EXCEPT !["next-step"] = @ \o contexts]
    /\ sent' = sent \union ToSet(contexts)
    /\ UNCHANGED <<control, batch, turnEnds, attempt, entering, failed, logged, history, waiter>>

ToolsDone(concluded) ==
    /\ pc = "calling" /\ Requested = {} /\ Started = {}
    /\ StepReturns(IF concluded THEN "completed" ELSE None)
    /\ UNCHANGED <<phase, turn, step, abort, wake, batch, attempt, entering, calls, mail,
                   owed, asked, prompts, waiter>>

\* Slip: the failing step closes without ToolCallRecovery.
SchedulerFailsUnanswered ==
    /\ pc = "calling"
    /\ CloseStep(TRUE)
    /\ UNCHANGED <<phase, turn, step, abort, wake, batch, turnEnds, attempt, entering, calls, mail,
                   owed, asked, prompts, ceiling, owesReply, waiter>>

\* The scheduler throws with calls outstanding.
SchedulerFails ==
    /\ pc = "calling"
    /\ pc' = "unwinding"
    /\ UNCHANGED <<phase, turn, step, abort, wake, work, mail, history, waiter>>

\* ToolCallRecovery answers every unanswered request before step/end.
RecoverResult(c) ==
    /\ pc = "unwinding" /\ calls[c] \in {"requested", "started"}
    /\ calls' = [calls EXCEPT ![c] = "answered"]
    /\ UNCHANGED <<control, batch, turnEnds, attempt, entering, failed, mail, history, waiter>>

StepUnwound ==
    /\ pc = "unwinding" /\ Requested = {} /\ Started = {}
    /\ CloseStep(TRUE)
    /\ UNCHANGED <<phase, turn, step, abort, wake, batch, turnEnds, attempt, entering, calls, mail,
                   owed, asked, prompts, ceiling, owesReply, waiter>>

-----------------------------------------------------------------------------
(* After the step. *)

AfterStepThrows ==
    /\ pc = "stepClosed" /\ (failed \/ Aborted)
    /\ FailTurn
    /\ UNCHANGED <<phase, turn, step, abort, wake, batch, attempt, entering, calls, failed,
                   mail, history, waiter>>

\* The turn is ending and no steering waits: turn-stopping listeners may object.
AskToStop ==
    /\ pc = "stepClosed" /\ ~failed /\ ~Aborted
    /\ turnEnds # None /\ NextStep = <<>>
    /\ pc' = "stopping"
    /\ UNCHANGED <<phase, turn, step, abort, wake, work, mail, history, waiter>>

\* The tools ran, or steering waits: propose the next step.
ProposeAgain ==
    /\ ~Aborted
    /\ \/ pc = "stepClosed" /\ ~failed /\ (turnEnds = None \/ NextStep # <<>>)
       \/ pc = "stopping" /\ NextStep # <<>>
    /\ Propose
    /\ UNCHANGED <<phase, turn, step, abort, wake, turnEnds, attempt, entering, calls, failed,
                   sent, logged, owed, asked, ceiling, owesReply, logNextStep, waiter>>

Stop ==
    /\ pc = "stopping" /\ ~Aborted /\ NextStep = <<>>
    /\ CloseTurn(turnEnds, "turnClosed")
    /\ UNCHANGED <<phase, turn, step, abort, wake, batch, attempt, entering, calls, failed,
                   mail, history, waiter>>

\* agent/error listeners have run; the failed turn closes.
CloseFailedTurn ==
    /\ pc = "erroring"
    /\ CloseTurn("error", "leaving")
    /\ UNCHANGED <<phase, turn, step, abort, wake, batch, attempt, entering, calls, failed,
                   mail, history, waiter>>

\* Queued work gets a fresh controller and another turn of the same driver.
NextQueuedTurn ==
    /\ pc = "turnClosed" /\ HasPending
    /\ pc' = "boundary"
    /\ abort' = None /\ wake' = FALSE /\ step' = 0
    /\ asked' = {}
    /\ UNCHANGED <<phase, turn, work, mail, waiter, owed, prompts, ceiling, owesReply, logNextStep>>

QueueDrained ==
    /\ pc = "turnClosed" /\ ~HasPending
    /\ pc' = "leaving"
    /\ UNCHANGED <<phase, turn, step, abort, wake, work, mail, history, waiter>>

\* Slip: kick's finally forgets the latched wake.
LeaveWithoutReplay ==
    /\ pc = "leaving"
    /\ GoIdle
    /\ UNCHANGED <<work, mail, owed, prompts, ceiling, owesReply, logNextStep>>

\* kick's finally: idle, and the latched wake replayed.
Leave ==
    /\ pc = "leaving"
    /\ IF wake /\ HasPending THEN StartDriver ELSE GoIdle
    /\ UNCHANGED <<work, mail, owed, prompts, ceiling, owesReply, logNextStep>>

-----------------------------------------------------------------------------
TurnStep ==
    \/ TurnStart \/ TurnStartRejected \/ AbortedBeforeTurn
    \/ FirstProposal \/ TurnThrows \/ Rejected \/ EnteredEmpty
    \/ \E kept \in SUBSET batch, extra \in BOOLEAN : StepStart(kept, extra)
    \/ AfterStepThrows \/ AskToStop \/ ProposeAgain \/ Stop \/ CloseFailedTurn
    \/ NextQueuedTurn \/ QueueDrained \/ Leave

ModelStep ==
    \/ RequestPrepared \/ BuildRequest \/ StepThrows \/ RequestFails \/ Retry
    \/ \E m \in Messages : AdmitMessage(m)
    \/ \E stepEnd \in {"completed", "max-tokens"} : ModelFinishes(stepEnd)
    \/ \E requested \in SUBSET Calls \ {{}} : ModelRequestsTools(requested)
    \/ \E c \in Calls :
          \/ CallStarts(c) \/ RecoverResult(c)
          \/ \E contexts \in {<<>>} \union {<<m>> : m \in Messages} : CallSettles(c, contexts)
    \/ \E concluded \in BOOLEAN : ToolsDone(concluded)
    \/ SchedulerFails \/ StepUnwound

DriverStep == TurnStep \/ ModelStep

CallerStep ==
    \/ \E m \in Messages, target \in Targets, wakeup \in BOOLEAN : Send(m, target, wakeup)
    \/ \E cause \in Causes, keepInbox \in BOOLEAN : Cancel(cause, keepInbox)
    \/ \E target \in Targets : \E i \in DOMAIN inbox[target] : TakeBack(target, i)
    \/ MaintenanceStarts
    \/ WaitBegins

Next == DriverStep \/ CallerStep \/ MaintenanceEnds \/ WaitLooksAgain \/ WaitResolves

Spec == Init /\ [][Next]_vars

\* Every await of the driver and of a maintenance task settles: the model
\* stream, the listeners and the tools observe their abort signal
\* cooperatively, and the event loop runs every ready continuation.
FairSpec == Spec /\ WF_vars(DriverStep) /\ WF_vars(MaintenanceEnds)

-----------------------------------------------------------------------------
(* Properties. *)

\* A wake that lands where no driver can serve it (behind an aborted turn or
\* a maintenance task) is never stranded: when the agent is idle, every such
\* message was taken back, cancelled, or given a turn.
LatchedWakeIsReplayed == phase = "idle" => owed \intersect Pending = {}

\* whenIdle resolves only on an idle agent, and never waits for an activity
\* that already ended; disposal relies on both to reach quiescence.
WhenIdleIsQuiescent ==
    /\ waiter = "settled" => phase = "idle"
    /\ waiter = "watching" => phase # "idle"

\* However often a request is retried or a turn fails, a message enters the
\* model-visible history at most once, and never while it is still pending; and
\* a queued prompt is the sole ordinary message of its own turn.
AdmittedOnce ==
    /\ \A m \in Messages :
        /\ logged[m] <= 1
        /\ logged[m] = 1 => m \notin Pending
    /\ prompts <= 1

\* Cancellation stops the turn: once aborted, no step opens, no batch begins to
\* enter the history and no model request goes out, until a fresh controller
\* exists.  An abort in the middle of a batch lets the rest of it enter (the
\* appends of agent.ts 417-421 precede the next look at the signal), and nothing else.
AbortStopsTheModel ==
    [][Aborted => /\ step' \in {step, 0}
                  /\ pc' = "admitting" => pc = "admitting"
                  /\ pc' = "streaming" => pc = "streaming"
                  /\ \A m \in Messages : logged'[m] # logged[m] => m \in entering]_vars

\* Providers reject dangling tool requests: when a step closes, however it
\* ends, every call the model requested has been answered.
EveryRequestAnswered ==
    [][(pc \in InStep /\ pc' \notin InStep) =>
          \A c \in Calls : calls[c] \in {"none", "answered"}]_vars

\* A turn in which some step hit the token ceiling never ends as completed.
CeilingIsReported ==
    [][(pc \in InTurn /\ pc' \notin InTurn /\ ceiling) => turnEnds' # "completed"]_vars

\* What a step may never do, through retries, aborts and failures.
StepsAreAccountedFor == AbortStopsTheModel /\ EveryRequestAnswered /\ CeilingIsReported

\* The driver writes only logs the session's relational invariant accepts.
Trace == INSTANCE SessionTrace WITH
    openTurn <- IF pc \in InTurn THEN turn ELSE 0,
    openStep <- IF pc \in InStep THEN step ELSE 0,
    nextTurn <- IF pc \in InTurn THEN turn ELSE turn + 1,
    nextStep <- logNextStep,
    pendingCalls <- Started

RefinesTrace == Trace!TraceSpec

\* Why these hold: the inductive invariant, in five parts.
\* An idle agent holds no controller and no latch, and a whenIdle caller's
\* view of the activity promise is right.
PhaseInv ==
    /\ phase = "running" <=> pc # None
    /\ phase = "idle" => ~Aborted /\ ~wake
    /\ WhenIdleIsQuiescent

\* A wake that is owed a turn is latched on the activity that will replay it,
\* or a driver is just about to serve it.
OwedInv ==
    /\ owed \subseteq sent
    /\ owed \intersect Pending # {} =>
          \/ /\ wake /\ abort # "disposed"
             /\ phase = "maintenance" \/ (phase = "running" /\ Aborted)
          \/ pc = "boundary" /\ ~Aborted

\* The driver's counters and the calls it runs agree with the log it wrote.
LogInv ==
    /\ pc \in InTurn => turn > 0
    /\ pc = "boundary" => step = 0
    /\ pc \in {"opened", "proposing", "stepClosed", "stopping"} => logNextStep = step + 1
    /\ pc \in InStep => step = logNextStep /\ step > 0
    /\ pc \notin {"calling", "unwinding"} => Started = {}

\* Outside the two points that run calls none is unanswered, retries are counted
\* from one, and a turn that met the token ceiling ends with it or fails.
StepInv ==
    /\ pc \notin {"calling", "unwinding"} => Requested = {}
    /\ pc \in InStep => attempt > 0
    /\ pc \in InStep \union {"stepClosed", "stopping"} => step > 0
    /\ pc \in InTurn \ {"erroring"} /\ ceiling => turnEnds = "max-tokens"

\* A message is pending in one place, then claimed, then logged, and never comes
\* back; only the first proposal of a turn claims a prompt.
MailInv ==
    /\ AdmittedOnce
    /\ IsInjective(NextTurn) /\ IsInjective(NextStep)
    /\ ToSet(NextTurn) \intersect ToSet(NextStep) = {}
    /\ Pending \union batch \subseteq sent
    /\ batch \intersect Pending = {}
    /\ \A m \in Messages \ sent : logged[m] = 0
    /\ pc = "proposing" \/ (pc = "preparing" /\ attempt = 1) => \A m \in batch : logged[m] = 0
    /\ pc = "opened" => prompts = 0
    /\ entering \subseteq batch /\ \A m \in entering : logged[m] = 0
    /\ pc # "admitting" => entering = {}

DriverInv == PhaseInv /\ OwedInv /\ LogInv /\ StepInv /\ MailInv

\* An aborted activity converges: the driver goes idle or moves to a turn with
\* a fresh controller.
AbortConverges == (phase # "idle" /\ Aborted) ~> ~Aborted

\* A latched wake is eventually given a turn, taken back or cancelled.
LatchedWakeIsServed ==
    \A m \in Messages : m \in owed \intersect Pending ~> m \notin owed \intersect Pending

\* Documented: agent/turn-stopping runs when "the model owes no response (no
\* live tool calls, no fresh steering)".
StoppingOwesNoReply == pc = "stopping" => ~owesReply

\* Documented: "disposal never latches, so teardown waits on no model turn".
DisposalNeverLatches == [][("disposed" \in asked /\ ~wake) => ~wake']_vars
=============================================================================
