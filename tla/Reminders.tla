----------------------------- MODULE Reminders -----------------------------
(***************************************************************************)
(* Scheduled reminders: the tasks a host stores                             *)
(* (packages/schedule/schedule/src/index.ts, storage.ts) and the runtime     *)
(* that turns a due task into a message in its session's inbox (runtime.ts). *)
(* One timer, one drive at a time, and one queue that the drive shares with  *)
(* every management operation.                                              *)
(*                                                                         *)
(* pc is where the drive loop is suspended; slot says that the loop holds    *)
(* the shared queue.  A management operation has one await, its write, so it  *)
(* is one action in a free slot.  The process may die anywhere: rows and      *)
(* flushed messages survive, the rest is lost.                              *)
(*                                                                         *)
(* External: the session controller that resolves the agent, the session     *)
(* store that flushes, the table whose put and delete are durable when they   *)
(* resolve, the wall clock, which may be set back, and the agent registry,    *)
(* which the unload of an ancestor closes before it disposes this service.    *)
(*                                                                         *)
(* Abstracted: titles and prompts; the order in which waiting operations get  *)
(* the queue; an update refused by its expected record, which writes nothing;  *)
(* the clamp of very long delays; calendar rules, whose next target is a       *)
(* number like every other; pruning of the delivery history.                *)
(***************************************************************************)
EXTENDS Naturals, FiniteSets

CONSTANTS
    Tasks,          \* identities of the tasks that may be created
    Recurring,      \* those with an every rule; the others fire once
    SessionOf,      \* the session a task is bound to
    IntervalOf,     \* the interval of a recurring task
    MaxTime,        \* bound: the wall clock
    MaxRollbacks,   \* bound: how often the clock is set back
    MaxStops        \* bound: how often the service is disposed or the process dies

ASSUME TasksAssumption == Recurring \subseteq Tasks
ASSUME IntervalAssumption == \A t \in Recurring : IntervalOf[t] \in Nat \ {0}
ASSUME BoundsAssumption == MaxTime \in Nat /\ MaxRollbacks \in Nat /\ MaxStops \in Nat

Status == {"unborn", "active", "inactive", "deleted"}
NoTimer == MaxTime + MaxTime + 10

VARIABLES
    rows,       \* the stored tasks
    lastDelivery, \* occurrence of the receipt saved last under a row's rule; 0 is none
    inbox,      \* newest occurrence whose message is durable in the session
    now, rollbacks,
    stops,
    up,         \* the service is running
    stopping,   \* its disposal has begun
    admission,  \* the agent registry: open, closed, or refused once it has turned a drive away
    timer,      \* target the armed timer was set for, or NoTimer
    requested,
    pc,         \* none, queued, next, resolving, flushing, committing, looping, ending
    due,        \* the scan's snapshot: the tasks it found due, and their records
    handled,    \* tasks of this drive that need no further attention
    admitted,   \* members of the current group
    occurrence, \* occurrence that the current message announces for each member
    committed,  \* members whose delivery is stored
    failed      \* tasks this drive leaves without a timer

clock   == <<now, rollbacks>>
host    == <<up, stops, stopping, admission>>
drive   == <<due, handled, admitted, occurrence, committed, failed>>
durable == <<rows, lastDelivery, inbox>>
vars    == <<durable, clock, host, timer, requested, pc, drive>>

Record == [status : Status, at : Nat]
Active == {t \in Tasks : rows[t].status = "active"}

TypeOK ==
    /\ rows \in [Tasks -> Record]
    /\ lastDelivery \in [Tasks -> Nat] /\ inbox \in [Tasks -> Nat]
    /\ now \in Nat /\ rollbacks \in Nat /\ stops \in Nat
    /\ up \in BOOLEAN /\ stopping \in BOOLEAN /\ requested \in BOOLEAN
    /\ admission \in {"open", "closed", "refused"}
    /\ timer \in Nat
    /\ pc \in {"none", "queued", "next", "resolving", "flushing", "committing", "looping", "ending"}
    /\ due \in [Tasks -> Record]
    /\ handled \subseteq Tasks /\ admitted \subseteq Tasks /\ committed \subseteq Tasks
    /\ failed \subseteq Tasks
    /\ occurrence \in [Tasks -> Nat]

Blank == [t \in Tasks |-> [status |-> "unborn", at |-> 0]]
slot == pc \in {"next", "resolving", "flushing", "committing"}

Init ==
    /\ rows = Blank
    /\ lastDelivery = [t \in Tasks |-> 0] /\ inbox = [t \in Tasks |-> 0]
    /\ now = 1 /\ rollbacks = 0 /\ stops = 0
    /\ up = TRUE /\ stopping = FALSE /\ admission = "open"
    /\ timer = NoTimer /\ requested = FALSE /\ pc = "queued"
    /\ due = Blank /\ handled = {} /\ admitted = {} /\ committed = {} /\ failed = {}
    /\ occurrence = [t \in Tasks |-> 0]

-----------------------------------------------------------------------------
(* The drive loop *)

\* requestDrive: the timer is recomputed by the drive this starts, or by the
\* next pass of the loop that is running.
DriveAsked ==
    /\ pc # "none" \/ admission = "open"
    /\ requested' = (pc # "none")
    /\ pc' = IF pc = "none" THEN "queued" ELSE pc
    /\ UNCHANGED admission

\* Its catch block: the agent registry admits no drive any more, and the request
\* is dropped with the timer.
DriveRefused ==
    /\ pc = "none" /\ admission # "open"
    /\ requested' = FALSE
    /\ admission' = "refused"
    /\ UNCHANGED pc

RequestDrive ==
    /\ ~stopping
    /\ timer' = NoTimer
    /\ DriveAsked \/ DriveRefused
    /\ UNCHANGED <<up, stops, stopping>>

\* The head of drive: take the queue's slot and remember what is due.
Scan ==
    /\ up /\ pc = "queued"
    /\ pc' = "next"
    /\ timer' = NoTimer
    /\ handled' = {} /\ failed' = {}
    /\ due' = [t \in Tasks |-> IF t \in Active /\ rows[t].at <= now THEN rows[t] ELSE Blank[t]]
    /\ UNCHANGED <<durable, clock, host, requested, admitted, occurrence, committed>>

Due == {t \in Tasks : due[t].status = "active"}

\* The recurring tasks of one session share a message; any other task has its own.
GroupOf(t) ==
    IF t \in Recurring
    THEN {u \in Due \intersect Recurring : SessionOf[u] = SessionOf[t]}
    ELSE {t}

\* The loop takes the next task and awaits the agent of its session.
TakeGroup ==
    /\ pc = "next" /\ ~stopping
    /\ \E t \in Due \ handled :
        /\ handled' = handled \union GroupOf(t)
        /\ admitted' = GroupOf(t)
    /\ committed' = {}
    /\ pc' = "resolving"
    /\ UNCHANGED <<durable, clock, host, timer, requested, due, occurrence, failed>>

\* Both returns of drive release the slot; what the scan knew is forgotten.
LeaveSlot ==
    /\ pc' = "looping"
    /\ due' = Blank /\ handled' = {} /\ admitted' = {} /\ committed' = {}
    /\ occurrence' = [t \in Tasks |-> 0]

\* Slip: the timer is left to whoever asks for the next drive.
NearestForgotten(at) == at = NoTimer

\* at is the nearest target of the active tasks that did not fail.
Nearest(at) ==
    IF Active \subseteq failed THEN at = NoTimer
    ELSE /\ \E t \in Active \ failed : at = rows[t].at
         /\ \A t \in Active \ failed : at <= rows[t].at

\* Nothing is left: the timer is set.
DriveEnds ==
    /\ pc = "next" /\ ~stopping /\ Due \subseteq handled
    /\ \E at \in {NoTimer} \union {rows[t].at : t \in Active} : Nearest(at) /\ timer' = at
    /\ LeaveSlot
    /\ UNCHANGED <<durable, clock, host, requested, failed>>

DriveStops ==
    /\ pc = "next" /\ stopping
    /\ LeaveSlot
    /\ UNCHANGED <<durable, clock, host, timer, requested, failed>>

\* The catch block: members that are still due lose their timer until some
\* later drive; a member the clock has moved before its target keeps it.
GroupFails ==
    /\ failed' = failed \union {t \in admitted \ committed : due[t].at <= now}
    /\ pc' = "next"

ResolveFails ==
    /\ pc = "resolving"
    /\ GroupFails
    /\ UNCHANGED <<durable, clock, host, timer, requested, due, handled, admitted, occurrence, committed>>

\* resolveRecurringOccurrence: the latest multiple of the interval, not each of
\* the missed ones.
LatestOccurrence(t) ==
    IF t \in Recurring
    THEN due[t].at + ((now - due[t].at) \div IntervalOf[t]) * IntervalOf[t]
    ELSE due[t].at

\* The agent is there: what is still due goes into one message, appended to the
\* session at once, and its flush is awaited.
Resolved ==
    /\ pc = "resolving" /\ ~stopping
    /\ admitted' = {t \in admitted : due[t].at <= now}
    /\ pc' = IF admitted' = {} THEN "next" ELSE "flushing"
    /\ occurrence' = [t \in Tasks |-> IF t \in admitted' THEN LatestOccurrence(t) ELSE 0]
    /\ UNCHANGED <<durable, clock, host, timer, requested, due, handled, committed, failed>>

\* Disposal began while the session was restored.
ResolvedTooLate ==
    /\ pc = "resolving" /\ stopping
    /\ LeaveSlot
    /\ UNCHANGED <<durable, clock, host, timer, requested, failed>>

\* The inbox with the message of the current group.
InboxWithMessage == [t \in Tasks |-> IF t \in admitted THEN occurrence[t] ELSE inbox[t]]

Flushed ==
    /\ pc = "flushing"
    /\ inbox' = InboxWithMessage
    /\ pc' = "committing"
    /\ UNCHANGED <<rows, lastDelivery, clock, host, timer, requested, drive>>

\* Slip: a flush that rejects is not looked at.
FlushIgnored ==
    /\ pc = "flushing"
    /\ inbox' \in {inbox, InboxWithMessage}
    /\ pc' = "committing"
    /\ UNCHANGED <<rows, lastDelivery, clock, host, timer, requested, drive>>

\* The flush rejects or nobody acknowledges it; the message may be durable all
\* the same.
FlushFails ==
    /\ pc = "flushing"
    /\ inbox' \in {inbox, InboxWithMessage}
    /\ GroupFails
    /\ UNCHANGED <<rows, lastDelivery, clock, host, timer, requested, due, handled, admitted, occurrence, committed>>

\* Slip: the next target is counted from the target of the scan.
NextRecordUnmoved(t) ==
    IF t \in Recurring
    THEN [status |-> "active", at |-> due[t].at + IntervalOf[t] - 1]
    ELSE [status |-> "inactive", at |-> due[t].at]

\* commit: the record of the scan with its next target or its end, and the receipt.
NextRecord(t) ==
    IF t \in Recurring
    THEN [status |-> "active", at |-> occurrence[t] + IntervalOf[t]]
    ELSE [status |-> "inactive", at |-> due[t].at]

Commit(t) ==
    /\ pc = "committing" /\ t \in admitted \ committed
    /\ rows' = [rows EXCEPT ![t] = NextRecord(t)]
    /\ lastDelivery' = [lastDelivery EXCEPT ![t] = occurrence[t]]
    /\ committed' = committed \union {t}
    /\ pc' = IF committed' = admitted THEN "next" ELSE "committing"
    /\ UNCHANGED <<inbox, clock, host, timer, requested, due, handled, admitted, occurrence, failed>>

CommitFails ==
    /\ pc = "committing"
    /\ GroupFails
    /\ UNCHANGED <<durable, clock, host, timer, requested, due, handled, admitted, occurrence, committed>>

\* Slip: a drive asked for while another one runs is dropped.
AskedAgainForgotten == FALSE

AskedAgain == requested /\ ~stopping

\* The while loop after transact, and the finally block behind it, which runs a
\* microtask later and asks for a drive that was requested in between.
LoopAgain ==
    /\ pc = "looping"
    /\ IF AskedAgain
       THEN pc' = "queued" /\ requested' = FALSE
       ELSE pc' = "ending" /\ UNCHANGED requested
    /\ UNCHANGED <<durable, clock, host, timer, drive>>

LoopEnds ==
    /\ pc = "ending"
    /\ \/ AskedAgain /\ admission = "open"
          /\ pc' = "queued" /\ requested' = FALSE /\ timer' = NoTimer
          /\ UNCHANGED admission
       \/ AskedAgain /\ admission # "open"
          /\ pc' = "none" /\ requested' = FALSE /\ timer' = NoTimer
          /\ admission' = "refused"
       \/ ~AskedAgain
          /\ pc' = "none"
          /\ UNCHANGED <<requested, timer, admission>>
    /\ UNCHANGED <<durable, clock, up, stops, stopping, drive>>

\* The delay has passed.  After the clock was set back it passes before the target.
TimerFires ==
    /\ up /\ timer # NoTimer
    /\ timer <= now \/ rollbacks > 0
    /\ RequestDrive
    /\ UNCHANGED <<durable, clock, drive>>

-----------------------------------------------------------------------------
(* Management: one operation of the shared queue, then a drive *)

\* Slip: an operation does not wait for its turn of the queue.
ManagesAnytime == up /\ ~stopping

Manages == up /\ ~stopping /\ ~slot

\* What was delivered under a rule that is replaced or gone no longer counts.
Forget(S) ==
    /\ lastDelivery' = [t \in Tasks |-> IF t \in S THEN 0 ELSE lastDelivery[t]]
    /\ inbox' = [t \in Tasks |-> IF t \in S THEN 0 ELSE inbox[t]]

\* create: a target fixed before the operation waited for its turn may be past.
Create(t) ==
    /\ Manages /\ rows[t].status = "unborn"
    /\ \E at \in now..(now + 1) :
        rows' = [rows EXCEPT ![t] = [status |-> "active", at |-> at]]
    /\ RequestDrive
    /\ UNCHANGED <<lastDelivery, inbox, clock, drive>>

\* update: a new rule computes its target from now; a new name or prompt keeps it.
Update(t) ==
    /\ Manages /\ t \in Active
    /\ \/ rows' = [rows EXCEPT ![t].at = now + 1] /\ Forget({t})
       \/ UNCHANGED durable
    /\ RequestDrive
    /\ UNCHANGED <<clock, drive>>

\* delete takes a row whatever its status.
Delete(t) ==
    /\ Manages /\ rows[t].status \in {"active", "inactive"}
    /\ rows' = [rows EXCEPT ![t] = [status |-> "deleted", at |-> 0]]
    /\ Forget({t})
    /\ RequestDrive
    /\ UNCHANGED <<clock, drive>>

\* stopSessionTasks: every active row of an archived session, each delete of
\* which may fail on its own.
StopSession(t) ==
    /\ Manages /\ t \in Active
    /\ \E removed \in SUBSET {u \in Active : SessionOf[u] = SessionOf[t]} :
        /\ removed # {}
        /\ rows' = [u \in Tasks |-> IF u \in removed THEN [status |-> "deleted", at |-> 0] ELSE rows[u]]
        /\ Forget(removed)
    /\ RequestDrive
    /\ UNCHANGED <<clock, drive>>

-----------------------------------------------------------------------------
(* The clock and the host *)

Tick ==
    /\ now < MaxTime
    /\ now' = now + 1
    /\ UNCHANGED <<durable, rollbacks, host, timer, requested, pc, drive>>

ClockSetBack ==
    /\ now > 1 /\ rollbacks < MaxRollbacks
    /\ now' \in 1..(now - 1)
    /\ rollbacks' = rollbacks + 1
    /\ UNCHANGED <<durable, host, timer, requested, pc, drive>>

\* An ancestor of the agent registry unloads: the registry admits no drive any
\* more, and this service, which depends on it, is disposed some time later.
AdmissionCloses ==
    /\ up /\ ~stopping /\ admission = "open" /\ stops < MaxStops
    /\ admission' = "closed"
    /\ stops' = stops + 1
    /\ UNCHANGED <<durable, clock, up, stopping, timer, requested, pc, drive>>

\* dispose: no timer, and whatever drive is under way is awaited.
Dispose ==
    /\ up /\ ~stopping
    /\ IF admission = "open" THEN stops < MaxStops /\ stops' = stops + 1 ELSE UNCHANGED stops
    /\ stopping' = TRUE /\ timer' = NoTimer
    /\ UNCHANGED <<durable, clock, up, admission, requested, pc, drive>>

\* The runtime and the queue are quiet; the domain is closed.  The next start
\* finds a registry that admits drives.
Close ==
    /\ up /\ stopping /\ pc = "none"
    /\ up' = FALSE /\ admission' = "open"
    /\ UNCHANGED <<durable, clock, stops, stopping, timer, requested, pc, drive>>

\* The process dies.  A message that was appended may have reached the disk.
Crash ==
    /\ up /\ stops < MaxStops
    /\ up' = FALSE /\ stops' = stops + 1
    /\ inbox' \in {inbox, IF pc = "flushing" THEN InboxWithMessage ELSE inbox}
    /\ stopping' = TRUE /\ timer' = NoTimer /\ requested' = FALSE /\ pc' = "none"
    /\ due' = Blank /\ handled' = {} /\ admitted' = {} /\ committed' = {} /\ failed' = {}
    /\ occurrence' = [t \in Tasks |-> 0]
    /\ admission' = "open"
    /\ UNCHANGED <<rows, lastDelivery, clock>>

\* The service opens its domain and asks for the first drive.
Restart ==
    /\ ~up
    /\ up' = TRUE /\ stopping' = FALSE
    /\ pc' = "queued" /\ requested' = FALSE /\ failed' = {}
    /\ UNCHANGED <<durable, clock, stops, admission, timer, due, handled, admitted, occurrence, committed>>

-----------------------------------------------------------------------------
LoopNext ==
    \/ Scan \/ TakeGroup \/ DriveEnds \/ DriveStops
    \/ ResolveFails \/ Resolved \/ ResolvedTooLate
    \/ Flushed \/ FlushFails \/ CommitFails \/ \E t \in Tasks : Commit(t)
    \/ LoopAgain \/ LoopEnds

Next ==
    \/ LoopNext \/ TimerFires
    \/ \E t \in Tasks : Create(t) \/ Update(t) \/ Delete(t) \/ StopSession(t)
    \/ Tick \/ ClockSetBack \/ AdmissionCloses \/ Dispose \/ Close \/ Crash \/ Restart

Spec == Init /\ [][Next]_vars

\* Awaits resolve, timers fire, time passes, an unload that has closed the agent
\* registry goes on to this service, and a host that went down comes up.
Fairness ==
    /\ WF_vars(LoopNext) /\ WF_vars(TimerFires)
    /\ WF_vars(admission # "open" /\ Dispose)
    /\ WF_vars(Tick) /\ WF_vars(Close) /\ WF_vars(Restart)

FairSpec == Spec /\ Fairness

-----------------------------------------------------------------------------
(* Properties *)

\* No obligation is lost: while the service runs, an active task that the last
\* drive did not fail to deliver has a timer set no later than its target, or a
\* drive that will look at it is under way or asked for.  That ends with the first
\* drive that is refused, which is never before the agent registry has closed.
ObligationHeld ==
    up /\ ~stopping /\ admission # "refused" =>
        \A t \in Active \ failed :
            \/ timer <= rows[t].at
            \/ requested /\ pc # "none"
            \/ pc \notin {"none", "looping", "ending"}

\* What a drive writes back was read in the same turn of the queue: no create,
\* update or delete has come between, so none is undone by a delivery.
DriveKnowsItsTasks ==
    slot => \A t \in (Due \ handled) \union (admitted \ committed) : due[t] = rows[t]

\* A receipt says that the message is durable in its session, through crashes,
\* failing flushes and failing writes.
ReceiptMeansDelivered == \A t \in Tasks : lastDelivery[t] <= inbox[t]

\* An occurrence with a receipt is not announced again, though the clock is set
\* back or the process restarts.
NeverAnnouncedAgain ==
    [][pc = "resolving" /\ pc' = "flushing" =>
        \A t \in admitted' : occurrence'[t] > lastDelivery[t]]_vars

\* A disposed service leaves neither timer nor drive behind, and a service whose
\* drive was refused neither keeps nor gets one: it waits for its disposal.
ClosedIsQuiet == ~up \/ admission = "refused" => timer = NoTimer /\ pc = "none"

\* Why these hold.  A group is taken whole, and what a drive works on was due.
GroupsTakenWhole == \A t \in Due \ handled : GroupOf(t) \intersect handled = {}

DriveInv ==
    /\ admitted \subseteq handled /\ admitted \subseteq Due
    /\ ~slot => admitted = {}
    /\ pc \in {"resolving", "flushing"} => committed = {}
    /\ stopping => timer = NoTimer
    /\ ~up => admission = "open"

\* Receipts stay behind the targets that are left, and behind the message that a
\* drive is about to account for.
ReceiptInv ==
    /\ now # 0
    /\ \A t \in Tasks :
        /\ rows[t].status = "unborn" => lastDelivery[t] = 0
        /\ t \in Active => lastDelivery[t] < rows[t].at
    /\ pc = "flushing" => \A t \in admitted : lastDelivery[t] < occurrence[t]
    /\ pc = "committing" => \A t \in admitted : inbox[t] = occurrence[t]

\* Drives, management and disposal take turns, and none works on what another
\* has changed.
RemindersInv ==
    /\ TypeOK /\ DriveKnowsItsTasks /\ ClosedIsQuiet
    /\ GroupsTakenWhole /\ DriveInv /\ ReceiptInv

\* Every task that comes due is delivered, refused, changed or deleted.
DueIsAttempted ==
    \A t \in Tasks :
        t \in Active /\ rows[t].at <= MaxTime ~>
            \/ t \notin Active \/ rows[t].at > now \/ t \in failed
=============================================================================
