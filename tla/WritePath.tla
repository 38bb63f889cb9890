------------------------------ MODULE WritePath ------------------------------
(***************************************************************************)
(* The durable write path of one session id, across processes, crashes and  *)
(* restarts: the write handle of packages/session/session-persistence-jsonl  *)
(* (storage.ts, and the file primitives of index.ts), the kernel lock that   *)
(* makes it the only writer (lease.ts), and the agent factory that opens,    *)
(* publishes and closes the session over it (core/agent-loop/src/index.ts). *)
(*                                                                         *)
(* A process has at most one write handle, the record h[p].  The handle's    *)
(* chain runs one operation at a time: op names the file operation under     *)
(* way, client who waits for it.  Every file operation may fail or be cut    *)
(* short by a crash.                                                        *)
(*                                                                         *)
(* Abstracted: event content; read handles; format generations and their    *)
(* migration; the seed of a fork.  A drain that finds the buffer empty ends  *)
(* at once (the code takes two microtasks), and restoring the size of a file *)
(* after a failed append succeeds.                                         *)
(***************************************************************************)
EXTENDS Naturals, Sequences, SequencesExt

CONSTANTS
    Procs,          \* processes that share the session directory
    Windows,        \* stations at which the session is appended to or flushed
    Faults,         \* file operations that may fail
    PromptReopen,   \* may a session be reopened while an old handle's timer runs?
    MaxEvents,      \* bound: events ever appended
    MaxFaults,      \* bound: file operations that fail
    MaxCrashes      \* bound: processes that die

None == "none"

ASSUME ProcsAssumption == None \notin Procs
ASSUME ReopenAssumption == PromptReopen \in BOOLEAN
ASSUME BoundsAssumption == MaxEvents \in Nat /\ MaxFaults \in Nat /\ MaxCrashes \in Nat

Event == [seq : Nat \ {0}, id : Nat]

\* Before the session is published, its events are stored by explicit appends.
Unpublished == {"setup", "storing", "publishing"}

\* Stations at which the tracker routes events and flushes to the handle.
Routed == Unpublished \union {"live", "closing", "releasing"}

Stations == Routed \union {"out", "opening", "locked", "released"}

FileOps == {"header", "truncate", "rewrite", "write"}

Handle == [
    at : Stations,
    log : Seq(Event),           \* the session's events in memory
    published : BOOLEAN,        \* the session is in the store
    cursor : Nat,               \* StorageHandleState
    materialized : BOOLEAN,
    repair : BOOLEAN,           \* tornTruncateTo is set
    recovered : Seq(Event),     \* recoveredTail
    leased : BOOLEAN,           \* lease is set
    buffered : Seq(Event),
    timer : BOOLEAN,            \* batchTimer is armed
    paused : BOOLEAN,           \* drainPaused
    draining : BOOLEAN,
    joined : BOOLEAN,           \* close awaits the drain
    sealed : Nat,               \* history: how much of the log close had drained
    op : FileOps \union {"idle", "lease", "reject"},
    client : {None, "append", "drain", "flush"},
    batch : Seq(Event),
    flush : {None, "draining", "barrier"},
    target : Nat ]              \* how much of the log the flush covers

VARIABLES
    framed,         \* the root's encoding: Zstandard frames, or raw lines
    stored,         \* the artifact exists
    lines,          \* records of its complete frames or lines
    torn,           \* torn bytes follow them
    rescued,        \* complete records a reader decodes from the torn frame
    lock,           \* holder of the kernel lock, or None
    h,              \* the handle of each process
    promised,       \* history: the prefix resolved flushes promised
    made, faults, crashes   \* counters for the bounds

disk   == <<stored, lines, torn, rescued>>
bounds == <<made, faults, crashes>>
vars   == <<framed, disk, lock, h, promised, bounds>>

\* What a reader that opens the log now is given.
View == lines \o rescued

TypeOK ==
    /\ framed \in BOOLEAN /\ stored \in BOOLEAN /\ torn \in BOOLEAN
    /\ lines \in Seq(Event) /\ rescued \in Seq(Event) /\ promised \in Seq(Event)
    /\ lock \in Procs \union {None}
    /\ h \in [Procs -> Handle]
    /\ made \in Nat /\ faults \in Nat /\ crashes \in Nat

NoHandle == [
    at |-> "out", log |-> <<>>, published |-> FALSE, cursor |-> 0,
    materialized |-> FALSE, repair |-> FALSE, recovered |-> <<>>, leased |-> FALSE,
    buffered |-> <<>>, timer |-> FALSE, paused |-> FALSE, draining |-> FALSE,
    joined |-> FALSE, sealed |-> 0, op |-> "idle", client |-> None,
    batch |-> <<>>, flush |-> None, target |-> 0 ]

Init ==
    /\ framed \in BOOLEAN
    /\ stored = FALSE /\ lines = <<>> /\ torn = FALSE /\ rescued = <<>>
    /\ lock = None
    /\ h = [p \in Procs |-> NoHandle]
    /\ promised = <<>>
    /\ made = 0 /\ faults = 0 /\ crashes = 0

\* The handle of p becomes r.
Becomes(p, r) == h' = [h EXCEPT ![p] = r]

-----------------------------------------------------------------------------
(* The chain of one handle: what the operation at its head does next. *)

\* Slip: the records recovered from a torn frame are not written again.
StageDiscarding(r) ==
    IF ~r.leased THEN "lease"
    ELSE IF r.client = "flush" THEN "header"
    ELSE IF r.batch[1].seq # r.cursor + 1 THEN "reject"
    ELSE IF r.repair THEN "truncate"
    ELSE "write"

\* ensureLease, assertContiguous, the pending repair, then the batch itself.
Stage(r) ==
    IF ~r.leased THEN "lease"
    ELSE IF r.client = "flush" THEN "header"
    ELSE IF r.batch[1].seq # r.cursor + 1 THEN "reject"
    ELSE IF r.repair THEN "truncate"
    ELSE IF r.recovered # <<>> THEN "rewrite"
    ELSE "write"

Advance(r) == [r EXCEPT !.op = Stage(r)]

Begin(r, client, batch) == Advance([r EXCEPT !.client = client, !.batch = batch])

Idle(r) == [r EXCEPT !.op = "idle", !.client = None, !.batch = <<>>]

\* enter: from here on the session's appends are routed to the handle.
Publish(r) == [r EXCEPT !.at = "live", !.published = TRUE]

\* The operation resolves.  Storing the last suffix is followed by publication.
Succeeded(r) ==
    IF r.client = "flush" THEN [Idle(r) EXCEPT !.flush = None]
    ELSE IF r.at = "publishing" THEN Publish(Idle(r))
    ELSE IF r.at = "storing" THEN [Idle(r) EXCEPT !.at = "setup"]
    ELSE Idle(r)

\* The failed batch is retained in order.
Retained(r) == r.batch \o r.buffered

\* drainLive: concurrent callers join one drain.
DrainLive(r) ==
    IF r.draining THEN r
    ELSE [r EXCEPT !.draining = TRUE, !.timer = FALSE, !.paused = FALSE]

\* Slip: close drains again until a drain succeeds.
AfterFailedDrainRetrying(r) == r.at

\* A close that joined the drain that failed goes on to release the handle.
AfterFailedDrain(r) == IF r.joined THEN "releasing" ELSE r.at

\* close: its synchronous part runs up to the first drain.
CloseHandle(r) == [DrainLive(r) EXCEPT !.at = "closing", !.joined = TRUE]

\* The operation rejects: a failed drain keeps its events, a failed append makes
\* its caller dispose the handle.
Failed(r) ==
    IF r.client = "drain"
    THEN [Idle(r) EXCEPT !.buffered = Retained(r), !.paused = TRUE, !.draining = FALSE,
             !.at = AfterFailedDrain(r), !.joined = FALSE,
             !.flush = IF @ = "draining" THEN None ELSE @]
    ELSE IF r.client = "flush" THEN [Idle(r) EXCEPT !.flush = None]
    ELSE IF r.at \in Unpublished THEN CloseHandle(Idle(r))
    ELSE Idle(r)

\* Acknowledged events: what a recovered tail still awaits is not among them.
Acknowledged(r) == r.cursor - Len(r.recovered)

\* The events a resolving flush promises: all it was called after, except
\* those recovered from a torn frame and not rewritten yet.
Covered(r) ==
    IF r.recovered # <<>> /\ Acknowledged(r) < r.target
    THEN SubSeq(r.log, 1, Acknowledged(r))
    ELSE SubSeq(r.log, 1, r.target)

Longest(s, t) == IF Len(s) < Len(t) THEN t ELSE s

-----------------------------------------------------------------------------
(* Opening and publishing a session. *)

\* create: the id is new, nothing is on disk and nothing is locked yet.
Create(p) ==
    /\ ~stored /\ \A q \in Procs : h[q].at = "out"
    /\ Becomes(p, [NoHandle EXCEPT !.at = "setup"])
    /\ UNCHANGED <<framed, disk, lock, promised, bounds>>

\* open for write: the in-process claim.
OpenClaim(p) ==
    /\ h[p].at = "out"
    /\ Becomes(p, [NoHandle EXCEPT !.at = "opening"])
    /\ UNCHANGED <<framed, disk, lock, promised, bounds>>

\* The log is not there, or another process holds its lock.
OpenRefused(p) ==
    /\ h[p].at = "opening" /\ (~stored \/ lock # None)
    /\ Becomes(p, NoHandle)
    /\ UNCHANGED <<framed, disk, lock, promised, bounds>>

AcquireLease(p) ==
    /\ h[p].at = "opening" /\ stored /\ lock = None
    /\ PromptReopen \/ \A q \in Procs : h[q].at \notin {"releasing", "released"}
    /\ lock' = p
    /\ Becomes(p, [h[p] EXCEPT !.at = "locked"])
    /\ UNCHANGED <<framed, disk, promised, bounds>>

\* The read fails or is cancelled: lock and claim are given back.
OpenFails(p) ==
    /\ h[p].at = "locked"
    /\ lock' = None
    /\ Becomes(p, NoHandle)
    /\ UNCHANGED <<framed, disk, promised, bounds>>

\* The cursor of a write open counts the recovered tail.
StoredEvents == Len(View)

Load(p) ==
    /\ h[p].at = "locked"
    /\ Becomes(p, [NoHandle EXCEPT !.at = "setup", !.log = View, !.cursor = StoredEvents,
            !.materialized = TRUE, !.leased = TRUE,
            !.repair = torn, !.recovered = rescued])
    /\ UNCHANGED <<framed, disk, lock, promised, bounds>>

\* appendUnstoredSuffix: what setup appended is stored through the handle; the
\* last such suffix is followed by publication.
Store(p, last) ==
    LET r == h[p]
        suffix == SubSeq(r.log, r.cursor + 1, Len(r.log))
    IN  /\ r.at = "setup" /\ r.op = "idle"
        /\ \/ /\ suffix # <<>>
              /\ Becomes(p, Begin([r EXCEPT !.at = IF last THEN "publishing" ELSE "storing"],
                                  "append", suffix))
           \/ /\ suffix = <<>> /\ last
              /\ Becomes(p, Publish(r))
        /\ UNCHANGED <<framed, disk, lock, promised, bounds>>

\* Slip: the window is armed by the second event.
ArmedLate(r) == r.timer \/ (~r.paused /\ r.buffered # <<>>)

\* enqueueLive: a pending deadline is kept, a paused handle arms none.
Armed(r) == r.timer \/ ~r.paused

\* Something appends an event to the session: once published, enqueueLive
\* buffers it and arms the batching window.
AppendEvent(p) ==
    LET r == h[p]
        event == [seq |-> Len(r.log) + 1, id |-> made + 1]
        logged == [r EXCEPT !.log = Append(@, event)]
    IN  /\ r.at \in Windows /\ made < MaxEvents
        /\ r.published \/ r.at \in Unpublished
        /\ Becomes(p, IF r.published
                      THEN [logged EXCEPT !.buffered = Append(@, event),
                                !.timer = Armed(r)]
                      ELSE logged)
        /\ made' = made + 1
        /\ UNCHANGED <<framed, disk, lock, promised, faults, crashes>>

-----------------------------------------------------------------------------
(* The batching window, drains and flushes. *)

TimerFires(p) ==
    /\ h[p].timer
    /\ Becomes(p, DrainLive([h[p] EXCEPT !.timer = FALSE]))
    /\ UNCHANGED <<framed, disk, lock, promised, bounds>>

\* drainBuffered: its turn on the chain takes everything buffered by then.  A close
\* without a lease has none to release and is done before the next turn.
DrainTurn(p) ==
    LET r == h[p]
    IN  /\ r.draining /\ r.op = "idle" /\ r.buffered # <<>>
        /\ r.at = "releasing" => r.leased
        /\ Becomes(p, Begin([r EXCEPT !.buffered = <<>>], "drain", r.buffered))
        /\ UNCHANGED <<framed, disk, lock, promised, bounds>>

DrainEnds(p) ==
    /\ h[p].draining /\ h[p].client # "drain" /\ h[p].buffered = <<>>
    /\ Becomes(p, [h[p] EXCEPT !.draining = FALSE, !.joined = FALSE,
            !.flush = IF @ = "draining" THEN "barrier" ELSE @])
    /\ UNCHANGED <<framed, disk, lock, promised, bounds>>

\* session/flush and flushAll: drainLive first.
FlushStart(p) ==
    LET r == h[p]
    IN  /\ r.at \in Windows /\ r.flush = None
        /\ Becomes(p, [DrainLive(r) EXCEPT !.flush = "draining",
                !.target = IF r.published THEN Len(r.log) ELSE 0])
        /\ UNCHANGED <<framed, disk, lock, promised, bounds>>

\* Then flush: refused by a closing handle, which counts as flushed; nothing
\* to do for a materialized session; else the header is written.
Barrier(p) ==
    LET r == h[p]
    IN  /\ r.flush = "barrier" /\ r.op = "idle"
        /\ IF r.materialized \/ r.at \notin Unpublished \union {"live"}
           THEN /\ promised' = Longest(promised, Covered(r))
                /\ Becomes(p, [r EXCEPT !.flush = None])
           ELSE /\ UNCHANGED promised
                /\ Becomes(p, Begin(r, "flush", <<>>))
        /\ UNCHANGED <<framed, disk, lock, bounds>>

-----------------------------------------------------------------------------
(* The operation at the head of the chain: ensureLease, assertContiguous, the *)
(* pending repair, then the write.                                           *)

TakeLease(p) ==
    /\ h[p].op = "lease"
    /\ IF lock = None
       THEN lock' = p /\ Becomes(p, Advance([h[p] EXCEPT !.leased = TRUE]))
       ELSE UNCHANGED lock /\ Becomes(p, Failed(h[p]))
    /\ UNCHANGED <<framed, disk, promised, bounds>>

Truncated(p) ==
    /\ h[p].op = "truncate"
    /\ torn' = FALSE /\ rescued' = <<>>
    /\ Becomes(p, Advance([h[p] EXCEPT !.repair = FALSE]))
    /\ UNCHANGED <<framed, stored, lines, lock, promised, bounds>>

Rewritten(p) ==
    /\ h[p].op = "rewrite"
    /\ lines' = lines \o h[p].recovered
    /\ Becomes(p, Advance([h[p] EXCEPT !.recovered = <<>>]))
    /\ UNCHANGED <<framed, stored, torn, rescued, lock, promised, bounds>>

\* Slip: a first write replaces what it finds.
WritableAlways(r) == TRUE

\* The first write links a complete file into place, a later one appends to it.
Writable(r) == r.materialized \/ ~stored

Written(p) ==
    LET r == h[p]
    IN  /\ r.op = "write" /\ Writable(r)
        /\ stored' = TRUE
        /\ lines' = lines \o r.batch
        /\ Becomes(p, Succeeded([r EXCEPT !.materialized = TRUE, !.cursor = @ + Len(r.batch)]))
        /\ UNCHANGED <<framed, torn, rescued, lock, promised, bounds>>

HeaderWritten(p) ==
    /\ h[p].op = "header" /\ Writable(h[p])
    /\ stored' = TRUE
    /\ Becomes(p, Succeeded([h[p] EXCEPT !.materialized = TRUE]))
    /\ UNCHANGED <<framed, lines, torn, rescued, lock, promised, bounds>>

\* The operation is refused before it touches the disk: assertContiguous throws,
\* or rejectExistingLog finds a log where a first write would put one.
WriteRefused(p) ==
    /\ h[p].op = "reject" \/ (h[p].op \in {"header", "write"} /\ ~Writable(h[p]))
    /\ Becomes(p, Failed(h[p]))
    /\ UNCHANGED <<framed, disk, lock, promised, bounds>>

-----------------------------------------------------------------------------
(* File operations that fail, and processes that die. *)

Faulty(kind) == kind \in Faults /\ faults < MaxFaults /\ faults' = faults + 1

\* An append that fails is rolled back, a first write leaves no file; a
\* truncation may have happened before its sync failed.
OpFails(p) ==
    /\ h[p].op \in FileOps \union {"lease"} /\ Faulty(h[p].op)
    /\ \/ UNCHANGED <<torn, rescued>>
       \/ h[p].op = "truncate" /\ torn' = FALSE /\ rescued' = <<>>
    /\ Becomes(p, Failed(h[p]))
    /\ UNCHANGED <<framed, stored, lines, lock, promised, made, crashes>>

\* The new log is linked into place, then syncing its directory fails.
PublishFails(p) ==
    /\ h[p].op \in {"header", "write"} /\ ~stored /\ Faulty("publish")
    /\ stored' = TRUE /\ lines' = h[p].batch
    /\ Becomes(p, Failed(h[p]))
    /\ UNCHANGED <<framed, torn, rescued, lock, promised, made, crashes>>

\* What an append under way writes, nothing if none is.
Content(r) ==
    IF r.op = "rewrite" THEN r.recovered
    ELSE IF r.op = "write" /\ r.materialized THEN r.batch
    ELSE <<>>

\* A process dies: its lock is free, its append is complete, cut or missing.
\* A reader takes the whole lines of a cut text, and decodes what it can of a
\* cut frame.
Interrupted(r) ==
    \/ r.op = "truncate" /\ torn' = FALSE /\ rescued' = <<>> /\ UNCHANGED <<stored, lines>>
    \/ \E k \in 0 .. Len(Content(r)) :
           LET part == SubSeq(Content(r), 1, k)
           IN  /\ Content(r) # <<>> /\ UNCHANGED stored
               /\ \/ k = Len(Content(r)) /\ lines' = lines \o part /\ UNCHANGED <<torn, rescued>>
                  \/ ~framed /\ lines' = lines \o part /\ torn' = TRUE /\ UNCHANGED rescued
                  \/ framed /\ torn' = TRUE /\ rescued' = part /\ UNCHANGED lines
    \/ /\ r.op \in {"header", "write"} /\ ~stored
       /\ stored' = TRUE /\ lines' = r.batch /\ UNCHANGED <<torn, rescued>>

Crash(p) ==
    /\ h[p].at # "out" /\ crashes < MaxCrashes
    /\ crashes' = crashes + 1
    /\ UNCHANGED disk \/ Interrupted(h[p])
    /\ lock' = IF lock = p THEN None ELSE lock
    /\ Becomes(p, NoHandle)
    /\ UNCHANGED <<framed, promised, made, faults>>

-----------------------------------------------------------------------------
(* Closing. *)

\* The owner disposes the session, or teardown closes every open handle.
Close(p) ==
    /\ h[p].at \in Unpublished \union {"live"}
    /\ Becomes(p, CloseHandle(h[p]))
    /\ UNCHANGED <<framed, disk, lock, promised, bounds>>

FullyDrained(r) == r.buffered = <<>>

\* Events arrived while close waited for the chain: it drains again.
CloseAgain(p) ==
    LET r == h[p]
    IN  /\ r.at = "closing" /\ ~r.joined
        /\ r.op = "idle" /\ ~FullyDrained(r)
        /\ Becomes(p, [DrainLive(r) EXCEPT !.joined = TRUE])
        /\ UNCHANGED <<framed, disk, lock, promised, bounds>>

CloseDrained(p) ==
    LET r == h[p]
    IN  /\ r.at = "closing" /\ ~r.joined
        /\ r.op = "idle" /\ FullyDrained(r)
        /\ Becomes(p, [r EXCEPT !.at = "releasing", !.sealed = Len(r.log)])
        /\ UNCHANGED <<framed, disk, lock, promised, bounds>>

\* Slip: the lock goes while close still drains.
GivesUpLockEarly == {"closing", "releasing"}

GivesUpLock == {"releasing"}

\* lease.release closes the descriptor.
Unlock(p) ==
    /\ h[p].at \in GivesUpLock /\ lock = p
    /\ lock' = None
    /\ UNCHANGED <<framed, disk, h, promised, bounds>>

\* releaseHandle: the tracker forgets the handle, which a timer or a drain may
\* outlive.
Released(p) ==
    LET r == h[p]
    IN  /\ r.at = "releasing" /\ lock # p
        /\ Becomes(p, IF r.draining \/ r.timer THEN [r EXCEPT !.at = "released"] ELSE NoHandle)
        /\ UNCHANGED <<framed, disk, lock, promised, bounds>>

Outlived(p) ==
    /\ h[p].at = "released" /\ ~h[p].draining /\ ~h[p].timer
    /\ Becomes(p, NoHandle)
    /\ UNCHANGED <<framed, disk, lock, promised, bounds>>

-----------------------------------------------------------------------------
\* The steps the runtime and the file system complete by themselves.
Chain(p) ==
    \/ TimerFires(p) \/ DrainTurn(p) \/ DrainEnds(p) \/ Barrier(p)
    \/ TakeLease(p) \/ Truncated(p) \/ Rewritten(p)
    \/ Written(p) \/ HeaderWritten(p) \/ WriteRefused(p)

Closing(p) == CloseAgain(p) \/ CloseDrained(p) \/ Unlock(p) \/ Released(p) \/ Outlived(p)

Next == \E p \in Procs :
    \/ Create(p) \/ OpenClaim(p) \/ OpenRefused(p) \/ AcquireLease(p) \/ OpenFails(p) \/ Load(p)
    \/ \E last \in BOOLEAN : Store(p, last)
    \/ AppendEvent(p) \/ FlushStart(p)
    \/ Chain(p)
    \/ OpFails(p) \/ PublishFails(p) \/ Crash(p)
    \/ Close(p) \/ Closing(p)

Spec == Init /\ [][Next]_vars

\* Timers, settled promises and file operations are never put off for ever, and
\* close, which awaits the chain, resumes before what is queued behind it.
FairSpec == Spec /\ \A p \in Procs : WF_vars(Chain(p)) /\ SF_vars(Closing(p))

-----------------------------------------------------------------------------
(* Properties. *)

\* The stored log of the session is what persistence promises: contiguous,
\* never rewritten, and no event a resolved flush covered is ever lost, through
\* torn tails, their repair, failed operations and crashes.
Log == INSTANCE DurableLog WITH view <- View
RefinesLog == Log!LogSpec

\* No process writes a file of the session while another one holds its lock.
OneWriter == \A p \in Procs : h[p].op \in FileOps => lock \in {p, None}

\* "Events are contiguous from seq 0 and never rewritten": each event of the
\* stored log sits at its own sequence number, once.
LogContiguous == Log!Contiguous(View)

\* What an open write handle believes it appended to is on disk: a reader is
\* never given an event the session does not have, in another order.
MemoryMatchesDisk ==
    \A p \in Procs : h[p].at \in Routed => IsPrefix(View, h[p].log)

\* The events a published session still has to store are, in order, the batch
\* its drain is writing and the buffer: none is skipped, doubled or overtaken by
\* a later one when a batch fails and is retained.
Pending(r) == (IF r.client = "drain" THEN r.batch ELSE <<>>) \o r.buffered

RoutedIsNext == \A p \in Procs :
    LET r == h[p]
    IN  r.published => Pending(r) = SubSeq(r.log, r.cursor + 1, Len(r.log))

\* A close whose drains succeed has on disk, when it lets go of the lock, every
\* event routed before the release began, whatever was appended while it waited.
\* An event routed while the release is awaited is left to the timer; if its drain
\* cuts off a torn tail, the events recovered from it are missing until rewritten.
ClosedIsDrained == \A p \in Procs :
    LET r == h[p]
    IN  r.at = "releasing" /\ r.published =>
            \/ IsPrefix(SubSeq(r.log, 1, r.sealed), View)
            \/ r.recovered # <<>> /\ rescued = <<>>

\* Why these hold, if no handle is reopened before an old one's timer has fired and
\* nothing is appended behind the last suffix.  One handle at a time is past its
\* claim; it has the lock from its lease to its release, and before it leased
\* there is nothing to lock.
Claimless == {"out", "opening"}
Loaded == Routed \union {"released"}

AloneInv ==
    /\ \A p, q \in Procs : h[p].at \notin Claimless /\ h[q].at \notin Claimless => p = q
    /\ \A p \in Procs : LET r == h[p] IN
        /\ r.at \notin Loaded => r = [NoHandle EXCEPT !.at = r.at]
        /\ r.at = "locked" => lock = p /\ stored
        /\ r.at \in Loaded /\ ~r.leased => ~stored
        /\ r.leased => lock = p \/ (r.at \in {"releasing", "released"} /\ lock = None)

\* The live buffer is empty and no drain has a batch of it in hand.
Drained(r) == r.client # "drain" /\ r.buffered = <<>>

\* The operation on the chain is the one its handle asks for, and belongs to a
\* drain of a published session, or to an append or flush.
ChainOf(r) ==
    /\ r.op = "idle" <=> r.client = None
    /\ r.op # "idle" => r.op = Stage(r)
    /\ r.batch # <<>> <=> r.client \in {"append", "drain"}
    /\ r.client = "drain" => r.published /\ r.draining
    /\ r.client = "append" => ~r.published
    /\ r.at \in {"storing", "publishing"} => r.client = "append"
    /\ r.at = "setup" => r.client \in {None, "flush"}
    /\ r.at = "live" => r.published
    /\ r.published => r.at \in {"live", "closing", "releasing", "released"}
    /\ ~r.published => r.buffered = <<>> /\ (r.flush # None => r.target = 0)
    /\ r.joined => r.draining

\* What the batch is of the log, and what a flush that has drained covers.
CursorOf(r) ==
    /\ Log!Contiguous(r.log)
    /\ r.cursor <= Len(r.log)
    /\ r.sealed <= r.cursor \/ (~r.published /\ r.at \in {"releasing", "released"})
    /\ r.client = "append" =>
        /\ r.cursor + Len(r.batch) <= Len(r.log)
        /\ r.batch = SubSeq(r.log, r.cursor + 1, r.cursor + Len(r.batch))
        /\ r.at = "publishing" => r.cursor + Len(r.batch) = Len(r.log)
    /\ r.flush # None => r.target <= Len(r.log)
    /\ r.flush = "barrier" => r.target <= r.cursor

HandleInv == \A p \in Procs : ChainOf(h[p]) /\ CursorOf(h[p])

\* The disk is the log up to the cursor, its recovered tail in the torn frame or
\* still to be rewritten; what was promised is in complete lines.
DiskOf(r) ==
    /\ IF r.materialized
       THEN /\ stored /\ Len(r.recovered) <= r.cursor
            /\ lines = SubSeq(r.log, 1, Acknowledged(r))
            /\ r.recovered = SubSeq(r.log, Acknowledged(r) + 1, r.cursor)
            /\ rescued \in {r.recovered, <<>>} /\ (~r.repair => rescued = <<>>)
       ELSE /\ r.cursor = 0 /\ r.recovered = <<>> /\ ~r.repair /\ rescued = <<>>
            /\ IsPrefix(lines, r.log)
    /\ r.at = "setup" \/ (r.published /\ Drained(r)) => View = SubSeq(r.log, 1, r.cursor)

DiskInv ==
    /\ ~torn => rescued = <<>>
    /\ ~stored => lines = <<>> /\ rescued = <<>> /\ ~torn
    /\ Log!Contiguous(View) /\ IsPrefix(promised, lines)
    /\ \A p \in Procs : h[p].at \in Loaded => DiskOf(h[p])

\* The state of a writer: alone on its files, with every event either stored or
\* still to be written, in order, and with all of them stored that were routed
\* before a close came to release the lock.
WriteInv ==
    /\ TypeOK /\ OneWriter /\ RoutedIsNext /\ ClosedIsDrained
    /\ AloneInv /\ HandleInv /\ DiskInv

\* No routed event waits for ever: it is written, or a drain fails and pauses,
\* or the handle closes.
RoutedIsWritten == \A p \in Procs :
    h[p].at = "live" /\ h[p].buffered # <<>>
        ~> h[p].buffered = <<>> \/ h[p].paused \/ h[p].at # "live"

\* A handle that starts to close comes to give up both its claim and its lock,
\* whatever fails on the way.
CloseEnds == \A p \in Procs :
    h[p].at = "closing" ~> h[p].at \in {"released", "out"} /\ lock # p
=============================================================================
