--------------------------- MODULE AgentLifecycle ---------------------------
(***************************************************************************)
(* Creation, resume and teardown of the agents of one session id            *)
(* (packages/core/agent-loop/src/index.ts), over the write claim of the      *)
(* stored session (session-persistence-jsonl/src/storage.ts) and the live    *)
(* registries of agents (core/agent/src/index.ts) and sessions               *)
(* (core/session/src/index.ts).                                             *)
(*                                                                         *)
(* An attempt is one call of createAgent or resume with the context that     *)
(* owns it.  Of its driver (packages/core/agent-loop/src/agent.ts) only the    *)
(* current activity, the cause it was cancelled for and the latched wake are   *)
(* here: AgentDriver models the rest, and SessionRecovery the repair that      *)
(* resume performs.  Once the disposal has stopped waiting for the driver what   *)
(* the driver still does is not followed; dispose() calls work that is sent     *)
(* then the sender's mistake.                                               *)
(*                                                                         *)
(* External: whoever sends to an agent or cancels it; the host, whose unload   *)
(* of an ancestor closes the agent registry to new drivers before it disposes  *)
(* what depends on it; the fiber that logs a failed disposal and goes on       *)
(* (vendor/cordis/src/fiber.ts).  The service's inbox projection goes with the  *)
(* service; from the moment its disposal begins whatever reads that projection *)
(* may throw, and a send that throws wakes nobody.                           *)
(***************************************************************************)
EXTENDS Naturals, FiniteSets

CONSTANTS
    Attempts,       \* calls of createAgent and resume, all with one id
    Nobody

ASSUME LifecycleAssumption == Nobody \notin Attempts

VARIABLES
    stage,      \* where the attempt's own continuation is
    kind,       \* what was called
    teardown,   \* where the attempt's memoized dispose() is
    aborted,    \* the signal that setup and publication watch
    owner,      \* attempts whose owning context is still loaded
    orphans,    \* opens still pending after their attempt gave up on them
    claim,      \* who holds the session's one write handle
    stored,     \* whether the session exists on disk
    session,    \* the entry of the session registry
    agent,      \* the entry of the agent registry
    told,       \* what listeners heard of the attempt's session and agent
    driver,     \* the current activity: the initialization, a turn, or neither
    latched,    \* attempts with a wake to replay when the activity converges
    rejected,   \* attempts whose dispose() has collected a failure
    admission,  \* whether the agent registry admits drivers: open or closed
    factory,    \* the agent loop service
    awaited     \* what the service's disposal waits for

vars == <<stage, kind, teardown, aborted, owner, orphans, claim, stored, session,
          agent, told, driver, latched, rejected, admission, factory, awaited>>

registries == <<session, agent, told>>
calls      == <<kind, owner, orphans>>
activity   == <<driver, latched>>
service    == <<admission, factory, awaited>>

\* opening: persistence.create or open.  loading: resume reads and repairs.
\* discarding: the handle of an attempt that never prepared is closed.
\* initializing: setup.  storing: the unstored suffix.  announcing: creation listeners.
Preparing == {"initializing", "storing", "announcing"}
Calling   == {"opening", "loading", "discarding", "rolling"} \union Preparing
Stages    == {"unborn", "live", "over"} \union Calling
Teardowns == {"none", "publication", "quiescing", "unwinding", "closing", "detaching", "done"}
News      == {"nothing", "created", "disposed"}

\* An activity runs on (active), or was cancelled first by a user or first by the
\* disposal.  stuck is one that began and nobody will settle.
Drivers == {"idle", "active", "cancelled", "disposed", "stuck"}

Init ==
    /\ stage = [a \in Attempts |-> "unborn"] /\ kind \in [Attempts -> {"create", "resume"}]
    /\ teardown = [a \in Attempts |-> "none"] /\ aborted = {} /\ owner = Attempts
    /\ orphans = {} /\ claim = Nobody /\ stored \in BOOLEAN
    /\ session = Nobody /\ agent = Nobody
    /\ told = [a \in Attempts |-> [session |-> "nothing", agent |-> "nothing"]]
    /\ driver = [a \in Attempts |-> "idle"] /\ latched = {} /\ rejected = {}
    /\ admission = "open" /\ factory = "active"
    /\ awaited = [teardowns |-> {}, calls |-> {}]

Goes(a, s) == stage' = [stage EXCEPT ![a] = s]

\* The resources whose teardown the factory and the owner hold: from prepare() on.
Tracked == {a \in Attempts : stage[a] \in Preparing \union {"live", "rolling"} /\ teardown[a] # "done"}

-----------------------------------------------------------------------------
(* dispose(), memoized: the first caller starts it and everyone joins it. *)

\* Creation listeners retain the session and scope: an announcing publication is
\* awaited before the driver is cancelled.
TeardownOf(S) == [a \in Attempts |->
    IF a \in S /\ teardown[a] = "none"
    THEN IF stage[a] = "announcing" THEN "publication" ELSE "quiescing"
    ELSE teardown[a]]

\* The current activity gives way to the next; no wake is latched behind that yet.
Converges(a, next) ==
    /\ driver' = [driver EXCEPT ![a] = next]
    /\ latched' = latched \ {a}

\* cancel({ kind: 'disposed' }): the inbox is cleared with its latched wake.  A
\* user who cancelled first stays the cause.
CancelsDrivers(S) ==
    /\ driver' = [a \in Attempts |->
            IF a \in S /\ driver[a] = "active" THEN "disposed" ELSE driver[a]]
    /\ latched' = latched \ S

CancelledBy(S) == {a \in S : teardown[a] = "none" /\ stage[a] # "announcing"}

Disposes(S) ==
    /\ teardown' = TeardownOf(S)
    /\ CancelsDrivers(CancelledBy(S))
    /\ UNCHANGED rejected

\* The holder of the AgentHandle disposes it.
HandleDisposes(a) ==
    /\ stage[a] = "live" /\ teardown[a] = "none"
    /\ Disposes({a}) /\ aborted' = aborted \union {a}
    /\ UNCHANGED <<stage, calls, claim, stored, registries, service>>

\* Slip: the teardown waits for a publication that succeeds.
PublicationSettlesOnSuccess(a) ==
    /\ teardown[a] = "publication" /\ stage[a] = "live"
    /\ teardown' = [teardown EXCEPT ![a] = "quiescing"]
    /\ CancelsDrivers({a})
    /\ UNCHANGED <<stage, calls, aborted, claim, stored, registries, rejected, service>>

\* With the service's inbox projection gone the cancel throws, and the teardown
\* goes straight to its handle.
PublicationSettles(a) ==
    /\ teardown[a] = "publication" /\ stage[a] # "announcing"
    /\ \/ /\ teardown' = [teardown EXCEPT ![a] = "quiescing"]
          /\ CancelsDrivers({a}) /\ UNCHANGED rejected
       \/ /\ factory # "active"
          /\ teardown' = [teardown EXCEPT ![a] = "closing"]
          /\ rejected' = rejected \union {a} /\ Converges(a, "idle")
    /\ UNCHANGED <<stage, calls, aborted, claim, stored, registries, service>>

\* whenIdle(): neither the maintenance that initializes nor a turn is under way.
DriverIsIdle(a) == stage[a] \notin Preparing /\ driver[a] = "idle"

Quiesces(a) ==
    /\ teardown[a] = "quiescing" /\ DriverIsIdle(a)
    /\ teardown' = [teardown EXCEPT ![a] = "unwinding"]
    /\ UNCHANGED <<stage, calls, aborted, claim, stored, registries, activity, rejected, service>>

ScopeUnwinds(a) ==
    /\ teardown[a] = "unwinding"
    /\ teardown' = [teardown EXCEPT ![a] = "closing"]
    /\ UNCHANGED <<stage, calls, aborted, claim, stored, registries, activity, rejected, service>>

\* handle.close() drains what it can and gives up the claim, whether or not it
\* rejects.  A handle that never stored anything leaves nothing behind.
HandleCloses(a) ==
    /\ teardown[a] = "closing"
    /\ claim' = Nobody
    /\ \E drained \in BOOLEAN : stored' = (stored \/ (drained /\ told[a].session = "created"))
    /\ rejected' \in {rejected, rejected \union {a}}
    /\ teardown' = [teardown EXCEPT ![a] = "detaching"]
    /\ UNCHANGED <<stage, calls, aborted, registries, activity, service>>

\* Each registry drops this attempt's entry only, and tells of a disposal
\* exactly if it told of a creation.
Heard(news) == IF news = "created" THEN "disposed" ELSE news

\* Slip: whatever is registered under the id is dropped.
DetachesAnyEntry(a) ==
    /\ teardown[a] = "detaching"
    /\ agent' = Nobody /\ session' = Nobody
    /\ told' = [told EXCEPT ![a] = [session |-> Heard(@.session), agent |-> Heard(@.agent)]]
    /\ teardown' = [teardown EXCEPT ![a] = "done"]
    /\ IF stage[a] = "live" THEN Goes(a, "over") ELSE UNCHANGED stage
    /\ UNCHANGED <<calls, aborted, claim, stored, activity, rejected, service>>

Detaches(a) ==
    /\ teardown[a] = "detaching"
    /\ agent' = IF agent = a THEN Nobody ELSE agent
    /\ session' = IF session = a THEN Nobody ELSE session
    /\ told' = [told EXCEPT ![a] = [session |-> Heard(@.session), agent |-> Heard(@.agent)]]
    /\ teardown' = [teardown EXCEPT ![a] = "done"]
    /\ IF stage[a] = "live" THEN Goes(a, "over") ELSE UNCHANGED stage
    /\ UNCHANGED <<calls, aborted, claim, stored, activity, rejected, service>>

-----------------------------------------------------------------------------
(* The attempt. *)

\* Service calls need a loaded factory and owner.  createAgent prepares its
\* Session first, which a live session of the id refuses.
Called(a) ==
    /\ stage[a] = "unborn" /\ factory = "active" /\ a \in owner
    /\ Goes(a, IF kind[a] = "create" /\ session # Nobody THEN "over" ELSE "opening")
    /\ UNCHANGED <<calls, teardown, aborted, claim, stored, registries, activity, rejected, service>>

\* The claim is free, and the stored session is there for a resume only.
MayClaim(a) == claim = Nobody /\ stored = (kind[a] = "resume")

\* Slip: the factory is looked at when the call begins, not again.
MayPrepareUnchecked(a) == a \in owner /\ a \notin aborted

\* prepare() refuses an unloaded owner, an unloaded factory and a cancelled caller.
MayPrepare(a) == a \in owner /\ factory = "active" /\ a \notin aborted

\* The maintenance run that initializes the driver begins at once.
Initializes(a) ==
    /\ Goes(a, "initializing")
    /\ driver' = [driver EXCEPT ![a] = "active"]

CreateOpens(a) ==
    /\ stage[a] = "opening" /\ kind[a] = "create" /\ MayClaim(a)
    /\ claim' = a
    /\ IF MayPrepare(a) THEN Initializes(a) ELSE Goes(a, "discarding") /\ UNCHANGED driver
    /\ UNCHANGED <<calls, teardown, aborted, stored, registries, latched, rejected, service>>

ResumeOpens(a) ==
    /\ stage[a] = "opening" /\ kind[a] = "resume" /\ MayClaim(a)
    /\ claim' = a
    /\ Goes(a, "loading")
    /\ UNCHANGED <<calls, teardown, aborted, stored, registries, activity, rejected, service>>

OpenFails(a) ==
    /\ stage[a] = "opening" /\ Goes(a, "over")
    /\ UNCHANGED <<calls, teardown, aborted, claim, stored, registries, activity, rejected, service>>

\* Resume has read and repaired the log; it prepares unless someone gave up, or
\* a live session of the id is still registered.  Reading may also just fail.
LoadEnds(a) ==
    /\ stage[a] = "loading"
    /\ \/ MayPrepare(a) /\ session = Nobody /\ Initializes(a)
       \/ Goes(a, "discarding") /\ UNCHANGED driver
    /\ UNCHANGED <<calls, teardown, aborted, claim, stored, registries, latched, rejected, service>>

Discards(a) ==
    /\ stage[a] = "discarding"
    /\ claim' = Nobody /\ Goes(a, "over")
    /\ UNCHANGED <<calls, teardown, aborted, stored, registries, activity, rejected, service>>

\* An open abandoned on cancellation is not awaited: when it succeeds after all,
\* its handle is closed.
OrphanOpens(a) ==
    /\ a \in orphans /\ claim # a
    /\ \/ MayClaim(a) /\ claim' = a /\ UNCHANGED orphans
       \/ orphans' = orphans \ {a} /\ UNCHANGED claim
    /\ UNCHANGED <<stage, kind, owner, teardown, aborted, stored, registries, activity, rejected, service>>

OrphanCloses(a) ==
    /\ a \in orphans /\ claim = a
    /\ claim' = Nobody /\ orphans' = orphans \ {a}
    /\ UNCHANGED <<stage, kind, owner, teardown, aborted, stored, registries, activity, rejected, service>>

\* An activity has converged.  A latched wake is replayed by a new one, unless its
\* message is gone.  A replay that throws (the registry admits no driver, or the
\* inbox cannot be read) leaves whoever waits for the driver without an answer.
Convergences(a) ==
    {"idle"} \union IF a \notin latched THEN {}
        ELSE (IF admission = "open" THEN {"active"} ELSE {}) \union
             (IF admission = "closed" \/ factory # "active" THEN {"stuck"} ELSE {})

\* Slip: the caller is told at once, and nothing is disposed.
RollsBackUndisposed(a) ==
    /\ Goes(a, "over")
    /\ UNCHANGED teardown
    /\ aborted' = aborted \union {a}
    /\ Converges(a, "idle")

\* initializeAgent: a failure disposes what was prepared, and waits for it.  The
\* disposal cancels a turn that the end of the maintenance run has started, unless
\* an observer of its first events has.
Undoes(a, next) ==
    /\ Goes(a, "rolling")
    /\ teardown' = [teardown EXCEPT ![a] = IF @ = "none" THEN "quiescing" ELSE @]
    /\ aborted' = aborted \union {a}
    /\ IF next = "active" /\ teardown[a] = "none"
       THEN \E cause \in {"disposed", "cancelled"} : Converges(a, cause)
       ELSE Converges(a, next)

\* The failing run is cancelled as disposed first, and then replays nothing,
\* unless a user had cancelled it.
RollsBack(a) ==
    \E next \in IF driver[a] = "cancelled" THEN Convergences(a) ELSE {"idle"} : Undoes(a, next)

\* Setup resolves, or rejects, or loses the race against the signal.
SetupEnds(a) ==
    /\ stage[a] = "initializing"
    /\ \/ a \notin aborted /\ Goes(a, "storing") /\ UNCHANGED <<teardown, aborted, activity>>
       \/ RollsBack(a)
    /\ UNCHANGED <<calls, claim, stored, registries, rejected, service>>

\* The unstored suffix is appended, or cannot be.
SuffixFails(a) ==
    /\ stage[a] = "storing" /\ RollsBack(a)
    /\ UNCHANGED <<calls, claim, stored, registries, rejected, service>>

\* publish(): both registries are entered and session/created is told before the
\* listeners of agent/created are awaited.  Each of them may refuse.
Publishes(a) ==
    /\ stage[a] = "storing"
    /\ stored' \in {stored, TRUE}
    /\ \/ /\ a \in aborted \/ session # Nobody
          /\ RollsBack(a) /\ UNCHANGED registries
       \/ /\ a \notin aborted /\ session = Nobody
          /\ session' = a
          /\ \/ agent # Nobody /\ RollsBack(a) /\ UNCHANGED <<agent, told>>
             \/ /\ agent = Nobody /\ agent' = a
                /\ told' = [told EXCEPT ![a].session = "created"] /\ RollsBack(a)
             \/ /\ agent = Nobody /\ agent' = a
                /\ told' = [told EXCEPT ![a] = [session |-> "created", agent |-> "created"]]
                /\ Goes(a, "announcing") /\ UNCHANGED <<teardown, aborted, activity>>
    /\ UNCHANGED <<calls, claim, rejected, service>>

\* The listeners have settled.  A wake latched meanwhile starts the driver; if that
\* throws, the creation fails after all.
AnnouncementEnds(a) ==
    /\ stage[a] = "announcing"
    /\ \/ /\ a \notin aborted /\ Goes(a, "live")
          /\ \E next \in Convergences(a) \ {"stuck"} : Converges(a, next)
          /\ UNCHANGED <<teardown, aborted>>
       \/ a \notin aborted /\ "stuck" \in Convergences(a) /\ Undoes(a, "stuck")
       \/ RollsBack(a)
    /\ UNCHANGED <<calls, claim, stored, registries, rejected, service>>

RollbackEnds(a) ==
    /\ stage[a] = "rolling" /\ teardown[a] = "done"
    /\ Goes(a, "over")
    /\ UNCHANGED <<calls, teardown, aborted, claim, stored, registries, activity, rejected, service>>

-----------------------------------------------------------------------------
(* The driver of a prepared agent. *)

\* setup is given the agent; once it is registered anyone finds it.  Its driver is
\* followed until the disposal has waited for it.
Reachable(a) ==
    /\ stage[a] \in Preparing \/ agent = a
    /\ teardown[a] \in {"none", "publication", "quiescing"}

\* send() with a wake: it opens a turn, is latched behind the maintenance run or an
\* activity that a user cancelled, or joins the turn that is running.  Disposal
\* refuses no sender: a wake may open a turn that it then waits for.
WakeOpensTurn(a) ==
    /\ Reachable(a) /\ DriverIsIdle(a)
    /\ driver' = [driver EXCEPT ![a] = IF admission = "open" THEN "active" ELSE "stuck"]
    /\ UNCHANGED <<stage, calls, teardown, aborted, claim, stored, registries, latched, rejected, service>>

WakeIsLatched(a) ==
    /\ Reachable(a) /\ a \notin latched
    /\ driver[a] = "cancelled" \/ (driver[a] = "active" /\ stage[a] \in Preparing)
    /\ latched' = latched \union {a}
    /\ UNCHANGED <<stage, calls, teardown, aborted, claim, stored, registries, driver, rejected, service>>

\* cancel({ kind: 'user' }), which may clear the inbox with its latched wake.
UserCancels(a) ==
    /\ Reachable(a) /\ driver[a] \in {"active", "cancelled"}
    /\ driver' = [driver EXCEPT ![a] = "cancelled"]
    /\ latched' \in {latched, latched \ {a}}
    /\ UNCHANGED <<stage, calls, teardown, aborted, claim, stored, registries, rejected, service>>

\* kick() returns, or throws in its replay; a disposal that waits for it then goes
\* straight to its handle.
TurnEnds(a) ==
    /\ stage[a] \notin Preparing /\ driver[a] \in {"active", "cancelled", "disposed"}
    /\ \E next \in Convergences(a) :
        IF next = "stuck" /\ teardown[a] = "quiescing"
        THEN /\ teardown' = [teardown EXCEPT ![a] = "closing"]
             /\ rejected' = rejected \union {a}
             /\ Converges(a, "idle")
        ELSE Converges(a, next) /\ UNCHANGED <<teardown, rejected>>
    /\ UNCHANGED <<stage, calls, aborted, claim, stored, registries, service>>

-----------------------------------------------------------------------------
(* Cancellation and unload. *)

\* Who watches the signal gives up: an open is abandoned, and a load or an
\* initialization sees the signal at its next look.
GivesUp(S) ==
    LET opens == {a \in S : stage[a] = "opening"}
    IN  /\ stage' = [a \in Attempts |-> IF a \in opens THEN "over" ELSE stage[a]]
        /\ orphans' = orphans \union opens
        /\ aborted' = aborted \union S

\* The caller's signal, which every await before publication watches.
CallerCancels(a) ==
    /\ stage[a] \in {"opening", "loading"} \union Preparing /\ a \notin aborted
    /\ GivesUp({a})
    /\ UNCHANGED <<kind, owner, teardown, claim, stored, registries, activity, rejected, service>>

\* Opening and loading watch the owner and the factory in a resume only; from
\* prepare() on both own the teardown.
Watching(S) == {a \in S : kind[a] = "resume" /\ stage[a] \in {"opening", "loading"}}

OwnerUnloads(a) ==
    /\ a \in owner
    /\ owner' = owner \ {a}
    /\ GivesUp(Watching({a}) \union (Tracked \intersect {a}))
    /\ Disposes(Tracked \intersect {a})
    /\ UNCHANGED <<kind, claim, stored, registries, service>>

\* An ancestor of the agent registry begins to unload.
AdmissionCloses ==
    /\ admission = "open"
    /\ admission' = "closed"
    /\ UNCHANGED <<stage, calls, teardown, aborted, claim, stored, registries, activity, rejected, factory, awaited>>

FactoryUnloads ==
    /\ factory = "active"
    /\ factory' = "disposing"
    /\ awaited' = [teardowns |-> Tracked, calls |-> {a \in Attempts : stage[a] \in Calling}]
    /\ GivesUp(Watching(Attempts) \union Tracked)
    /\ Disposes(Tracked)
    /\ UNCHANGED <<kind, owner, claim, stored, registries, admission>>

\* Every teardown and every call the disposal found has settled.
AllSettled ==
    /\ \A a \in awaited.teardowns : teardown[a] = "done"
    /\ \A a \in awaited.calls : stage[a] \notin Calling

\* The joined teardowns that have rejected.  A call that fails is contained.
Failures == {a \in awaited.teardowns \intersect rejected : teardown[a] = "done"}

\* Promise.all: all have settled, or one has rejected; the fiber goes on either way.
FactoryUnloaded ==
    /\ factory = "disposing"
    /\ AllSettled \/ Failures # {}
    /\ factory' = "gone"
    /\ UNCHANGED <<stage, calls, teardown, aborted, claim, stored, registries, activity, rejected, admission, awaited>>

-----------------------------------------------------------------------------
Teardown(a) ==
    \/ PublicationSettles(a) \/ Quiesces(a) \/ ScopeUnwinds(a) \/ HandleCloses(a) \/ Detaches(a)
Progress(a) ==
    \/ CreateOpens(a) \/ ResumeOpens(a) \/ OpenFails(a) \/ LoadEnds(a) \/ Discards(a)
    \/ SetupEnds(a) \/ SuffixFails(a) \/ Publishes(a) \/ AnnouncementEnds(a) \/ RollbackEnds(a)
Orphan(a) == OrphanOpens(a) \/ OrphanCloses(a)

Next ==
    \/ \E a \in Attempts :
        \/ Called(a) \/ Progress(a) \/ Orphan(a) \/ HandleDisposes(a) \/ Teardown(a)
        \/ WakeOpensTurn(a) \/ WakeIsLatched(a) \/ UserCancels(a) \/ TurnEnds(a)
        \/ CallerCancels(a) \/ OwnerUnloads(a)
    \/ AdmissionCloses \/ FactoryUnloads \/ FactoryUnloaded

Spec == Init /\ [][Next]_vars

\* Persistence calls settle, setup races its signal, creation listeners and
\* scope teardown return, and a cancelled turn converges (AbortConverges of
\* AgentDriver).  A turn that nobody cancelled may run on for ever, and nobody has
\* to call, cancel, dispose or unload.
FairSpec == Spec /\ \A a \in Attempts :
    WF_vars(Progress(a)) /\ WF_vars(Orphan(a)) /\ WF_vars(Teardown(a))
    /\ WF_vars(driver[a] # "active" /\ TurnEnds(a))

-----------------------------------------------------------------------------
(* Properties. *)

TypeOK ==
    /\ stage \in [Attempts -> Stages] /\ kind \in [Attempts -> {"create", "resume"}]
    /\ teardown \in [Attempts -> Teardowns]
    /\ aborted \subseteq Attempts /\ owner \subseteq Attempts /\ orphans \subseteq Attempts
    /\ {claim, session, agent} \subseteq Attempts \union {Nobody}
    /\ stored \in BOOLEAN /\ told \in [Attempts -> [session : News, agent : News]]
    /\ driver \in [Attempts -> Drivers] /\ latched \subseteq Attempts /\ rejected \subseteq Attempts
    /\ awaited \in [teardowns : SUBSET Attempts, calls : SUBSET Attempts]
    /\ admission \in {"open", "closed"}
    /\ factory \in {"active", "disposing", "gone"}

\* A registered session holds the write handle of its log until it is about to
\* be detached, and an agent is registered only with its own session: two
\* attempts at one id never mix their entries, whatever failed or was cancelled.
EntriesOwnTheLog ==
    /\ session # Nobody => claim = session \/ teardown[session] = "detaching"
    /\ agent # Nobody => session = agent
    /\ \A a \in Attempts : stage[a] = "live" => session = a /\ agent = a

\* Why these hold: the inductive invariant, in five parts.
Prepared == Preparing \union {"live", "rolling"}

\* A teardown follows its attempt, and whoever is torn down was told to stop.
StageInv == \A a \in Attempts :
    /\ stage[a] \in {"unborn", "opening", "loading", "discarding"} => teardown[a] = "none"
    /\ stage[a] \in Preparing => teardown[a] \in {"none", "publication", "quiescing"}
    /\ teardown[a] = "publication" => stage[a] \in {"announcing", "rolling"}
    /\ stage[a] = "live" => teardown[a] # "done"
    /\ stage[a] = "rolling" => teardown[a] # "none"
    /\ stage[a] = "over" => teardown[a] \in {"none", "done"}
    /\ teardown[a] # "none" => a \in aborted
    /\ a \in orphans => stage[a] = "over"

\* An attempt has the claim from its open to the end of its close.
ClaimInv == \A a \in Attempts :
    /\ stage[a] \in {"loading", "discarding"} => claim = a
    /\ stage[a] \in Prepared => claim = a \/ teardown[a] \in {"detaching", "done"}
    /\ claim = a => \/ a \in orphans \/ stage[a] \in {"loading", "discarding"}
                    \/ stage[a] \in Prepared /\ teardown[a] \notin {"detaching", "done"}

\* An attempt has its entries from its publication until they are detached.
Published == {"announcing", "live", "rolling"}

EntryInv == \A a \in Attempts :
    /\ session = a => stage[a] \in Published /\ teardown[a] # "done"
    /\ agent = a => session = a
    /\ stage[a] \in {"announcing", "live"} => session = a /\ agent = a

\* What listeners heard agrees with how far the attempt is.
NewsInv == \A a \in Attempts :
    /\ stage[a] \notin Published \union {"over"} =>
            told[a].session = "nothing" /\ told[a].agent = "nothing"
    /\ "created" \in {told[a].session, told[a].agent} =>
            stage[a] \in Published /\ teardown[a] # "done"
    /\ told[a].agent # "nothing" => told[a].session # "nothing"

\* The disposal of the service awaits all that is under way and starts its end.
\* It returns early only when a teardown that it joined has rejected.
UnloadInv == factory # "active" =>
    /\ \A a \in Attempts :
        /\ stage[a] \in Calling => a \in awaited.calls
        /\ stage[a] = "live" => a \in awaited.teardowns
        /\ stage[a] \in Prepared => teardown[a] # "none"
    /\ factory = "gone" => AllSettled \/ Failures # {}

LifecycleInv ==
    /\ TypeOK /\ EntriesOwnTheLog
    /\ StageInv /\ ClaimInv /\ EntryInv /\ NewsInv /\ UnloadInv

\* Listeners that heard of a creation hear of its disposal, and of no other: an
\* attempt that is over left no entry, and no half of a pair, behind.
CreationsArePaired ==
    \A a \in Attempts :
        /\ stage[a] = "over" => session # a /\ agent # a
                /\ told[a].session # "created" /\ told[a].agent # "created"
        /\ told[a].agent # "nothing" => told[a].session # "nothing"

\* What outlives the service's disposal.  An entry that is still registered is
\* being torn down, and a call that goes on never gets to prepare an agent.  Unless
\* a teardown that the disposal joined has rejected nothing of either is left, and
\* only an open that was abandoned may hold the claim, until it is closed.
UnloadLeavesNothing ==
    factory = "gone" =>
        /\ \A a \in Attempts : a \in {session, agent} => teardown[a] # "none"
        /\ \A a \in Attempts : stage[a] \in Prepared => teardown[a] # "none"
        /\ Failures = {} =>
            /\ session = Nobody /\ agent = Nobody
            /\ claim \in orphans \union {Nobody}
            /\ \A a \in Attempts : stage[a] \in {"unborn", "over"}

\* The disposal waits for an activity that it did not cancel: a turn that a wake
\* opened or replayed behind its cancel, or one that nobody will settle.
HeldUp(a) == teardown[a] = "quiescing" /\ driver[a] \in {"active", "stuck"}

\* A teardown that began ends, with the claim given up, unless it is held up; it
\* goes on when it no longer is.  An abandoned open does not pin the session.
TeardownReleases ==
    /\ \A a \in Attempts :
        (teardown[a] # "none") ~> ((teardown[a] = "done" /\ claim # a) \/ HeldUp(a))
    /\ \A a \in Attempts : (a \in orphans) ~> (a \notin orphans /\ claim # a)
=============================================================================
