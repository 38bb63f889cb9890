--------------------------- MODULE SessionRecovery ---------------------------
(***************************************************************************)
(* What a crash leaves of one session, and what resume and fork make of it. *)
(* Composes the agent's turn and step (core/agent-loop/src/agent.ts), its    *)
(* tool calls (tool-calls.ts), the durability checkpoints between them       *)
(* (session/session-checkpoint-policy/src/index.ts), the stored log and the  *)
(* closers that balance a cut one (core/session/src/repair.ts, fork.ts).     *)
(*                                                                         *)
(* Abstractions: the log holds only the events that open, close or answer   *)
(* something, plus the input of a step; a flush is the wait for the log      *)
(* length it was called at (what the write path promises: RefinesLog of      *)
(* WritePath); exclusive and parallel calls differ only in how long a start  *)
(* waits, so both are runs of one pool; request retries are left out.        *)
(***************************************************************************)
EXTENDS Naturals, FiniteSets, SequencesExt

CONSTANTS
    Requests,           \* the tool calls a reply may ask for: sequences of distinct calls
    MaxParallelCalls,   \* the tool pool's limit, maxParallelToolCalls
    MaxTurns,           \* bound: turns the log holds
    MaxSteps,           \* bound: steps the log holds
    MaxCrashes          \* bound: crashes

Calls == UNION {ToSet(r) : r \in Requests}

ASSUME RecoveryAssumption ==
    /\ Requests \subseteq Seq(Calls) /\ \A r \in Requests : IsInjective(r)
    /\ MaxParallelCalls \in Nat \ {0}
    /\ MaxTurns \in Nat /\ MaxSteps \in Nat \ {0} /\ MaxCrashes \in Nat

VARIABLES
    disk,       \* the stored log: what a reader that opens it now is given
    buffer,     \* events appended in memory and not stored yet
    pc,         \* where the session's driver is
    turn,       \* the agent's turn counter
    step,       \* the agent's step counter
    mark,       \* log length the awaited flush was called at
    request,    \* the calls of the reply being executed, in model order
    call,       \* where each of them is
    waits,      \* log length each call's checkpoint was called at
    outcome,    \* the code of each settled call's result
    aborted,    \* the turn's signal
    failed,     \* the tool scheduler has thrown, and drains
    ran,        \* history: <<turn, step, call>> of every body started
    sent,       \* history: <<turn, step>> of every request given to the provider
    crashes

log == disk \o buffer

stored   == <<disk, buffer>>
control  == <<pc, turn, step, mark>>
tools    == <<request, call, waits, outcome, failed>>
history  == <<ran, sent>>
vars     == <<disk, buffer, pc, turn, step, mark, request, call, waits, outcome,
              aborted, failed, ran, sent, crashes>>

Phases == {"down", "repairing", "idle", "pre-step", "preparing", "requesting",
           "streaming", "tools", "stepped"}
CallStates == {"planned", "recorded", "checkpoint", "running", "settled", "committed"}

\* Result codes.  ok: the body answered.  refused: a pre-execute hook or a failed
\* checkpoint answered in its place.  The other three are the codes of the source.
Codes == {"ok", "refused", "aborted-before-dispatch", "not-started", "outcome-unknown"}

-----------------------------------------------------------------------------
(* Events. *)

TurnStart(t)           == [kind |-> "turn/start", turn |-> t]
TurnEnd(t, reason)     == [kind |-> "turn/end", turn |-> t, reason |-> reason]
StepStart(t, s)        == [kind |-> "step/start", turn |-> t, step |-> s]
StepEnd(t, s)          == [kind |-> "step/end", turn |-> t, step |-> s]
Input(t, s)            == [kind |-> "user/message", turn |-> t, step |-> s]
Assistant(t, s, r)     == [kind |-> "assistant/message", turn |-> t, step |-> s, calls |-> r]
ToolCall(t, s, c)      == [kind |-> "tool/call", turn |-> t, step |-> s, call |-> c]
ToolResult(t, s, c, k) == [kind |-> "tool/result", turn |-> t, step |-> s, call |-> c, code |-> k]
EndSeed                == [kind |-> "session/end-seed"]

TurnReasons == {"blocked", "completed", "error", "aborted", "interrupted", "forked"}

-----------------------------------------------------------------------------
(* repair.ts: what the events so far leave open.  pending keeps the requests *)
(* of the open step that have no result, in the order the model made them.   *)

Nothing == [turn |-> 0, step |-> 0, pending |-> <<>>]

Pending(e) == [i \in DOMAIN e.calls |->
    [call |-> e.calls[i], turn |-> e.turn, step |-> e.step, recorded |-> FALSE]]

\* Slip: a result leaves its request open.
WithoutNone(pending, e) == pending

\* A result answers the request of its own call, turn and step.
Without(pending, e) ==
    LET answered == {i \in DOMAIN pending : /\ pending[i].call = e.call
                                           /\ pending[i].turn = e.turn /\ pending[i].step = e.step}
    IN  IF answered = {} THEN pending ELSE RemoveAt(pending, CHOOSE i \in answered : TRUE)

Observe(seen, e) ==
    CASE e.kind = "turn/start" -> [Nothing EXCEPT !.turn = e.turn]
      [] e.kind = "turn/end"   -> Nothing
      [] e.kind = "step/start" -> [seen EXCEPT !.step = e.step]
      [] e.kind = "step/end"   -> [seen EXCEPT !.step = 0, !.pending = <<>>]
      [] e.kind = "assistant/message" -> [seen EXCEPT !.pending = @ \o Pending(e)]
      [] e.kind = "tool/call" ->
            [seen EXCEPT !.pending = [i \in DOMAIN @ |->
                IF @[i].call = e.call THEN [@[i] EXCEPT !.recorded = TRUE] ELSE @[i]]]
      [] e.kind = "tool/result" ->
            [seen EXCEPT !.pending = Without(@, e)]
      [] OTHER -> seen

Seen(events) ==
    LET after[i \in 0..Len(events)] ==
            IF i = 0 THEN Nothing ELSE Observe(after[i - 1], events[i])
    IN  after[Len(events)]

\* Slip: a request without a recorded call is not answered.
ResultsOfRecorded(seen) ==
    LET recorded == SelectSeq(seen.pending, LAMBDA p : p.recorded)
    IN  [i \in DOMAIN recorded |->
            ToolResult(recorded[i].turn, recorded[i].step, recorded[i].call, "outcome-unknown")]

\* ToolCallRecovery.results: one conservative answer per request left open.
Results(seen) == [i \in DOMAIN seen.pending |->
    LET p == seen.pending[i]
    IN  ToolResult(p.turn, p.step, p.call,
                   IF p.recorded THEN "outcome-unknown" ELSE "not-started")]

\* Slip: the turn is closed over its open step.
ClosersWithoutStep(events, cause) ==
    LET seen == Seen(events)
    IN  IF seen.turn = 0 THEN <<>>
        ELSE Results(seen) \o <<TurnEnd(seen.turn, cause)>>

\* openTurnClosers: the results, then the open step, then the open turn.
Closers(events, cause) ==
    LET seen == Seen(events)
        last == IF seen.step = 0 THEN <<>> ELSE <<StepEnd(seen.turn, seen.step)>>
    IN  IF seen.turn = 0 THEN <<>>
        ELSE Results(seen) \o last \o <<TurnEnd(seen.turn, cause)>>

Count(events, kind) == Cardinality({i \in DOMAIN events : events[i].kind = kind})

\* The turn a resumed agent counts on from: turns count from 1 without a gap.
LastTurn(events) == Count(events, "turn/start")

\* Slip: only the turn is closed.
ForkSeedUnclosed(events, boundary) ==
    Append(SubSeq(events, 1, boundary), EndSeed) \o <<TurnEnd(LastTurn(events), "forked")>>

\* buildForkSeed: a copied prefix, its cut, and the closers of what it cuts open.
ForkSeed(events, boundary) ==
    LET prefix == Append(SubSeq(events, 1, boundary), EndSeed)
    IN  prefix \o Closers(prefix, "forked")

-----------------------------------------------------------------------------
Resting == [c \in Calls |-> "planned"]
NoMarks == [c \in Calls |-> 0]
NoCodes == [c \in Calls |-> "ok"]

\* No reply is being executed.
NoTools ==
    /\ request' = <<>> /\ call' = Resting /\ waits' = NoMarks /\ outcome' = NoCodes
    /\ failed' = FALSE

Init ==
    /\ disk = <<>> /\ buffer = <<>>
    /\ pc = "idle" /\ turn = 0 /\ step = 0 /\ mark = 0
    /\ request = <<>> /\ call = Resting /\ waits = NoMarks /\ outcome = NoCodes
    /\ aborted = FALSE /\ failed = FALSE
    /\ ran = {} /\ sent = {} /\ crashes = 0

Log(events) == buffer' = buffer \o events /\ UNCHANGED disk

CountOf(kind) == Count(log, kind)

\* A flush resolves once everything logged when it was called is stored.
Flushed(n) == n <= Len(disk)

\* The writer stores the next event of the in-memory tail.
Persist ==
    /\ pc # "down" /\ buffer # <<>>
    /\ disk' = Append(disk, Head(buffer)) /\ buffer' = Tail(buffer)
    /\ UNCHANGED <<control, tools, history, aborted, crashes>>

-----------------------------------------------------------------------------
(* The turn and its steps. *)

\* A turn opens, and its first pre-step awaits the checkpoint of what precedes it.
TurnOpens ==
    /\ pc = "idle" /\ turn < MaxTurns
    /\ turn' = turn + 1 /\ step' = 0 /\ aborted' = FALSE
    /\ Log(<<TurnStart(turn + 1)>>)
    /\ pc' = "pre-step" /\ mark' = Len(log) + 1
    /\ UNCHANGED <<tools, history, crashes>>

\* cancel() or disposal aborts the turn's signal.
Abort ==
    /\ pc \notin {"down", "repairing", "idle"} /\ ~aborted
    /\ aborted' = TRUE
    /\ UNCHANGED <<stored, control, tools, history, crashes>>

TurnCloses(reason) ==
    /\ Log(<<TurnEnd(turn, reason)>>)
    /\ pc' = "idle"
    /\ UNCHANGED <<turn, step, mark, tools, history, aborted, crashes>>

\* The pre-step decision: enter, reject, throw, or see the signal.
StepOpens ==
    /\ pc = "pre-step" /\ Flushed(mark) /\ ~aborted /\ CountOf("step/start") < MaxSteps
    /\ step' = step + 1
    /\ Log(<<StepStart(turn, step + 1)>>)
    /\ pc' = "preparing"
    /\ UNCHANGED <<turn, mark, tools, history, aborted, crashes>>

PreStepRefuses ==
    /\ pc = "pre-step"
    /\ \E reason \in {"blocked", "completed", "error", "aborted"} :
        /\ (reason \in {"blocked", "completed"}) => Flushed(mark)
        /\ (reason = "aborted") <=> aborted
        /\ TurnCloses(reason)

\* The step's messages join the log, and the request awaits its checkpoint.
RequestBuilt ==
    /\ pc = "preparing" /\ ~aborted
    /\ Log(<<Input(turn, step)>>)
    /\ pc' = "requesting" /\ mark' = Len(log) + 1
    /\ UNCHANGED <<turn, step, tools, history, aborted, crashes>>

\* Slip: the request does not wait for its checkpoint.
RequestSentUnflushed ==
    /\ pc = "requesting"
    /\ sent' = sent \union {<<turn, step>>}
    /\ pc' = "streaming"
    /\ UNCHANGED <<stored, turn, step, mark, tools, ran, aborted, crashes>>

\* The checkpoint resolves, and the adapter is asked for its first chunk.
RequestSent ==
    /\ pc = "requesting" /\ Flushed(mark)
    /\ sent' = sent \union {<<turn, step>>}
    /\ pc' = "streaming"
    /\ UNCHANGED <<stored, turn, step, mark, tools, ran, aborted, crashes>>

\* The reply is complete.  Without tool calls the step is over.
ReplyArrives(r) ==
    /\ pc = "streaming" /\ ~aborted
    /\ Log(<<Assistant(turn, step, r)>> \o IF r = <<>> THEN <<StepEnd(turn, step)>> ELSE <<>>)
    /\ pc' = IF r = <<>> THEN "stepped" ELSE "tools"
    /\ request' = r /\ call' = Resting /\ waits' = NoMarks /\ outcome' = NoCodes
    /\ UNCHANGED <<turn, step, mark, failed, history, aborted, crashes>>

\* A step that throws answers the requests it leaves open, then closes.
StepThrows ==
    /\ \/ pc \in {"preparing", "requesting", "streaming"}
       \/ pc = "tools" /\ failed
          /\ \A c \in Calls : call[c] \notin {"recorded", "checkpoint", "running"}
    /\ Log(Results(Seen(log)) \o <<StepEnd(turn, step)>>)
    /\ failed' = TRUE
    /\ pc' = "stepped"
    /\ UNCHANGED <<turn, step, mark, request, call, waits, outcome, history, aborted, crashes>>

\* The step has closed: the next one proposes itself, or the turn ends.
TurnGoesOn ==
    /\ pc = "stepped" /\ ~aborted /\ ~failed /\ CountOf("step/start") < MaxSteps
    /\ NoTools
    /\ pc' = "pre-step" /\ mark' = Len(log)
    /\ UNCHANGED <<stored, turn, step, history, aborted, crashes>>

TurnEnds ==
    /\ pc = "stepped"
    /\ Log(<<TurnEnd(turn, IF aborted THEN "aborted" ELSE IF failed THEN "error" ELSE "completed")>>)
    /\ NoTools
    /\ pc' = "idle"
    /\ UNCHANGED <<turn, step, mark, history, aborted, crashes>>

-----------------------------------------------------------------------------
(* The tool pool.  A call is known by its place in the reply. *)

InState(states) == {i \in DOMAIN request : call[request[i]] \in states}
NextPlanned == 1 + Cardinality(DOMAIN request \ InState({"planned"}))

\* startCall: calls start in model order, one at a time, while the pool has room.
CallRecorded ==
    /\ pc = "tools" /\ ~aborted /\ ~failed
    /\ InState({"recorded"}) = {}
    /\ Cardinality(InState({"checkpoint", "running"})) < MaxParallelCalls
    /\ NextPlanned <= Len(request)
    /\ LET c == request[NextPlanned]
       IN  /\ Log(<<ToolCall(turn, step, c)>>)
           /\ call' = [call EXCEPT ![c] = "recorded"]
    /\ UNCHANGED <<control, request, waits, outcome, failed, history, aborted, crashes>>

Settles(c, code) ==
    /\ call' = [call EXCEPT ![c] = "settled"]
    /\ outcome' = [outcome EXCEPT ![c] = code]
    /\ UNCHANGED <<stored, control, request, waits, failed, history, aborted, crashes>>

\* prepare: a pre-execute hook answers, or the call goes on to its checkpoint.
HookAnswers(c) == call[c] = "recorded" /\ Settles(c, "refused")

Dispatched(c) ==
    /\ call[c] = "recorded"
    /\ call' = [call EXCEPT ![c] = "checkpoint"]
    /\ waits' = [waits EXCEPT ![c] = Len(log)]
    /\ UNCHANGED <<stored, control, request, outcome, failed, history, aborted, crashes>>

\* Slip: the body starts while its call is being stored.
BodyStartsUnflushed(c) ==
    /\ call[c] = "checkpoint" /\ ~aborted
    /\ call' = [call EXCEPT ![c] = "running"]
    /\ ran' = ran \union {<<turn, step, c>>}
    /\ UNCHANGED <<stored, control, request, waits, outcome, failed, sent, aborted, crashes>>

\* The checkpoint resolves: the body starts unless the turn was aborted meanwhile.
BodyStarts(c) ==
    /\ call[c] = "checkpoint" /\ Flushed(waits[c]) /\ ~aborted
    /\ call' = [call EXCEPT ![c] = "running"]
    /\ ran' = ran \union {<<turn, step, c>>}
    /\ UNCHANGED <<stored, control, request, waits, outcome, failed, sent, aborted, crashes>>

AbortedBeforeDispatch(c) ==
    /\ call[c] = "checkpoint" /\ Flushed(waits[c]) /\ aborted
    /\ Settles(c, "aborted-before-dispatch")

\* The checkpoint rejects: the body is not called.
CheckpointRejects(c) == call[c] = "checkpoint" /\ Settles(c, "refused")

BodySettles(c) == call[c] = "running" /\ Settles(c, "ok")

\* commitReady: results join the log in model order.
ResultCommitted(i) ==
    /\ pc = "tools" /\ ~failed
    /\ call[request[i]] = "settled"
    /\ \A j \in 1..(i - 1) : call[request[j]] = "committed"
    /\ Log(<<ToolResult(turn, step, request[i], outcome[request[i]])>>)
    /\ call' = [call EXCEPT ![request[i]] = "committed"]
    /\ UNCHANGED <<control, request, waits, outcome, failed, history, aborted, crashes>>

\* prepare, dispatch or finalize throws: nothing starts or commits any more.
SchedulerThrows(c) ==
    /\ pc = "tools" /\ ~failed /\ call[c] \in {"recorded", "running", "settled"}
    /\ failed' = TRUE
    /\ call' = [call EXCEPT ![c] = "settled"]
    /\ UNCHANGED <<stored, control, request, waits, outcome, history, aborted, crashes>>

\* Every call is answered; after an abort the calls never started are skipped.
Skipped(calls) == [k \in 1..(2 * Len(calls)) |->
    LET c == calls[(k + 1) \div 2]
    IN  IF k % 2 = 1 THEN ToolCall(turn, step, c)
                     ELSE ToolResult(turn, step, c, "aborted-before-dispatch")]

ToolsFinish ==
    /\ pc = "tools" /\ ~failed
    /\ InState({"recorded", "checkpoint", "running", "settled"}) = {}
    /\ InState({"planned"}) # {} => aborted
    /\ Log(Skipped(SubSeq(request, NextPlanned, Len(request))) \o <<StepEnd(turn, step)>>)
    /\ pc' = "stepped"
    /\ UNCHANGED <<turn, step, mark, tools, history, aborted, crashes>>

-----------------------------------------------------------------------------
(* Crash and resume. *)

Volatile ==
    /\ turn' = 0 /\ step' = 0 /\ mark' = 0 /\ aborted' = FALSE
    /\ NoTools

\* The process dies, and with it everything that was only in memory.
Crash ==
    /\ pc # "down" /\ crashes < MaxCrashes
    /\ crashes' = crashes + 1
    /\ pc' = "down" /\ buffer' = <<>>
    /\ Volatile
    /\ UNCHANGED <<disk, history>>

\* resumeWith: the closers of the stored log go through the same writer.
ResumeReads ==
    /\ pc = "down"
    /\ Log(Closers(disk, "interrupted"))
    /\ pc' = "repairing"
    /\ UNCHANGED <<turn, step, mark, tools, history, aborted, crashes>>

\* The append of the closers rejects, with any of them stored.
ResumeFails ==
    /\ pc = "repairing" /\ buffer # <<>>
    /\ pc' = "down" /\ buffer' = <<>>
    /\ UNCHANGED <<disk, turn, step, mark, tools, history, aborted, crashes>>

\* Slip: the resumed agent counts its turns from the start.
ResumePublishesFresh ==
    /\ pc = "repairing" /\ buffer = <<>>
    /\ pc' = "idle" /\ turn' = 0
    /\ UNCHANGED <<stored, step, mark, tools, history, aborted, crashes>>

ResumePublishes ==
    /\ pc = "repairing" /\ buffer = <<>>
    /\ pc' = "idle" /\ turn' = LastTurn(disk)
    /\ UNCHANGED <<stored, step, mark, tools, history, aborted, crashes>>

Turn ==
    \/ TurnOpens \/ Abort \/ StepOpens \/ PreStepRefuses
    \/ RequestBuilt \/ RequestSent
    \/ \E r \in Requests : ReplyArrives(r)
    \/ StepThrows \/ TurnGoesOn \/ TurnEnds

Pool ==
    \/ CallRecorded
    \/ \E c \in ToSet(request) :
        \/ HookAnswers(c) \/ Dispatched(c) \/ BodyStarts(c) \/ AbortedBeforeDispatch(c)
        \/ CheckpointRejects(c) \/ BodySettles(c) \/ SchedulerThrows(c)
    \/ \E i \in DOMAIN request : ResultCommitted(i)
    \/ ToolsFinish

Next ==
    \/ Persist \/ Turn \/ Pool
    \/ Crash \/ ResumeReads \/ ResumeFails \/ ResumePublishes

Spec == Init /\ [][Next]_vars
-----------------------------------------------------------------------------
(* Properties. *)

InStep == {"preparing", "requesting", "streaming", "tools"}

Event ==
    [kind : {"turn/start"}, turn : Nat]
    \union [kind : {"turn/end"}, turn : Nat, reason : TurnReasons]
    \union [kind : {"step/start", "step/end", "user/message"}, turn : Nat, step : Nat]
    \union [kind : {"assistant/message"}, turn : Nat, step : Nat, calls : Requests]
    \union [kind : {"tool/call"}, turn : Nat, step : Nat, call : Calls]
    \union [kind : {"tool/result"}, turn : Nat, step : Nat, call : Calls, code : Codes]
    \union {EndSeed}

Asked(events, t, s) == {i \in DOMAIN events :
    events[i].kind = "assistant/message" /\ events[i].turn = t /\ events[i].step = s}
Closed(events, t) == Cardinality({i \in DOMAIN events :
    events[i].kind = "step/end" /\ events[i].turn = t})

\* An event a log may go on with.  Turns and steps count from 1 and nest, a step
\* asks once, and its requests are answered in order, each before the step ends.
Follows(events, e) ==
    LET seen == Seen(events)
    IN  /\ e \in Event
        /\ e.kind = "turn/start" => seen.turn = 0 /\ e.turn = LastTurn(events) + 1
        /\ e.kind \in {"turn/end", "step/start"} =>
                seen.turn # 0 /\ e.turn = seen.turn /\ seen.step = 0
        /\ e.kind = "step/start" => e.step = Closed(events, e.turn) + 1
        /\ e.kind \in {"user/message", "assistant/message", "tool/call", "tool/result", "step/end"} =>
                seen.step # 0 /\ e.turn = seen.turn /\ e.step = seen.step
        /\ e.kind = "assistant/message" => Asked(events, e.turn, e.step) = {}
        /\ e.kind = "tool/call" => \E p \in ToSet(seen.pending) : p.call = e.call /\ ~p.recorded
        /\ e.kind = "tool/result" =>
                /\ seen.pending # <<>>
                /\ Head(seen.pending).call = e.call
                /\ e.code = "not-started" <=> ~Head(seen.pending).recorded
        /\ e.kind = "step/end" => seen.pending = <<>>

Boundaries == 0..MaxTurns

TypeOK ==
    /\ pc \in Phases
    /\ turn \in Boundaries /\ step \in 0..MaxSteps /\ mark \in Nat
    /\ request \in Requests \union {<<>>}
    /\ call \in [Calls -> CallStates] /\ outcome \in [Calls -> Codes] /\ waits \in [Calls -> Nat]
    /\ aborted \in BOOLEAN /\ failed \in BOOLEAN
    /\ ran \subseteq (1..MaxTurns) \X (1..MaxSteps) \X Calls
    /\ sent \subseteq (1..MaxTurns) \X (1..MaxSteps)
    /\ crashes \in 0..MaxCrashes

Collected(answers, e, t, s) ==
    IF e.kind = "tool/result" /\ e.turn = t /\ e.step = s THEN Append(answers, e) ELSE answers

\* The results of one step, in the order of the log.
ResultsOf(events, t, s) ==
    LET upTo[i \in 0..Len(events)] ==
            IF i = 0 THEN <<>> ELSE Collected(upTo[i - 1], events[i], t, s)
    IN  upTo[Len(events)]

ClosedSteps(events) == {<<e.turn, e.step>> : e \in {f \in ToSet(events) : f.kind = "step/end"}}

\* In a closed step every call the model asked for has exactly one result, in
\* the order of the model's request, and each result that does not say its call
\* was never recorded has its tool/call.
Answered(events) ==
    \A x \in ClosedSteps(events) : \A i \in Asked(events, x[1], x[2]) :
        LET answers == ResultsOf(events, x[1], x[2])
        IN  /\ [k \in DOMAIN answers |-> answers[k].call] = events[i].calls
            /\ \A k \in DOMAIN answers : answers[k].code # "not-started" =>
                    ToolCall(x[1], x[2], answers[k].call) \in ToSet(events)

\* However a step ends - normally, aborted, by an exception, by a crash and the
\* closers of resume - a provider never sees a dangling or a repeated answer.
AnsweredOnce == Answered(log)

\* A result that says its body never ran tells the truth, and a body that ran
\* is answered by its own result or by "outcome unknown", across crashes too:
\* the tools/execute checkpoint stores the call before its body starts.
HonestOutcome ==
    \A e \in {f \in ToSet(log) : f.kind = "tool/result"} :
        IF <<e.turn, e.step, e.call>> \in ran THEN e.code \in {"ok", "outcome-unknown"}
                                              ELSE e.code # "ok"

\* Every request the provider saw is in the stored log, so a crash cannot lose
\* it: its step and its input.
SentIsRecorded ==
    \A x \in sent : {StepStart(x[1], x[2]), Input(x[1], x[2])} \subseteq ToSet(disk)

\* So is every call whose body was started.
RanIsRecorded == \A x \in ran : ToolCall(x[1], x[2], x[3]) \in ToSet(disk)

\* What the driver believes to be open is what its log leaves open.
PlaceInv ==
    LET seen == Seen(log)
    IN  /\ pc = "down" => buffer = <<>>
        /\ pc \in {"repairing", "idle"} => seen = Nothing
        /\ pc = "idle" => turn = LastTurn(log)
        /\ pc \notin {"down", "repairing", "idle"} => turn # 0 /\ seen.turn = turn
        /\ pc \in {"pre-step", "stepped"} => seen.step = 0 /\ step = Closed(log, turn)
        /\ pc \in InStep => step # 0 /\ seen.step = step
        /\ pc \in InStep \ {"tools"} => Asked(log, turn, step) = {}
        /\ pc = "requesting" => \E i \in 1..mark : i <= Len(log) /\ log[i] = Input(turn, step)
        /\ pc \notin {"tools", "stepped"} => request = <<>>
        /\ pc = "stepped" => \A c \in ToSet(request) : call[c] \in {"planned", "settled", "committed"}

\* The first done calls of the request are answered in the log, the first known ones
\* recorded, and the log leaves exactly the others open.
PoolAt(done, known) ==
    /\ done <= known
    /\ \A i \in DOMAIN request :
        /\ call[request[i]] = "committed" <=> i <= done
        /\ call[request[i]] = "planned" <=> known < i
    /\ Seen(log).pending = [k \in 1..(Len(request) - done) |->
            [call |-> request[done + k], turn |-> turn, step |-> step,
             recorded |-> done + k <= known]]

\* A call waits for its own record, and its outcome tells whether its body ran.
CallAt(c) ==
    /\ call[c] = "checkpoint" =>
            \E i \in 1..waits[c] : i <= Len(log) /\ log[i] = ToolCall(turn, step, c)
    /\ call[c] \in {"planned", "recorded", "checkpoint"} => <<turn, step, c>> \notin ran
    /\ call[c] = "running" => <<turn, step, c>> \in ran
    /\ call[c] = "settled" /\ ~failed => (outcome[c] = "ok" <=> <<turn, step, c>> \in ran)
    /\ outcome[c] \notin {"not-started", "outcome-unknown"}

PoolInv == pc = "tools" =>
    /\ \E done, known \in 0..Len(request) : PoolAt(done, known)
    /\ \A c \in ToSet(request) : CallAt(c)

\* The log grows by events that its earlier ones allow.  (Events are stored one at
\* a time, so the last one covers every prefix.)
GrowthInv == disk # <<>> => Follows(Front(disk), Last(disk))

\* What crashed runs did is known from the stored log, which is well formed and
\* leaves open what the driver has open.
RecoveryInv ==
    /\ TypeOK /\ SentIsRecorded /\ RanIsRecorded /\ GrowthInv /\ PlaceInv /\ PoolInv

\* A log cut anywhere, and a repair cut anywhere, are repaired alike: storing k
\* closers and dying leaves exactly the other closers to store.
RepairResumes ==
    LET closers == Closers(disk, "interrupted")
    IN  \A k \in 0..Len(closers) :
            Closers(disk \o SubSeq(closers, 1, k), "interrupted")
                = SubSeq(closers, k + 1, Len(closers))

\* A fork at any stored event is a closed log: no turn open, every step closed,
\* and every call of its steps answered once.  (Every prefix of a log is a stored log in
\* some reachable state, so the cut at the last event covers every boundary.)
ForkIsClosed ==
    disk # <<>> => LET child  == ForkSeed(disk, Len(disk))
                       closed == ClosedSteps(child)
                   IN  /\ Answered(child)
                       /\ Seen(child) = Nothing
                       /\ \A e \in ToSet(child) : e.kind = "step/start" => <<e.turn, e.step>> \in closed
                       /\ SubSeq(child, 1, Len(disk)) = disk

\* No call's body starts a second time, whatever was resumed in between.
NeverRunTwice ==
    [][\A c \in Calls :
        call[c] = "checkpoint" /\ call'[c] = "running" => <<turn, step, c>> \notin ran]_vars

-----------------------------------------------------------------------------
(* The stored log, event by event, is a behaviour of SessionTrace. *)

Stored(kind) == Count(disk, kind)
StepsClosed == Closed(disk, LastTurn(disk))
Recorded == {p.call : p \in {q \in ToSet(Seen(disk).pending) : q.recorded}}

Trace == INSTANCE SessionTrace WITH
    openTurn <- Seen(disk).turn, openStep <- Seen(disk).step,
    nextTurn <- 1 + Stored("turn/end"), nextStep <- 1 + StepsClosed,
    pendingCalls <- Recorded

\* Trace!TraceSpec.  The mapping reads disk alone, so a step that stores nothing stutters.
RefinesTrace ==
    Trace!TraceInit /\ [][disk' # disk => [Trace!TraceNext]_Trace!trace]_disk
=============================================================================
