----------------------------- MODULE ToolCalls -----------------------------
(***************************************************************************)
(* The tool calls of one assistant step: the scheduler of                   *)
(* packages/core/agent-loop/src/tool-calls.ts and, for each call, the        *)
(* pipeline of packages/core/tools/src/index.ts it drives: prepare           *)
(* (pre-execute policy, approval, guards), dispatch (tools/execute wrappers  *)
(* around the tool body) and finalize (post-execute policy).                *)
(*                                                                         *)
(* The scheduler is one coroutine: pc names the await it is suspended at.    *)
(* Dispatched calls run beside it, each through its own wrappers and body.   *)
(* The turn may be aborted, and a call reclassified by a registry change, at *)
(* every await.  A failing step then answers what is left through           *)
(* ToolCallRecovery (packages/core/session/src/repair.ts).                  *)
(*                                                                         *)
(* Abstracted: arguments, contents, contexts and the concludesTurn flag; the *)
(* signal a wrapper substitutes for the caller's (a deadline that fires is   *)
(* the wrapper's choice of an error result).                                *)
(***************************************************************************)
EXTENDS Naturals, FiniteSets

CONSTANTS
    Count,          \* calls of the assistant message, in model order 1..Count
    MaxParallel,    \* config maxParallelToolCalls
    MaxDelegations  \* bound: how often the wrappers of each call may call next()

ASSUME CountAssumption == Count \in Nat
ASSUME PoolAssumption == MaxParallel \in Nat \ {0}

Call == 1..Count

ASSUME DelegationsAssumption == \A c \in Call : MaxDelegations[c] \in Nat \ {0}

Modes == {"parallel", "exclusive"}

\* A call is ready when its slot holds an outcome to commit.
Stages == {"planned", "preparing", "wrapping", "running", "returned", "ready",
           "abandoned", "answered"}

\* The call's pipeline is under way: policy, wrappers or body.
Active == {"preparing", "wrapping", "running", "returned"}

\* Outcomes of a call.  "error" stands for every failure that names its own
\* cause (a denial, a throwing tool, a deadline).
Results == {"ok", "error", "ABORTED", "ABORTED_BEFORE_DISPATCH",
            "TOOL_NOT_STARTED", "TOOL_OUTCOME_UNKNOWN"}
None == "none"

VARIABLES
    pc,             \* await of the scheduler
    kind,           \* executionMode of each call, as the registry has it now
    aborted,        \* the turn's signal
    mode,           \* classification of the group's first call
    first, last,    \* the group
    next,           \* nextToStart
    committed,      \* calls whose result is committed
    sawAbort,       \* the group's sampled copy of the signal
    inFlight,       \* dispatches whose settlement the loop has not taken
    failure,        \* schedulerFailure is set
    stage,          \* where each call is
    result,         \* its outcome so far
    post,           \* calls whose outcome still goes through post-execute
    invoked,        \* bodyInvoked: calls whose tool body was entered
    delegations,    \* how often the wrappers of a call delegated
    exclusive       \* history: calls classified exclusive when they started

group     == <<mode, first, last>>
pipeline  == <<invoked, delegations>>
vars      == <<pc, kind, aborted, group, next, committed, sawAbort, inFlight, failure,
               stage, result, post, pipeline, exclusive>>

StageIn(stages) == {c \in Call : stage[c] \in stages}

TypeOK ==
    /\ pc \in {"choose", "fill", "preparing", "commit", "finalizing", "racing",
               "skipping", "draining", "failed", "done"}
    /\ kind \in [Call -> Modes]
    /\ aborted \in BOOLEAN /\ sawAbort \in BOOLEAN /\ failure \in BOOLEAN
    /\ mode \in Modes
    /\ first \in 1..(Count + 1) /\ last \in 0..Count
    /\ next \in 1..(Count + 1) /\ committed \in 0..Count
    /\ inFlight \subseteq Call /\ post \subseteq Call
    /\ invoked \subseteq Call /\ exclusive \subseteq Call
    /\ stage \in [Call -> Stages]
    /\ result \in [Call -> Results \union {None}]
    /\ delegations \in [Call -> Nat]

Init ==
    /\ pc = "choose"
    /\ kind \in [Call -> Modes]
    /\ aborted \in BOOLEAN /\ sawAbort = FALSE /\ failure = FALSE
    /\ mode = "exclusive" /\ first = 1 /\ last = 0
    /\ next = 1 /\ committed = 0
    /\ inFlight = {} /\ post = {} /\ invoked = {} /\ exclusive = {}
    /\ stage = [c \in Call |-> "planned"]
    /\ result = [c \in Call |-> None]
    /\ delegations = [c \in Call |-> 0]

-----------------------------------------------------------------------------
(* The scheduler: executeToolCalls and runGroup. *)

\* A parallel group may extend to the last call; a barrier is a group of one.
LastOfGroup == IF kind[next] = "parallel" THEN Count ELSE next

ChooseGroup ==
    /\ pc = "choose" /\ next <= Count
    /\ mode' = kind[next] /\ first' = next /\ last' = LastOfGroup
    /\ sawAbort' = aborted /\ failure' = FALSE
    /\ pc' = "fill"
    /\ UNCHANGED <<kind, aborted, next, committed, inFlight, stage, result, post,
                   pipeline, exclusive>>

AllConsumed ==
    /\ pc = "choose" /\ next > Count
    /\ pc' = "done"
    /\ UNCHANGED <<kind, aborted, group, next, committed, sawAbort, inFlight, failure,
                   stage, result, post, pipeline, exclusive>>

\* Slip: a later call of the group is not classified again before it starts.
CanStartUnchecked ==
    ~sawAbort /\ next <= last /\ Cardinality(inFlight) < MaxParallel

\* fillPool's loop condition.  Later calls of a pool are classified again.
CanStart ==
    /\ ~sawAbort /\ next <= last
    /\ Cardinality(inFlight) < MaxParallel
    /\ next > first /\ mode = "parallel" => kind[next] = "parallel"

\* tool/call is appended and the call enters prepare.
StartCall ==
    /\ pc = "fill" /\ CanStart
    /\ stage' = [stage EXCEPT ![next] = "preparing"]
    /\ exclusive' = IF kind[next] = "exclusive" THEN exclusive \union {next} ELSE exclusive
    /\ pc' = "preparing"
    /\ UNCHANGED <<kind, aborted, group, next, committed, sawAbort, inFlight, failure,
                   result, post, pipeline>>

\* Outcomes that need no dispatch are committed before the next start.
AfterPrepare == "commit"

\* prepare settles: the call is dispatched (None), denied by a policy, or was
\* cancelled, by the caller or by a policy.  A failure of a sibling stops the start.
PrepareEnds(outcome, needsPost) ==
    /\ pc = "preparing" /\ ~failure
    /\ \/ outcome = "error"
       \/ outcome = "ABORTED_BEFORE_DISPATCH" /\ (needsPost \/ aborted)
       \/ outcome = None /\ ~needsPost /\ ~aborted
    /\ stage' = [stage EXCEPT ![next] = IF outcome = None THEN "wrapping" ELSE "ready"]
    /\ result' = [result EXCEPT ![next] = outcome]
    /\ post' = IF needsPost THEN post \union {next} ELSE post
    /\ inFlight' = IF outcome = None THEN inFlight \union {next} ELSE inFlight
    /\ next' = next + 1
    /\ pc' = AfterPrepare
    /\ UNCHANGED <<kind, aborted, group, committed, sawAbort, failure, pipeline, exclusive>>

\* The first failure stops the group: no further start, and the step waits for
\* every dispatch under way.
Drain == failure' = TRUE /\ pc' = "draining"

\* prepare or the append of tool/call rejects, or a sibling failed meanwhile.
StartFails ==
    /\ \/ pc = "preparing" /\ stage' = [stage EXCEPT ![next] = "abandoned"]
       \/ pc = "fill" /\ CanStart /\ UNCHANGED stage
    /\ Drain
    /\ UNCHANGED <<kind, aborted, group, next, committed, sawAbort, inFlight, result, post,
                   pipeline, exclusive>>

\* commitReady: the next uncommitted call of the group, in model order.
Committable == committed + 1 < next /\ stage[committed + 1] = "ready"

\* Slip: any settled call is committed, not the next one in model order.
CommitsOutOfOrder(c) == c \in StageIn({"ready"})

Commits(c) == c = committed + 1 /\ Committable

\* A final result is committed at once, others after post-execute.
CommitFinal ==
    /\ pc = "commit"
    /\ \E c \in Call \ post :
          /\ Commits(c)
          /\ stage' = [stage EXCEPT ![c] = "answered"]
    /\ committed' = committed + 1
    /\ UNCHANGED <<pc, kind, aborted, group, next, sawAbort, inFlight, failure, result, post,
                   pipeline, exclusive>>

Finalize ==
    /\ pc = "commit" /\ Committable /\ committed + 1 \in post
    /\ pc' = "finalizing"
    /\ UNCHANGED <<kind, aborted, group, next, committed, sawAbort, inFlight, failure,
                   stage, result, post, pipeline, exclusive>>

\* Slip: cancellation is always reported as interrupting the body.
CancelledEntered(c) == "ABORTED"

\* cancellationResult: an abort replaces only a successful outcome.
Cancelled(c) == IF c \in invoked THEN "ABORTED" ELSE "ABORTED_BEFORE_DISPATCH"
Settle(c, outcome) == IF aborted /\ outcome = "ok" THEN Cancelled(c) ELSE outcome

\* post-execute keeps the outcome or blocks it.
FinalizeEnds(blocks) ==
    /\ pc = "finalizing"
    /\ LET c == committed + 1 IN
          /\ result' = [result EXCEPT ![c] = IF blocks THEN "error" ELSE Settle(c, @)]
          /\ stage' = [stage EXCEPT ![c] = "answered"]
          /\ post' = post \ {c}
    /\ committed' = committed + 1
    /\ pc' = "commit"
    /\ UNCHANGED <<kind, aborted, group, next, sawAbort, inFlight, failure, pipeline, exclusive>>

\* Appending the result, or accepting the contexts after it, throws.
CommitFails(appended) ==
    /\ pc \in {"commit", "finalizing"} /\ Committable
    /\ stage' = IF appended THEN [stage EXCEPT ![committed + 1] = "answered"] ELSE stage
    /\ Drain
    /\ UNCHANGED <<kind, aborted, group, next, committed, sawAbort, inFlight, result, post,
                   pipeline, exclusive>>

\* Slip: the abort is not sampled again after an ordered commit.
ResumeUnsampled ==
    /\ pc = "commit" /\ ~Committable
    /\ pc' = IF failure THEN "draining" ELSE "fill"
    /\ UNCHANGED <<kind, aborted, group, next, committed, sawAbort, inFlight, failure,
                   stage, result, post, pipeline, exclusive>>

\* Nothing is left to commit: the abort is sampled and the pool refilled.
Resume ==
    /\ pc = "commit" /\ ~Committable
    /\ pc' = IF failure THEN "draining" ELSE "fill"
    /\ sawAbort' = (sawAbort \/ aborted)
    /\ UNCHANGED <<kind, aborted, group, next, committed, inFlight, failure,
                   stage, result, post, pipeline, exclusive>>

\* The pool is full, stopped or at a barrier: wait for any dispatch to settle.
Race ==
    /\ pc = "fill" /\ ~CanStart /\ inFlight # {}
    /\ pc' = "racing"
    /\ UNCHANGED <<kind, aborted, group, next, committed, sawAbort, inFlight, failure,
                   stage, result, post, pipeline, exclusive>>

\* A settled dispatch filled its slot when it settled, and may have been
\* committed since; the race only gives its place in the pool back.
Raced(c) ==
    /\ pc = "racing" /\ c \in inFlight /\ stage[c] \notin Active
    /\ inFlight' = inFlight \ {c}
    /\ pc' = IF failure THEN "draining" ELSE "commit"
    /\ UNCHANGED <<kind, aborted, group, next, committed, sawAbort, failure,
                   stage, result, post, pipeline, exclusive>>

GroupEnds ==
    /\ pc = "fill" /\ ~CanStart /\ inFlight = {}
    /\ pc' = IF sawAbort THEN "skipping" ELSE "choose"
    /\ UNCHANGED <<kind, aborted, group, next, committed, sawAbort, inFlight, failure,
                   stage, result, post, pipeline, exclusive>>

\* appendSkippedToolCall for every call that never started, then the step ends.
SkipCall ==
    /\ pc = "skipping" /\ next <= Count
    /\ stage' = [stage EXCEPT ![next] = "answered"]
    /\ result' = [result EXCEPT ![next] = "ABORTED_BEFORE_DISPATCH"]
    /\ next' = next + 1 /\ committed' = committed + 1
    /\ UNCHANGED <<pc, kind, aborted, group, sawAbort, inFlight, failure, post,
                   pipeline, exclusive>>

\* Appending the pair throws, before or after tool/call.
SkipFails(called) ==
    /\ pc = "skipping" /\ next <= Count
    /\ stage' = IF called THEN [stage EXCEPT ![next] = "abandoned"] ELSE stage
    /\ Drain
    /\ UNCHANGED <<kind, aborted, group, next, committed, sawAbort, inFlight,
                   result, post, pipeline, exclusive>>

SkippedAll ==
    /\ pc = "skipping" /\ next > Count
    /\ pc' = "done"
    /\ UNCHANGED <<kind, aborted, group, next, committed, sawAbort, inFlight, failure,
                   stage, result, post, pipeline, exclusive>>

\* Slip: the drain waits for dispatches that fulfil, and one may have rejected.
DrainsFulfilled ==
    /\ pc = "draining" /\ inFlight \subseteq StageIn({"ready", "answered"})
    /\ pc' = "failed" /\ inFlight' = {}
    /\ UNCHANGED <<kind, aborted, group, next, committed, sawAbort, failure, stage,
                   result, post, pipeline, exclusive>>

\* Every dispatch has settled: the group rejects with the first failure.
Drained ==
    /\ pc = "draining" /\ inFlight \intersect StageIn(Active) = {}
    /\ pc' = "failed" /\ inFlight' = {}
    /\ UNCHANGED <<kind, aborted, group, next, committed, sawAbort, failure, stage,
                   result, post, pipeline, exclusive>>

\* ToolCallRecovery answers the open requests in assistant order.
RecoverResult(c) ==
    /\ pc = "failed"
    /\ stage[c] # "answered" /\ \A d \in 1..(c - 1) : stage[d] = "answered"
    /\ result' = [result EXCEPT ![c] = IF stage[c] = "planned" THEN "TOOL_NOT_STARTED"
                                       ELSE "TOOL_OUTCOME_UNKNOWN"]
    /\ stage' = [stage EXCEPT ![c] = "answered"]
    /\ UNCHANGED <<pc, kind, aborted, group, next, committed, sawAbort, inFlight, failure,
                   post, pipeline, exclusive>>

Recovered ==
    /\ pc = "failed" /\ StageIn({"answered"}) = Call
    /\ pc' = "done"
    /\ UNCHANGED <<kind, aborted, group, next, committed, sawAbort, inFlight, failure,
                   stage, result, post, pipeline, exclusive>>

-----------------------------------------------------------------------------
(* A dispatched call: its tools/execute wrappers and its body. *)

\* What a dispatch leaves alone.
Scheduler == <<kind, aborted, group, next, committed, sawAbort, inFlight, exclusive>>

\* Other code runs only while the scheduler awaits.
Awaiting == pc \notin {"fill", "done"}

\* dispatchToolBody enters the body unless the call was cancelled.
BodyStarts(c) ==
    /\ Awaiting /\ stage[c] = "wrapping" /\ ~aborted
    /\ delegations[c] < MaxDelegations[c]
    /\ delegations' = [delegations EXCEPT ![c] = @ + 1]
    /\ stage' = [stage EXCEPT ![c] = "running"]
    /\ invoked' = invoked \union {c}
    /\ UNCHANGED <<pc, Scheduler, failure, result, post>>

\* The call was cancelled, or its tool has left the registry.
BodyRefused(c) ==
    /\ Awaiting /\ stage[c] = "wrapping"
    /\ delegations[c] < MaxDelegations[c]
    /\ delegations' = [delegations EXCEPT ![c] = @ + 1]
    /\ stage' = [stage EXCEPT ![c] = "returned"]
    /\ result' = [result EXCEPT ![c] = IF aborted THEN "ABORTED_BEFORE_DISPATCH" ELSE "error"]
    /\ UNCHANGED <<pc, Scheduler, failure, post, invoked>>

\* An abort during the body is cooperative: the body settles first.
BodyEnds(c, outcome) ==
    /\ Awaiting /\ stage[c] = "running"
    /\ stage' = [stage EXCEPT ![c] = "returned"]
    /\ result' = [result EXCEPT ![c] = IF aborted /\ outcome = "ok" THEN "ABORTED" ELSE outcome]
    /\ UNCHANGED <<pc, Scheduler, failure, post, pipeline>>

\* A retrying wrapper delegates again after a failed outcome.
WrapperRetries(c) ==
    /\ Awaiting /\ stage[c] = "returned" /\ result[c] # "ok"
    /\ delegations[c] < MaxDelegations[c]
    /\ stage' = [stage EXCEPT ![c] = "wrapping"]
    /\ UNCHANGED <<pc, Scheduler, failure, result, post, pipeline>>

\* The outermost wrapper returns the outcome, its own ("ok" or an error), or
\* throws, which makes the error final.  The settling dispatch fills its slot.
WrapperReturns(c, own, throws) ==
    /\ Awaiting
    /\ \/ stage[c] = "returned" /\ own = None
       \/ stage[c] \in {"wrapping", "returned"} /\ own \in {"ok", "error"}
    /\ throws => own = "error"
    /\ stage' = [stage EXCEPT ![c] = "ready"]
    /\ result' = [result EXCEPT ![c] = Settle(c, IF own = None THEN @ ELSE own)]
    /\ post' = IF throws THEN post ELSE post \union {c}
    /\ UNCHANGED <<pc, Scheduler, failure, pipeline>>

\* The checkpoint wrapper answers a call cancelled while its flush was pending.
WrapperCancels(c) ==
    /\ Awaiting /\ stage[c] = "wrapping" /\ delegations[c] = 0 /\ aborted
    /\ stage' = [stage EXCEPT ![c] = "ready"]
    /\ result' = [result EXCEPT ![c] = "ABORTED_BEFORE_DISPATCH"]
    /\ post' = post \union {c}
    /\ UNCHANGED <<pc, Scheduler, failure, pipeline>>

\* The dispatch itself rejects: an internal failure of the scheduler.
DispatchRejects(c) ==
    /\ Awaiting /\ stage[c] \in {"wrapping", "returned"}
    /\ stage' = [stage EXCEPT ![c] = "abandoned"]
    /\ failure' = TRUE
    /\ UNCHANGED <<pc, Scheduler, result, post, pipeline>>

-----------------------------------------------------------------------------
(* Around the step. *)

Abort ==
    /\ Awaiting /\ ~aborted
    /\ aborted' = TRUE
    /\ UNCHANGED <<pc, kind, group, next, committed, sawAbort, inFlight, failure,
                   stage, result, post, pipeline, exclusive>>

\* The registry changes: a call that has not started is classified anew.  Once
\* the group is stopped by an abort or a failure nobody asks for it any more.
Reclassify(c) ==
    /\ Awaiting /\ stage[c] = "planned" /\ ~sawAbort /\ ~failure
    /\ \E m \in Modes \ {kind[c]} : kind' = [kind EXCEPT ![c] = m]
    /\ UNCHANGED <<pc, aborted, group, next, committed, sawAbort, inFlight, failure,
                   stage, result, post, pipeline, exclusive>>

Finished == pc = "done" /\ UNCHANGED vars

SchedulerStep ==
    \/ ChooseGroup \/ AllConsumed \/ StartCall \/ StartFails
    \/ \E outcome \in {None, "error", "ABORTED_BEFORE_DISPATCH"}, needsPost \in BOOLEAN :
          PrepareEnds(outcome, needsPost)
    \/ \E called \in BOOLEAN : SkipFails(called)
    \/ CommitFinal \/ Finalize \/ Resume \/ Race \/ GroupEnds
    \/ \E blocks \in BOOLEAN : FinalizeEnds(blocks)
    \/ \E appended \in BOOLEAN : CommitFails(appended)
    \/ \E c \in Call : Raced(c) \/ RecoverResult(c)
    \/ SkipCall \/ SkippedAll \/ Drained \/ Recovered

CallStep(c) ==
    \/ BodyStarts(c) \/ BodyRefused(c) \/ WrapperRetries(c)
    \/ \E outcome \in {"ok", "error"} : BodyEnds(c, outcome)
    \/ \E own \in {None, "ok", "error"}, throws \in BOOLEAN : WrapperReturns(c, own, throws)
    \/ WrapperCancels(c) \/ DispatchRejects(c)

Next ==
    \/ SchedulerStep
    \/ \E c \in Call : CallStep(c) \/ Reclassify(c)
    \/ Abort \/ Finished

Spec == Init /\ [][Next]_vars

\* Wrappers, bodies, policies and appends settle; aborts and registry changes
\* need never happen.
FairSpec == Spec /\ WF_vars(SchedulerStep) /\ \A c \in Call : WF_vars(CallStep(c))

-----------------------------------------------------------------------------
(* Properties. *)

\* However calls settle, at most maxParallelToolCalls run at once, and a call
\* that started as exclusive never overlaps another, policy stages included.
PoolBounded ==
    /\ Cardinality(StageIn(Active)) <= MaxParallel
    /\ \A c \in exclusive : stage[c] \in Active => StageIn(Active) = {c}

\* The scheduler's own assertion ("a non-aborted group commits every started
\* call"), for aborted groups as well: a group ends with nothing uncommitted.
GroupCommitsWhatItStarted ==
    (pc = "fill" /\ ~CanStart /\ inFlight = {}) => committed = next - 1

\* Cancellation and failure never abandon work: between two groups, and once
\* the step reports back, no policy, wrapper or tool body is still running.
BodiesDrained ==
    pc \in {"choose", "skipping", "failed", "done"} => StageIn(Active) = {}

\* The recorded outcome tells whether the body may have had side effects:
\* ABORTED only after the body was entered, TOOL_NOT_STARTED only for a call
\* that never was, and ABORTED_BEFORE_DISPATCH only for a call that never was,
\* unless its wrappers delegated more than once: dispatchToolBody answers a
\* cancelled delegation without looking at bodyInvoked, whatever an earlier one ran.
OutcomeTellsWhatRan ==
    \A c \in StageIn({"answered"}) :
        /\ result[c] = "ABORTED" => c \in invoked
        /\ result[c] = "TOOL_NOT_STARTED" => c \notin invoked
        /\ result[c] = "ABORTED_BEFORE_DISPATCH" => c \notin invoked \/ delegations[c] > 1
        /\ result[c] # None

\* Once the turn is aborted no call starts and no tool body is entered, however
\* far its policy, approval or wrappers had got.
AbortStopsTools ==
    [][aborted => \A c \in Call :
          /\ stage[c] = "planned" => stage'[c] # "preparing"
          /\ stage[c] # "running" => stage'[c] # "running"]_vars

\* The log's view of the step: calls with a tool/call event, calls with a
\* result event, and whether only recovery may still append.
Called == {c \in Call : stage[c] # "planned" /\ result[c] # "TOOL_NOT_STARTED"}
Answered == StageIn({"answered"})
Closing == failure /\ pc \in {"failed", "done"}

Answers == INSTANCE ToolAnswers WITH
    called <- Called, answered <- Answered, closing <- Closing

\* Results reach the log in the model's order, each call exactly once, through
\* cancellation, failure and recovery.
RefinesAnswers == Answers!AnswersSpec

\* The step always reports back, with every request answered.
StepReports == <>(pc = "done" /\ Answered = Call)

\* Why these hold: the inductive invariant, in three parts.
Dispatched == {"wrapping", "running", "returned"}

\* While the step is scheduling, the model's order splits the calls into
\* answered, started and planned ones.
Scheduling == {"choose", "fill", "preparing", "commit", "finalizing", "racing", "skipping"}

\* A group has been chosen.
InGroup == {"fill", "preparing", "commit", "finalizing", "racing", "skipping", "draining"}

OrderInv ==
    /\ pc \in Scheduling =>
          /\ committed < next
          /\ \A c \in Call :
                /\ c <= committed <=> stage[c] = "answered"
                /\ committed < c /\ c < next => stage[c] \in Dispatched \union {"ready", "abandoned"}
                /\ c = next => stage[c] = IF pc = "preparing" THEN "preparing" ELSE "planned"
                /\ c > next => stage[c] = "planned"
    /\ pc = "preparing" => next <= Count
    /\ pc = "fill" => ~Committable
    /\ pc \in {"choose", "skipping"} => committed + 1 = next
    /\ pc = "finalizing" => Committable
    /\ pc = "done" => StageIn({"answered"}) = Call

\* The loop holds every dispatch under way; only a failure abandons a call.
FlightInv ==
    /\ \A c \in Call :
          /\ stage[c] \in Dispatched => c \in inFlight
          /\ stage[c] = "preparing" => pc = "preparing" /\ c = next
          /\ stage[c] = "abandoned" => failure
          /\ pc \in {"failed", "done"} => stage[c] \notin Active
    /\ pc \in {"choose", "skipping", "fill"} => ~failure
    /\ pc \in {"draining", "failed"} => failure
    /\ pc \in {"choose", "skipping"} => inFlight = {}

\* Every call under way belongs to the group; a barrier is a group of one.
GroupInv ==
    /\ pc \in InGroup =>
          /\ first <= next
          /\ mode = "exclusive" => last = first
          /\ \A c \in inFlight : first <= c /\ c < next /\ (mode = "exclusive" => c = first)
          /\ \A c \in exclusive : first <= c => c = first /\ mode = "exclusive"
    /\ \A c \in exclusive : stage[c] # "planned"
    /\ pc = "preparing" /\ mode = "exclusive" => next = first
    /\ pc = "fill" /\ next = first => mode = kind[next]
    /\ pc \in {"commit", "finalizing", "racing"} => first < next
    /\ Cardinality(inFlight) <= MaxParallel
    /\ pc = "preparing" => Cardinality(inFlight) < MaxParallel

\* The outcome of a call agrees with how far it got.
OutcomeInv ==
    \A c \in Call :
        /\ stage[c] \in {"returned", "ready", "answered"} => result[c] # None
        /\ stage[c] \in {"planned", "preparing"} => c \notin invoked /\ delegations[c] = 0
        /\ c \in invoked \/ stage[c] = "returned" => delegations[c] > 0
        /\ stage[c] = "wrapping" /\ delegations[c] = 0 => result[c] = None
        /\ stage[c] = "running" => c \in invoked
        /\ result[c] = "ABORTED" => c \in invoked
        /\ result[c] = "ABORTED_BEFORE_DISPATCH" /\ c \in invoked => delegations[c] > 1
        /\ result[c] = "TOOL_NOT_STARTED" =>
              pc \in {"failed", "done"} /\ stage[c] = "answered" /\ c \notin invoked

ToolInv == OrderInv /\ FlightInv /\ GroupInv /\ OutcomeInv
=============================================================================
