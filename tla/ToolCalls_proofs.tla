-------------------------- MODULE ToolCalls_proofs --------------------------
(***************************************************************************)
(* Proofs about ToolCalls, for every number of calls, every pool size and   *)
(* every number of delegations.                                            *)
(***************************************************************************)
EXTENDS ToolCalls, FiniteSetTheorems, TLAPS

\* A call's own step: it moves that call along the pipeline and leaves the
\* scheduler's state alone.
LEMMA CallStepFrame ==
    ASSUME NEW c \in Call, CallStep(c)
    PROVE  /\ UNCHANGED <<pc, kind, aborted, group, next, committed, sawAbort, inFlight,
                          exclusive>>
           /\ pc \notin {"fill", "done"}
           /\ stage[c] \in {"wrapping", "running", "returned"}
           /\ \E s \in Dispatched \union {"ready", "abandoned"} :
                 /\ stage' = [stage EXCEPT ![c] = s]
                 /\ s = "abandoned" => failure'
           /\ failure' = failure \/ failure' = TRUE
  <1> USE DEF Scheduler, Awaiting, Dispatched
  <1>1. CASE BodyStarts(c)
    BY <1>1 DEF BodyStarts
  <1>2. CASE BodyRefused(c)
    BY <1>2 DEF BodyRefused
  <1>3. CASE WrapperRetries(c)
    BY <1>3 DEF WrapperRetries
  <1>4. ASSUME NEW outcome \in {"ok", "error"}, BodyEnds(c, outcome)
        PROVE  /\ stage[c] = "running" /\ stage' = [stage EXCEPT ![c] = "returned"]
               /\ UNCHANGED <<pc, Scheduler, failure>> /\ Awaiting
    BY <1>4 DEF BodyEnds
  <1>5. ASSUME NEW own \in {None, "ok", "error"}, NEW throws \in BOOLEAN,
               WrapperReturns(c, own, throws)
        PROVE  /\ stage[c] \in {"wrapping", "returned"}
               /\ stage' = [stage EXCEPT ![c] = "ready"]
               /\ UNCHANGED <<pc, Scheduler, failure>> /\ Awaiting
    BY <1>5 DEF WrapperReturns
  <1>6. CASE WrapperCancels(c)
    BY <1>6 DEF WrapperCancels
  <1>7. CASE DispatchRejects(c)
    BY <1>7 DEF DispatchRejects
  <1> QED
    BY <1>1, <1>2, <1>3, <1>4, <1>5, <1>6, <1>7 DEF CallStep

-----------------------------------------------------------------------------
(* What the scheduler's own steps preserve, one lemma per part of the invariant. *)

\* A group with no dispatch under way has committed every call it started.
LEMMA NothingUncommitted ==
    ASSUME TypeOK, OrderInv, FlightInv, pc = "fill", inFlight = {}
    PROVE  committed + 1 = next
  BY CountAssumption DEF TypeOK, OrderInv, FlightInv, Committable, Scheduling, Call

\* The scheduler's map of dispatches is finite, so its size is a number.
LEMMA InFlightFinite ==
    ASSUME TypeOK
    PROVE  IsFiniteSet(inFlight) /\ Cardinality(inFlight) \in Nat
  <1>1. IsFiniteSet(1..Count)
    BY FS_Interval, CountAssumption
  <1>2. IsFiniteSet(inFlight)
    BY <1>1, FS_Subset DEF TypeOK, Call
  <1> QED
    BY <1>2, FS_CardinalityType

LEMMA TypeOKScheduler ==
    ASSUME TypeOK, ToolInv, SchedulerStep
    PROVE  TypeOK'
  <1> USE CountAssumption DEF Call, None, ToolInv
  <1>1. CASE ChooseGroup
    <2>1. kind[next] \in Modes
      BY <1>1 DEF ChooseGroup, TypeOK
    <2>2. sawAbort' \in BOOLEAN /\ failure' \in BOOLEAN
      BY <1>1 DEF ChooseGroup, TypeOK
    <2> QED
      BY <1>1, <2>1, <2>2 DEF ChooseGroup, LastOfGroup, pipeline, TypeOK
  <1>2. CASE AllConsumed
    BY <1>2 DEF AllConsumed, group, pipeline, TypeOK, Stages, Results, OrderInv
  <1>3. CASE StartCall
    BY <1>3 DEF StartCall, CanStart, group, pipeline, TypeOK, Stages, Results,
       OrderInv
  <1>4. CASE StartFails
    BY <1>4 DEF StartFails, Drain, CanStart, group, pipeline, TypeOK, Stages,
       Results, OrderInv
  <1>5. ASSUME NEW outcome \in {None, "error", "ABORTED_BEFORE_DISPATCH"}, NEW needsPost \in BOOLEAN,
               PrepareEnds(outcome, needsPost)
        PROVE  TypeOK'
    BY <1>5 DEF PrepareEnds, AfterPrepare, group, pipeline, TypeOK, Stages, Results,
       OrderInv
  <1>6. CASE CommitFinal
    BY <1>6 DEF CommitFinal, Commits, Committable, group, pipeline, TypeOK, Stages,
       Results, OrderInv
  <1>7. CASE Finalize
    BY <1>7 DEF Finalize, Committable, group, pipeline, TypeOK, Stages, Results,
       OrderInv
  <1>8. CASE Resume
    BY <1>8 DEF Resume, Committable, group, pipeline, TypeOK, Stages, Results,
       OrderInv
  <1>9. CASE Race
    BY <1>9 DEF Race, CanStart, group, pipeline, TypeOK, Stages, Results, OrderInv
  <1>10. CASE GroupEnds
    BY <1>10 DEF GroupEnds, CanStart, group, pipeline, TypeOK, Stages, Results,
       OrderInv
  <1>11. ASSUME NEW blocks \in BOOLEAN,
               FinalizeEnds(blocks)
        PROVE  TypeOK'
    BY <1>11 DEF FinalizeEnds, Settle, Cancelled, Committable, group, pipeline,
       TypeOK, Stages, Results, OrderInv
  <1>12. ASSUME NEW appended \in BOOLEAN,
               CommitFails(appended)
        PROVE  TypeOK'
    BY <1>12 DEF CommitFails, Drain, Committable, group, pipeline, TypeOK, Stages,
       Results, OrderInv
  <1>13. ASSUME NEW c \in Call,
               Raced(c)
        PROVE  TypeOK'
    BY <1>13 DEF Raced, group, pipeline, TypeOK, Stages, Results, OrderInv
  <1>14. ASSUME NEW c \in Call,
               RecoverResult(c)
        PROVE  TypeOK'
    BY <1>14 DEF RecoverResult, group, pipeline, TypeOK, Stages, Results, OrderInv
  <1>15. CASE SkipCall
    BY <1>15 DEF SkipCall, group, pipeline, TypeOK, Stages, Results, OrderInv
  <1>16. ASSUME NEW called \in BOOLEAN,
               SkipFails(called)
        PROVE  TypeOK'
    BY <1>16 DEF SkipFails, Drain, group, pipeline, TypeOK, Stages, Results,
       OrderInv
  <1>17. CASE SkippedAll
    BY <1>17 DEF SkippedAll, group, pipeline, TypeOK, Stages, Results, OrderInv
  <1>18. CASE Drained
    BY <1>18 DEF Drained, StageIn, group, pipeline, TypeOK, Stages, Results,
       OrderInv
  <1>19. CASE Recovered
    BY <1>19 DEF Recovered, StageIn, group, pipeline, TypeOK, Stages, Results,
       OrderInv
  <1> QED
    BY <1>1, <1>2, <1>3, <1>4, <1>5, <1>6, <1>7, <1>8, <1>9, <1>10, <1>11, <1>12, <1>13, <1>14, <1>15, <1>16, <1>17, <1>18, <1>19 DEF SchedulerStep

LEMMA OrderInvScheduler ==
    ASSUME TypeOK, ToolInv, SchedulerStep
    PROVE  OrderInv'
  <1> USE CountAssumption DEF Call, None, ToolInv
  <1>1. CASE ChooseGroup
    BY <1>1 DEF ChooseGroup, LastOfGroup, group, pipeline, TypeOK, Stages,
       Scheduling, Dispatched, Committable, StageIn, OrderInv
  <1>2. CASE AllConsumed
    BY <1>2 DEF AllConsumed, group, pipeline, TypeOK, Stages, Scheduling,
       Dispatched, Committable, StageIn, OrderInv
  <1>3. CASE StartCall
    BY <1>3 DEF StartCall, CanStart, group, pipeline, TypeOK, Stages, Scheduling,
       Dispatched, Committable, StageIn, OrderInv
  <1>4. CASE StartFails
    BY <1>4 DEF StartFails, Drain, CanStart, group, pipeline, TypeOK, Stages,
       Scheduling, Dispatched, Committable, StageIn, OrderInv
  <1>5. ASSUME NEW outcome \in {None, "error", "ABORTED_BEFORE_DISPATCH"}, NEW needsPost \in BOOLEAN,
               PrepareEnds(outcome, needsPost)
        PROVE  OrderInv'
    BY <1>5 DEF PrepareEnds, AfterPrepare, group, pipeline, TypeOK, Stages,
       Scheduling, Dispatched, Committable, StageIn, OrderInv
  <1>6. CASE CommitFinal
    BY <1>6 DEF CommitFinal, Commits, Committable, group, pipeline, TypeOK, Stages,
       Scheduling, Dispatched, Committable, StageIn, OrderInv
  <1>7. CASE Finalize
    BY <1>7 DEF Finalize, Committable, group, pipeline, TypeOK, Stages, Scheduling,
       Dispatched, Committable, StageIn, OrderInv
  <1>8. CASE Resume
    BY <1>8 DEF Resume, Committable, group, pipeline, TypeOK, Stages, Scheduling,
       Dispatched, Committable, StageIn, OrderInv
  <1>9. CASE Race
    BY <1>9 DEF Race, CanStart, group, pipeline, TypeOK, Stages, Scheduling,
       Dispatched, Committable, StageIn, OrderInv
  <1>10. CASE GroupEnds
    <2>1. committed + 1 = next
      BY <1>10, NothingUncommitted DEF GroupEnds
    <2> QED
      BY <1>10, <2>1 DEF GroupEnds, group, TypeOK, Scheduling, Committable, OrderInv
  <1>11. ASSUME NEW blocks \in BOOLEAN,
               FinalizeEnds(blocks)
        PROVE  OrderInv'
    BY <1>11 DEF FinalizeEnds, Settle, Cancelled, Committable, group, pipeline,
       TypeOK, Stages, Scheduling, Dispatched, Committable, StageIn, OrderInv
  <1>12. ASSUME NEW appended \in BOOLEAN,
               CommitFails(appended)
        PROVE  OrderInv'
    BY <1>12 DEF CommitFails, Drain, Committable, group, pipeline, TypeOK, Stages,
       Scheduling, Dispatched, Committable, StageIn, OrderInv
  <1>13. ASSUME NEW c \in Call,
               Raced(c)
        PROVE  OrderInv'
    BY <1>13 DEF Raced, group, pipeline, TypeOK, Stages, Scheduling, Dispatched,
       Committable, StageIn, OrderInv
  <1>14. ASSUME NEW c \in Call,
               RecoverResult(c)
        PROVE  OrderInv'
    BY <1>14 DEF RecoverResult, group, pipeline, TypeOK, Stages, Scheduling,
       Dispatched, Committable, StageIn, OrderInv
  <1>15. CASE SkipCall
    BY <1>15 DEF SkipCall, group, pipeline, TypeOK, Stages, Scheduling, Dispatched,
       Committable, StageIn, OrderInv
  <1>16. ASSUME NEW called \in BOOLEAN,
               SkipFails(called)
        PROVE  OrderInv'
    BY <1>16 DEF SkipFails, Drain, group, pipeline, TypeOK, Stages, Scheduling,
       Dispatched, Committable, StageIn, OrderInv
  <1>17. CASE SkippedAll
    BY <1>17 DEF SkippedAll, group, pipeline, TypeOK, Stages, Scheduling,
       Dispatched, Committable, StageIn, OrderInv
  <1>18. CASE Drained
    BY <1>18 DEF Drained, StageIn, group, pipeline, TypeOK, Stages, Scheduling,
       Dispatched, Committable, StageIn, OrderInv
  <1>19. CASE Recovered
    BY <1>19 DEF Recovered, StageIn, group, pipeline, TypeOK, Stages, Scheduling,
       Dispatched, Committable, StageIn, OrderInv
  <1> QED
    BY <1>1, <1>2, <1>3, <1>4, <1>5, <1>6, <1>7, <1>8, <1>9, <1>10, <1>11, <1>12, <1>13, <1>14, <1>15, <1>16, <1>17, <1>18, <1>19 DEF SchedulerStep

LEMMA FlightInvScheduler ==
    ASSUME TypeOK, ToolInv, SchedulerStep
    PROVE  FlightInv'
  <1> USE CountAssumption DEF Call, None, ToolInv
  <1>1. CASE ChooseGroup
    BY <1>1 DEF ChooseGroup, LastOfGroup, group, pipeline, TypeOK, Stages,
       Scheduling, Dispatched, Active, OrderInv, FlightInv
  <1>2. CASE AllConsumed
    BY <1>2 DEF AllConsumed, group, pipeline, TypeOK, Stages, Scheduling,
       Dispatched, Active, OrderInv, FlightInv
  <1>3. CASE StartCall
    BY <1>3 DEF StartCall, CanStart, group, pipeline, TypeOK, Stages, Scheduling,
       Dispatched, Active, OrderInv, FlightInv
  <1>4. CASE StartFails
    BY <1>4 DEF StartFails, Drain, CanStart, group, pipeline, TypeOK, Stages,
       Scheduling, Dispatched, Active, OrderInv, FlightInv
  <1>5. ASSUME NEW outcome \in {None, "error", "ABORTED_BEFORE_DISPATCH"}, NEW needsPost \in BOOLEAN,
               PrepareEnds(outcome, needsPost)
        PROVE  FlightInv'
    BY <1>5 DEF PrepareEnds, AfterPrepare, group, pipeline, TypeOK, Stages,
       Scheduling, Dispatched, Active, OrderInv, FlightInv
  <1>6. CASE CommitFinal
    BY <1>6 DEF CommitFinal, Commits, Committable, group, pipeline, TypeOK, Stages,
       Scheduling, Dispatched, Active, OrderInv, FlightInv
  <1>7. CASE Finalize
    BY <1>7 DEF Finalize, Committable, group, pipeline, TypeOK, Stages, Scheduling,
       Dispatched, Active, OrderInv, FlightInv
  <1>8. CASE Resume
    BY <1>8 DEF Resume, Committable, group, pipeline, TypeOK, Stages, Scheduling,
       Dispatched, Active, OrderInv, FlightInv
  <1>9. CASE Race
    BY <1>9 DEF Race, CanStart, group, pipeline, TypeOK, Stages, Scheduling,
       Dispatched, Active, OrderInv, FlightInv
  <1>10. CASE GroupEnds
    BY <1>10 DEF GroupEnds, CanStart, group, pipeline, TypeOK, Stages, Scheduling,
       Dispatched, Active, OrderInv, FlightInv
  <1>11. ASSUME NEW blocks \in BOOLEAN,
               FinalizeEnds(blocks)
        PROVE  FlightInv'
    BY <1>11 DEF FinalizeEnds, Settle, Cancelled, Committable, group, pipeline,
       TypeOK, Stages, Scheduling, Dispatched, Active, OrderInv, FlightInv
  <1>12. ASSUME NEW appended \in BOOLEAN,
               CommitFails(appended)
        PROVE  FlightInv'
    BY <1>12 DEF CommitFails, Drain, Committable, group, pipeline, TypeOK, Stages,
       Scheduling, Dispatched, Active, OrderInv, FlightInv
  <1>13. ASSUME NEW c \in Call,
               Raced(c)
        PROVE  FlightInv'
    BY <1>13 DEF Raced, group, pipeline, TypeOK, Stages, Scheduling, Dispatched,
       Active, OrderInv, FlightInv
  <1>14. ASSUME NEW c \in Call,
               RecoverResult(c)
        PROVE  FlightInv'
    BY <1>14 DEF RecoverResult, group, pipeline, TypeOK, Stages, Scheduling,
       Dispatched, Active, OrderInv, FlightInv
  <1>15. CASE SkipCall
    BY <1>15 DEF SkipCall, group, pipeline, TypeOK, Stages, Scheduling, Dispatched,
       Active, OrderInv, FlightInv
  <1>16. ASSUME NEW called \in BOOLEAN,
               SkipFails(called)
        PROVE  FlightInv'
    BY <1>16 DEF SkipFails, Drain, group, pipeline, TypeOK, Stages, Scheduling,
       Dispatched, Active, OrderInv, FlightInv
  <1>17. CASE SkippedAll
    BY <1>17 DEF SkippedAll, group, pipeline, TypeOK, Stages, Scheduling,
       Dispatched, Active, OrderInv, FlightInv
  <1>18. CASE Drained
    BY <1>18 DEF Drained, StageIn, group, pipeline, TypeOK, Stages, Scheduling,
       Dispatched, Active, OrderInv, FlightInv
  <1>19. CASE Recovered
    BY <1>19 DEF Recovered, StageIn, group, pipeline, TypeOK, Stages, Scheduling,
       Dispatched, Active, OrderInv, FlightInv
  <1> QED
    BY <1>1, <1>2, <1>3, <1>4, <1>5, <1>6, <1>7, <1>8, <1>9, <1>10, <1>11, <1>12, <1>13, <1>14, <1>15, <1>16, <1>17, <1>18, <1>19 DEF SchedulerStep

LEMMA OutcomeInvScheduler ==
    ASSUME TypeOK, ToolInv, SchedulerStep
    PROVE  OutcomeInv'
  <1> USE CountAssumption DEF Call, None, ToolInv
  <1>1. CASE ChooseGroup
    BY <1>1 DEF ChooseGroup, LastOfGroup, group, pipeline, TypeOK, Stages,
       Scheduling, Dispatched, OrderInv, OutcomeInv
  <1>2. CASE AllConsumed
    BY <1>2 DEF AllConsumed, group, pipeline, TypeOK, Stages, Scheduling,
       Dispatched, OrderInv, OutcomeInv
  <1>3. CASE StartCall
    BY <1>3 DEF StartCall, CanStart, group, pipeline, TypeOK, Stages, Scheduling,
       Dispatched, OrderInv, OutcomeInv
  <1>4. CASE StartFails
    BY <1>4 DEF StartFails, Drain, CanStart, group, pipeline, TypeOK, Stages,
       Scheduling, Dispatched, OrderInv, OutcomeInv
  <1>5. ASSUME NEW outcome \in {None, "error", "ABORTED_BEFORE_DISPATCH"}, NEW needsPost \in BOOLEAN,
               PrepareEnds(outcome, needsPost)
        PROVE  OutcomeInv'
    BY <1>5 DEF PrepareEnds, AfterPrepare, group, pipeline, TypeOK, Stages,
       Scheduling, Dispatched, OrderInv, OutcomeInv
  <1>6. CASE CommitFinal
    BY <1>6 DEF CommitFinal, Commits, Committable, group, pipeline, TypeOK, Stages,
       Scheduling, Dispatched, OrderInv, OutcomeInv
  <1>7. CASE Finalize
    BY <1>7 DEF Finalize, Committable, group, pipeline, TypeOK, Stages, Scheduling,
       Dispatched, OrderInv, OutcomeInv
  <1>8. CASE Resume
    BY <1>8 DEF Resume, Committable, group, pipeline, TypeOK, Stages, Scheduling,
       Dispatched, OrderInv, OutcomeInv
  <1>9. CASE Race
    BY <1>9 DEF Race, CanStart, group, pipeline, TypeOK, Stages, Scheduling,
       Dispatched, OrderInv, OutcomeInv
  <1>10. CASE GroupEnds
    BY <1>10 DEF GroupEnds, CanStart, group, pipeline, TypeOK, Stages, Scheduling,
       Dispatched, OrderInv, OutcomeInv
  <1>11. ASSUME NEW blocks \in BOOLEAN,
               FinalizeEnds(blocks)
        PROVE  OutcomeInv'
    BY <1>11 DEF FinalizeEnds, Settle, Cancelled, Committable, group, pipeline,
       TypeOK, Stages, Scheduling, Dispatched, OrderInv, OutcomeInv
  <1>12. ASSUME NEW appended \in BOOLEAN,
               CommitFails(appended)
        PROVE  OutcomeInv'
    BY <1>12 DEF CommitFails, Drain, Committable, group, pipeline, TypeOK, Stages,
       Scheduling, Dispatched, OrderInv, OutcomeInv
  <1>13. ASSUME NEW c \in Call,
               Raced(c)
        PROVE  OutcomeInv'
    BY <1>13 DEF Raced, group, pipeline, TypeOK, Stages, Scheduling, Dispatched,
       OrderInv, OutcomeInv
  <1>14. ASSUME NEW c \in Call,
               RecoverResult(c)
        PROVE  OutcomeInv'
    BY <1>14 DEF RecoverResult, group, pipeline, TypeOK, Stages, Scheduling,
       Dispatched, OrderInv, OutcomeInv
  <1>15. CASE SkipCall
    BY <1>15 DEF SkipCall, group, pipeline, TypeOK, Stages, Scheduling, Dispatched,
       OrderInv, OutcomeInv
  <1>16. ASSUME NEW called \in BOOLEAN,
               SkipFails(called)
        PROVE  OutcomeInv'
    BY <1>16 DEF SkipFails, Drain, group, pipeline, TypeOK, Stages, Scheduling,
       Dispatched, OrderInv, OutcomeInv
  <1>17. CASE SkippedAll
    BY <1>17 DEF SkippedAll, group, pipeline, TypeOK, Stages, Scheduling,
       Dispatched, OrderInv, OutcomeInv
  <1>18. CASE Drained
    BY <1>18 DEF Drained, StageIn, group, pipeline, TypeOK, Stages, Scheduling,
       Dispatched, OrderInv, OutcomeInv
  <1>19. CASE Recovered
    BY <1>19 DEF Recovered, StageIn, group, pipeline, TypeOK, Stages, Scheduling,
       Dispatched, OrderInv, OutcomeInv
  <1> QED
    BY <1>1, <1>2, <1>3, <1>4, <1>5, <1>6, <1>7, <1>8, <1>9, <1>10, <1>11, <1>12, <1>13, <1>14, <1>15, <1>16, <1>17, <1>18, <1>19 DEF SchedulerStep

LEMMA GroupInvScheduler ==
    ASSUME TypeOK, ToolInv, SchedulerStep
    PROVE  GroupInv'
  <1> USE CountAssumption DEF Call, None, ToolInv, Scheduling
  <1>1. CASE ChooseGroup
    BY <1>1 DEF ChooseGroup, LastOfGroup, group, pipeline, TypeOK, Modes, InGroup,
       OrderInv, FlightInv, GroupInv
  <1>2. CASE AllConsumed
    BY <1>2 DEF AllConsumed, group, pipeline, TypeOK, Modes, InGroup, OrderInv,
       FlightInv, GroupInv
  <1>3. CASE StartCall
    BY <1>3 DEF StartCall, CanStart, group, pipeline, TypeOK, Modes, InGroup,
       OrderInv, FlightInv, GroupInv
  <1>4. CASE StartFails
    BY <1>4 DEF StartFails, Drain, CanStart, group, pipeline, TypeOK, Modes,
       InGroup, OrderInv, FlightInv, GroupInv
  <1>5. ASSUME NEW outcome \in {None, "error", "ABORTED_BEFORE_DISPATCH"}, NEW needsPost \in BOOLEAN,
               PrepareEnds(outcome, needsPost)
        PROVE  GroupInv'
    <2>1. IsFiniteSet(inFlight) /\ Cardinality(inFlight) \in Nat
      BY InFlightFinite
    <2>2. /\ Cardinality(inFlight) < MaxParallel
          /\ inFlight' = inFlight \/ inFlight' = inFlight \union {next}
      BY <1>5 DEF PrepareEnds, GroupInv
    <2>3. Cardinality(inFlight') <= Cardinality(inFlight) + 1
      BY <2>1, <2>2, FS_AddElement
    <2>4. Cardinality(inFlight') \in Nat
      BY <2>1, <2>2, FS_AddElement
    <2>5. Cardinality(inFlight') <= MaxParallel
      BY <2>1, <2>2, <2>3, <2>4, PoolAssumption
    <2> QED
      BY <1>5, <2>5 DEF PrepareEnds, AfterPrepare, group, TypeOK, InGroup, OrderInv, FlightInv, GroupInv
  <1>6. CASE CommitFinal
    BY <1>6 DEF CommitFinal, Commits, Committable, group, pipeline, TypeOK, Modes,
       InGroup, OrderInv, FlightInv, GroupInv
  <1>7. CASE Finalize
    BY <1>7 DEF Finalize, Committable, group, pipeline, TypeOK, Modes, InGroup,
       OrderInv, FlightInv, GroupInv
  <1>8. CASE Resume
    BY <1>8 DEF Resume, Committable, group, pipeline, TypeOK, Modes, InGroup,
       OrderInv, FlightInv, GroupInv
  <1>9. CASE Race
    <2>1. PICK c \in inFlight : TRUE
      BY <1>9 DEF Race
    <2>2. first <= c /\ c < next /\ c \in Nat /\ first \in Nat /\ next \in Nat
      BY <1>9, <2>1 DEF Race, TypeOK, InGroup, GroupInv
    <2>3. first < next
      BY <2>2
    <2> QED
      BY <1>9, <2>3 DEF Race, group, TypeOK, InGroup, OrderInv, FlightInv, GroupInv
  <1>10. CASE GroupEnds
    BY <1>10 DEF GroupEnds, CanStart, group, pipeline, TypeOK, Modes, InGroup,
       OrderInv, FlightInv, GroupInv
  <1>11. ASSUME NEW blocks \in BOOLEAN,
               FinalizeEnds(blocks)
        PROVE  GroupInv'
    BY <1>11 DEF FinalizeEnds, Settle, Cancelled, Committable, group, pipeline,
       TypeOK, Modes, InGroup, OrderInv, FlightInv, GroupInv
  <1>12. ASSUME NEW appended \in BOOLEAN,
               CommitFails(appended)
        PROVE  GroupInv'
    BY <1>12 DEF CommitFails, Drain, Committable, group, pipeline, TypeOK, Modes,
       InGroup, OrderInv, FlightInv, GroupInv
  <1>13. ASSUME NEW c \in Call,
               Raced(c)
        PROVE  GroupInv'
    <2>1. IsFiniteSet(inFlight) /\ Cardinality(inFlight) \in Nat
      BY InFlightFinite
    <2>2. Cardinality(inFlight') <= MaxParallel
      <3>1. c \in inFlight /\ inFlight' = inFlight \ {c}
        BY <1>13 DEF Raced
      <3>2. Cardinality(inFlight \ {c}) = Cardinality(inFlight) - 1
        BY <2>1, <3>1, FS_RemoveElement
      <3>3. Cardinality(inFlight) <= MaxParallel
        BY DEF GroupInv
      <3> QED
        BY <2>1, <3>1, <3>2, <3>3, PoolAssumption
    <2> QED
      BY <1>13, <2>2 DEF Raced, group, TypeOK, InGroup, OrderInv, FlightInv, GroupInv
  <1>14. ASSUME NEW c \in Call,
               RecoverResult(c)
        PROVE  GroupInv'
    BY <1>14 DEF RecoverResult, group, pipeline, TypeOK, Modes, InGroup, OrderInv,
       FlightInv, GroupInv
  <1>15. CASE SkipCall
    BY <1>15 DEF SkipCall, group, pipeline, TypeOK, Modes, InGroup, OrderInv,
       FlightInv, GroupInv
  <1>16. ASSUME NEW called \in BOOLEAN,
               SkipFails(called)
        PROVE  GroupInv'
    BY <1>16 DEF SkipFails, Drain, group, pipeline, TypeOK, Modes, InGroup,
       OrderInv, FlightInv, GroupInv
  <1>17. CASE SkippedAll
    BY <1>17 DEF SkippedAll, group, pipeline, TypeOK, Modes, InGroup, OrderInv,
       FlightInv, GroupInv
  <1>18. CASE Drained
    <2>1. pc' = "failed" /\ inFlight' = {} /\ UNCHANGED <<stage, exclusive>>
      BY <1>18 DEF Drained
    <2>2. Cardinality(inFlight') <= MaxParallel
      BY <2>1, FS_EmptySet, PoolAssumption
    <2> QED
      BY <2>1, <2>2 DEF GroupInv, InGroup
  <1>19. CASE Recovered
    BY <1>19 DEF Recovered, StageIn, group, pipeline, TypeOK, Modes, InGroup,
       OrderInv, FlightInv, GroupInv
  <1> QED
    BY <1>1, <1>2, <1>3, <1>4, <1>5, <1>6, <1>7, <1>8, <1>9, <1>10, <1>11, <1>12, <1>13, <1>14, <1>15, <1>16, <1>17, <1>18, <1>19 DEF SchedulerStep

-----------------------------------------------------------------------------
(* What a call's own steps preserve. *)

LEMMA TypeOKCall ==
    ASSUME TypeOK, NEW c \in Call, CallStep(c)
    PROVE  TypeOK'
  <1> USE DEF TypeOK, Scheduler, group, pipeline, Stages, Results, None
  <1>1. CASE BodyStarts(c)
    BY <1>1 DEF BodyStarts
  <1>2. CASE BodyRefused(c)
    BY <1>2 DEF BodyRefused
  <1>3. CASE WrapperRetries(c)
    BY <1>3 DEF WrapperRetries
  <1>4. ASSUME NEW outcome \in {"ok", "error"}, BodyEnds(c, outcome)
        PROVE  TypeOK'
    BY <1>4 DEF BodyEnds
  <1>5. ASSUME NEW own \in {None, "ok", "error"}, NEW throws \in BOOLEAN,
               WrapperReturns(c, own, throws)
        PROVE  TypeOK'
    BY <1>5 DEF WrapperReturns, Settle, Cancelled
  <1>6. CASE WrapperCancels(c)
    BY <1>6 DEF WrapperCancels
  <1>7. CASE DispatchRejects(c)
    BY <1>7 DEF DispatchRejects
  <1> QED
    BY <1>1, <1>2, <1>3, <1>4, <1>5, <1>6, <1>7 DEF CallStep

LEMMA OutcomeInvCall ==
    ASSUME TypeOK, ToolInv, NEW c \in Call, CallStep(c)
    PROVE  OutcomeInv'
  <1> USE DEF TypeOK, ToolInv, OutcomeInv, Scheduler, pipeline, None
  <1>1. CASE BodyStarts(c)
    BY <1>1 DEF BodyStarts
  <1>2. CASE BodyRefused(c)
    BY <1>2 DEF BodyRefused
  <1>3. CASE WrapperRetries(c)
    BY <1>3 DEF WrapperRetries
  <1>4. ASSUME NEW outcome \in {"ok", "error"}, BodyEnds(c, outcome)
        PROVE  OutcomeInv'
    BY <1>4 DEF BodyEnds
  <1>5. ASSUME NEW own \in {None, "ok", "error"}, NEW throws \in BOOLEAN,
               WrapperReturns(c, own, throws)
        PROVE  OutcomeInv'
    BY <1>5 DEF WrapperReturns, Settle, Cancelled
  <1>6. CASE WrapperCancels(c)
    BY <1>6 DEF WrapperCancels
  <1>7. CASE DispatchRejects(c)
    BY <1>7 DEF DispatchRejects
  <1> QED
    BY <1>1, <1>2, <1>3, <1>4, <1>5, <1>6, <1>7 DEF CallStep

LEMMA ScheduleCall ==
    ASSUME TypeOK, ToolInv, NEW c \in Call, CallStep(c)
    PROVE  OrderInv' /\ FlightInv' /\ GroupInv'
  <1>1. PICK s \in Dispatched \union {"ready", "abandoned"} :
           /\ stage' = [stage EXCEPT ![c] = s]
           /\ s = "abandoned" => failure'
    BY CallStepFrame
  <1>2. /\ UNCHANGED <<pc, kind, aborted, group, next, committed, sawAbort, inFlight,
                       exclusive>>
        /\ pc \notin {"fill", "done"}
        /\ stage[c] \in {"wrapping", "running", "returned"}
        /\ failure' = failure \/ failure' = TRUE
    BY CallStepFrame
  <1> USE CountAssumption, <1>1, <1>2 DEF TypeOK, ToolInv, Dispatched, Active, Call
  <1>3. c \in inFlight /\ pc \notin {"choose", "skipping", "failed"}
    BY DEF FlightInv
  <1>4. OrderInv'
    <2>1. s \notin {"planned", "preparing", "answered"}
      OBVIOUS
    <2>2. \A d \in Call : d # c => stage'[d] = stage[d]
      OBVIOUS
    <2>3. stage'[c] = s
      OBVIOUS
    <2>4. pc' = pc /\ next' = next /\ committed' = committed
      OBVIOUS
    <2>5. ASSUME pc \in Scheduling
          PROVE  /\ committed < next
                 /\ \A d \in Call :
                       /\ d <= committed <=> stage'[d] = "answered"
                       /\ committed < d /\ d < next =>
                             stage'[d] \in Dispatched \union {"ready", "abandoned"}
                       /\ d = next =>
                             stage'[d] = IF pc = "preparing" THEN "preparing" ELSE "planned"
                       /\ d > next => stage'[d] = "planned"
      BY <2>1, <2>2, <2>3, <2>5 DEF OrderInv
    <2>6. pc = "finalizing" => Committable'
      BY <2>2, <2>3, <2>4 DEF OrderInv, Committable
    <2> QED
      BY <1>3, <2>4, <2>5, <2>6 DEF OrderInv
  <1>5. FlightInv'
    BY <1>3 DEF FlightInv
  <1>6. GroupInv'
    BY <1>3 DEF GroupInv, InGroup, group
  <1> QED
    BY <1>4, <1>5, <1>6

-----------------------------------------------------------------------------
(* The invariant. *)

LEMMA InvariantInit == Init => TypeOK /\ ToolInv
  <1> SUFFICES ASSUME Init PROVE TypeOK /\ ToolInv
    OBVIOUS
  <1> USE CountAssumption, PoolAssumption DEF Init, None, Call
  <1>1. TypeOK
    <2>1. aborted \in BOOLEAN /\ sawAbort \in BOOLEAN /\ failure \in BOOLEAN
      OBVIOUS
    <2>2. kind \in [Call -> Modes]
      OBVIOUS
    <2> QED
      BY <2>1, <2>2 DEF TypeOK, Stages, Results, Modes
  <1>2. Cardinality(inFlight) = 0
    BY FS_EmptySet
  <1>3. OrderInv /\ FlightInv
    BY DEF OrderInv, FlightInv, Scheduling, Dispatched, Active, Committable
  <1>4. GroupInv /\ OutcomeInv
    BY <1>2 DEF GroupInv, OutcomeInv, InGroup
  <1> QED
    BY <1>1, <1>3, <1>4 DEF ToolInv

LEMMA InvariantNext == TypeOK /\ ToolInv /\ [Next]_vars => TypeOK' /\ ToolInv'
  <1> SUFFICES ASSUME TypeOK, ToolInv, [Next]_vars
               PROVE  TypeOK' /\ ToolInv'
    OBVIOUS
  <1>1. CASE SchedulerStep
    BY <1>1, TypeOKScheduler, OrderInvScheduler, FlightInvScheduler, GroupInvScheduler,
       OutcomeInvScheduler DEF ToolInv
  <1>2. ASSUME NEW c \in Call, CallStep(c)
        PROVE  TypeOK' /\ ToolInv'
    BY <1>2, TypeOKCall, ScheduleCall, OutcomeInvCall DEF ToolInv
  <1> USE DEF TypeOK, ToolInv, group, pipeline
  <1>3. ASSUME NEW c \in Call, Reclassify(c)
        PROVE  TypeOK' /\ ToolInv'
    <2> USE <1>3 DEF Reclassify, Awaiting
    <2>1. TypeOK'
      OBVIOUS
    <2>2. OrderInv' /\ FlightInv' /\ OutcomeInv'
      BY DEF OrderInv, FlightInv, OutcomeInv, Committable, StageIn
    <2>3. GroupInv'
      BY DEF GroupInv
    <2> QED
      BY <2>1, <2>2, <2>3
  <1>4. CASE Abort
    BY <1>4 DEF Abort, OrderInv, FlightInv, GroupInv, OutcomeInv, Committable, StageIn
  <1>5. CASE UNCHANGED vars
    BY <1>5 DEF vars, OrderInv, FlightInv, GroupInv, OutcomeInv, Committable, StageIn
  <1> QED
    BY <1>1, <1>2, <1>3, <1>4, <1>5 DEF Next, Finished

\* However calls settle, fail or are cancelled, the bookkeeping of the group
\* loop agrees with where every call is.
THEOREM ToolInvariant == Spec => [](TypeOK /\ ToolInv)
  BY InvariantInit, InvariantNext, PTL DEF Spec

-----------------------------------------------------------------------------
(* What the invariant gives. *)

\* A call under way is one of the group's: dispatched, or the one being prepared.
LEMMA ActiveInGroup ==
    ASSUME TypeOK, ToolInv, NEW c \in Call, stage[c] \in Active
    PROVE  /\ c \in inFlight \/ (pc = "preparing" /\ c = next)
           /\ pc \in InGroup
           /\ first <= c
           /\ mode = "exclusive" => c = first
  <1> USE CountAssumption DEF Call, TypeOK, ToolInv, Active, Dispatched
  <1>1. c \in inFlight \/ (pc = "preparing" /\ c = next)
    BY DEF FlightInv
  <1>2. pc \in InGroup
    BY <1>1 DEF FlightInv, InGroup
  <1>3. first <= c /\ (mode = "exclusive" => c = first)
    BY <1>1, <1>2 DEF GroupInv
  <1> QED
    BY <1>1, <1>2, <1>3

LEMMA PoolBound ==
    ASSUME TypeOK, ToolInv
    PROVE  PoolBounded
  <1>1. IsFiniteSet(inFlight) /\ Cardinality(inFlight) \in Nat
    BY InFlightFinite
  <1>2. PICK pool \in {inFlight, inFlight \union {next}} :
           /\ StageIn(Active) \subseteq pool
           /\ IsFiniteSet(pool) /\ Cardinality(pool) \in Nat
           /\ Cardinality(pool) <= MaxParallel
    <2>1. CASE pc = "preparing"
      <3>1. Cardinality(inFlight) < MaxParallel
        BY <2>1 DEF ToolInv, GroupInv
      <3>2. /\ IsFiniteSet(inFlight \union {next})
            /\ Cardinality(inFlight \union {next}) \in Nat
            /\ Cardinality(inFlight \union {next}) <= Cardinality(inFlight) + 1
        BY <1>1, FS_AddElement
      <3>3. Cardinality(inFlight \union {next}) <= MaxParallel
        BY <1>1, <3>1, <3>2, PoolAssumption
      <3> QED
        BY <3>2, <3>3, ActiveInGroup DEF StageIn
    <2>2. CASE pc # "preparing"
      <3>1. Cardinality(inFlight) <= MaxParallel
        BY DEF ToolInv, GroupInv
      <3> QED
        BY <1>1, <2>2, <3>1, ActiveInGroup DEF StageIn
    <2> QED
      BY <2>1, <2>2
  <1>3. Cardinality(StageIn(Active)) <= Cardinality(pool)
    BY <1>2, FS_Subset
  <1>4. Cardinality(StageIn(Active)) \in Nat
    BY <1>2, FS_Subset, FS_CardinalityType
  <1>5. Cardinality(StageIn(Active)) <= MaxParallel
    BY <1>2, <1>3, <1>4, PoolAssumption
  <1>6. ASSUME NEW c \in exclusive, stage[c] \in Active
        PROVE  StageIn(Active) = {c}
    <2>1. c \in Call
      BY <1>6 DEF TypeOK
    <2>2. mode = "exclusive" /\ c = first
      BY <1>6, <2>1, ActiveInGroup DEF ToolInv, GroupInv
    <2> QED
      BY <1>6, <2>1, <2>2, ActiveInGroup DEF StageIn
  <1> QED
    BY <1>5, <1>6 DEF PoolBounded

\* At most maxParallelToolCalls calls are under way, and one that started as a
\* barrier never overlaps another.
THEOREM PoolNeverExceeded == Spec => []PoolBounded
  BY ToolInvariant, PoolBound, PTL

\* A group ends with every call it started committed.
THEOREM NothingStartedIsLost == Spec => []GroupCommitsWhatItStarted
  <1>1. TypeOK /\ ToolInv => GroupCommitsWhatItStarted
    <2> SUFFICES ASSUME TypeOK, ToolInv, pc = "fill", inFlight = {}
                 PROVE  committed = next - 1
      BY DEF GroupCommitsWhatItStarted
    <2>1. committed + 1 = next
      BY NothingUncommitted DEF ToolInv
    <2> QED
      BY <2>1, CountAssumption DEF TypeOK
  <1> QED
    BY <1>1, ToolInvariant, PTL

\* Between groups and once the step reports, no tool work is under way.
THEOREM WorkIsDrained == Spec => []BodiesDrained
  <1>1. TypeOK /\ ToolInv => BodiesDrained
    BY ActiveInGroup DEF BodiesDrained, StageIn, InGroup, ToolInv, FlightInv, Active, Dispatched
  <1> QED
    BY <1>1, ToolInvariant, PTL

\* A recorded outcome is right about whether the body was entered, but for the
\* cancelled delegation of a wrapper that had delegated before.
THEOREM OutcomesAreHonest == Spec => []OutcomeTellsWhatRan
  <1>1. TypeOK /\ ToolInv => OutcomeTellsWhatRan
    BY DEF OutcomeTellsWhatRan, StageIn, ToolInv, OutcomeInv
  <1> QED
    BY <1>1, ToolInvariant, PTL

-----------------------------------------------------------------------------
(* Cancellation. *)

\* The pool is refilled only with the abort sampled at that await.
AbortSampled == pc = "fill" /\ aborted => sawAbort

LEMMA SampledScheduler ==
    ASSUME AbortSampled, SchedulerStep
    PROVE  AbortSampled'
  <1> USE DEF AbortSampled
  <1>1. CASE ChooseGroup
    BY <1>1 DEF ChooseGroup, LastOfGroup
  <1>2. CASE AllConsumed
    BY <1>2 DEF AllConsumed
  <1>3. CASE StartCall
    BY <1>3 DEF StartCall, CanStart
  <1>4. CASE StartFails
    BY <1>4 DEF StartFails, Drain, CanStart
  <1>5. ASSUME NEW outcome \in {None, "error", "ABORTED_BEFORE_DISPATCH"}, NEW needsPost \in BOOLEAN,
             PrepareEnds(outcome, needsPost)
      PROVE  AbortSampled'
    BY <1>5 DEF PrepareEnds, AfterPrepare
  <1>6. CASE CommitFinal
    BY <1>6 DEF CommitFinal, Commits, Committable
  <1>7. CASE Finalize
    BY <1>7 DEF Finalize, Committable
  <1>8. CASE Resume
    BY <1>8 DEF Resume, Committable
  <1>9. CASE Race
    BY <1>9 DEF Race, CanStart
  <1>10. CASE GroupEnds
    BY <1>10 DEF GroupEnds, CanStart
  <1>11. ASSUME NEW blocks \in BOOLEAN,
             FinalizeEnds(blocks)
      PROVE  AbortSampled'
    BY <1>11 DEF FinalizeEnds, Settle, Cancelled, Committable
  <1>12. ASSUME NEW appended \in BOOLEAN,
             CommitFails(appended)
      PROVE  AbortSampled'
    BY <1>12 DEF CommitFails, Drain, Committable
  <1>13. ASSUME NEW c \in Call,
             Raced(c)
      PROVE  AbortSampled'
    BY <1>13 DEF Raced
  <1>14. ASSUME NEW c \in Call,
             RecoverResult(c)
      PROVE  AbortSampled'
    BY <1>14 DEF RecoverResult
  <1>15. CASE SkipCall
    BY <1>15 DEF SkipCall
  <1>16. ASSUME NEW called \in BOOLEAN,
             SkipFails(called)
      PROVE  AbortSampled'
    BY <1>16 DEF SkipFails, Drain
  <1>17. CASE SkippedAll
    BY <1>17 DEF SkippedAll
  <1>18. CASE Drained
    BY <1>18 DEF Drained, StageIn
  <1>19. CASE Recovered
    BY <1>19 DEF Recovered, StageIn
  <1> QED
    BY <1>1, <1>2, <1>3, <1>4, <1>5, <1>6, <1>7, <1>8, <1>9, <1>10, <1>11, <1>12,
       <1>13, <1>14, <1>15, <1>16, <1>17, <1>18, <1>19 DEF SchedulerStep

LEMMA SampledNext == AbortSampled /\ [Next]_vars => AbortSampled'
  <1> SUFFICES ASSUME AbortSampled, [Next]_vars PROVE AbortSampled'
    OBVIOUS
  <1>1. CASE SchedulerStep
    BY <1>1, SampledScheduler
  <1>2. ASSUME NEW c \in Call, CallStep(c)
        PROVE  AbortSampled'
    BY <1>2, CallStepFrame DEF AbortSampled
  <1>3. ASSUME NEW c \in Call, Reclassify(c)
        PROVE  AbortSampled'
    BY <1>3 DEF Reclassify, AbortSampled
  <1>4. CASE Abort
    BY <1>4 DEF Abort, Awaiting, AbortSampled
  <1>5. CASE UNCHANGED vars
    BY <1>5 DEF vars, AbortSampled
  <1> QED
    BY <1>1, <1>2, <1>3, <1>4, <1>5 DEF Next, Finished





\* Once aborted, no call starts and no body is entered.
AbortObeyed ==
    \A c \in Call :
        /\ stage[c] = "planned" => stage'[c] # "preparing"
        /\ stage[c] # "running" => stage'[c] # "running"

LEMMA ObeyedScheduler ==
    ASSUME TypeOK, AbortSampled, aborted, SchedulerStep
    PROVE  AbortObeyed
  <1> USE DEF AbortObeyed, TypeOK
  <1>1. CASE ChooseGroup
    BY <1>1 DEF ChooseGroup, LastOfGroup
  <1>2. CASE AllConsumed
    BY <1>2 DEF AllConsumed
  <1>3. CASE StartCall
    BY <1>3 DEF StartCall, CanStart, AbortSampled
  <1>4. CASE StartFails
    BY <1>4 DEF StartFails, Drain, CanStart
  <1>5. ASSUME NEW outcome \in {None, "error", "ABORTED_BEFORE_DISPATCH"}, NEW needsPost \in BOOLEAN,
             PrepareEnds(outcome, needsPost)
      PROVE  AbortObeyed
    BY <1>5 DEF PrepareEnds, AfterPrepare
  <1>6. CASE CommitFinal
    BY <1>6 DEF CommitFinal, Commits, Committable
  <1>7. CASE Finalize
    BY <1>7 DEF Finalize, Committable
  <1>8. CASE Resume
    BY <1>8 DEF Resume, Committable
  <1>9. CASE Race
    BY <1>9 DEF Race, CanStart
  <1>10. CASE GroupEnds
    BY <1>10 DEF GroupEnds, CanStart
  <1>11. ASSUME NEW blocks \in BOOLEAN,
             FinalizeEnds(blocks)
      PROVE  AbortObeyed
    BY <1>11 DEF FinalizeEnds, Settle, Cancelled, Committable
  <1>12. ASSUME NEW appended \in BOOLEAN,
             CommitFails(appended)
      PROVE  AbortObeyed
    BY <1>12 DEF CommitFails, Drain, Committable
  <1>13. ASSUME NEW c \in Call,
             Raced(c)
      PROVE  AbortObeyed
    BY <1>13 DEF Raced
  <1>14. ASSUME NEW c \in Call,
             RecoverResult(c)
      PROVE  AbortObeyed
    BY <1>14 DEF RecoverResult
  <1>15. CASE SkipCall
    BY <1>15 DEF SkipCall
  <1>16. ASSUME NEW called \in BOOLEAN,
             SkipFails(called)
      PROVE  AbortObeyed
    BY <1>16 DEF SkipFails, Drain
  <1>17. CASE SkippedAll
    BY <1>17 DEF SkippedAll
  <1>18. CASE Drained
    BY <1>18 DEF Drained, StageIn
  <1>19. CASE Recovered
    BY <1>19 DEF Recovered, StageIn
  <1> QED
    BY <1>1, <1>2, <1>3, <1>4, <1>5, <1>6, <1>7, <1>8, <1>9, <1>10, <1>11, <1>12,
       <1>13, <1>14, <1>15, <1>16, <1>17, <1>18, <1>19 DEF SchedulerStep

LEMMA ObeyedCall ==
    ASSUME TypeOK, aborted, NEW d \in Call, CallStep(d)
    PROVE  AbortObeyed
  <1> USE DEF AbortObeyed, TypeOK
  <1>1. CASE BodyStarts(d)
    BY <1>1 DEF BodyStarts
  <1>2. CASE BodyRefused(d)
    BY <1>2 DEF BodyRefused
  <1>3. CASE WrapperRetries(d)
    BY <1>3 DEF WrapperRetries
  <1>4. ASSUME NEW outcome \in {"ok", "error"}, BodyEnds(d, outcome)
        PROVE  AbortObeyed
    BY <1>4 DEF BodyEnds
  <1>5. ASSUME NEW own \in {None, "ok", "error"}, NEW throws \in BOOLEAN,
               WrapperReturns(d, own, throws)
        PROVE  AbortObeyed
    BY <1>5 DEF WrapperReturns
  <1>6. CASE WrapperCancels(d)
    BY <1>6 DEF WrapperCancels
  <1>7. CASE DispatchRejects(d)
    BY <1>7 DEF DispatchRejects
  <1> QED
    BY <1>1, <1>2, <1>3, <1>4, <1>5, <1>6, <1>7 DEF CallStep

\* An aborted turn starts no call and enters no tool body, however far the
\* policy or the wrappers of a call had got when the abort arrived.
THEOREM AbortedTurnsStartNothing == Spec => AbortStopsTools
  <1>1. Init => AbortSampled
    BY DEF Init, AbortSampled
  <1>2. TypeOK /\ AbortSampled /\ [Next]_vars =>
           [aborted => \A c \in Call :
               /\ stage[c] = "planned" => stage'[c] # "preparing"
               /\ stage[c] # "running" => stage'[c] # "running"]_vars
    <2> SUFFICES ASSUME TypeOK, AbortSampled, Next, aborted
                 PROVE  AbortObeyed \/ UNCHANGED vars
      BY DEF AbortObeyed
    <2>1. ASSUME NEW d \in Call, Reclassify(d)
          PROVE  AbortObeyed
      BY <2>1 DEF Reclassify, AbortObeyed
    <2> QED
      BY <2>1, ObeyedScheduler, ObeyedCall DEF Next, Abort, Finished
  <1> QED
    BY <1>1, <1>2, SampledNext, ToolInvariant, PTL DEF Spec, AbortStopsTools

-----------------------------------------------------------------------------
(* The scheduler implements ToolAnswers. *)

\* While the step schedules, the calls before next are exactly those recorded,
\* and the committed ones exactly those answered.
LEMMA LogView ==
    ASSUME TypeOK, ToolInv, pc \in Scheduling
    PROVE  /\ ~Closing
           /\ \A c \in Call : c < next \/ (pc = "preparing" /\ c = next) <=> c \in Called
           /\ pc # "preparing" /\ next \in Call => Answers!InOrder(next, Called)
           /\ committed + 1 \in Call => Answers!InOrder(committed + 1, Answered)
  <1> USE CountAssumption DEF TypeOK, ToolInv, Call
  <1>1. \A c \in Call : result[c] # "TOOL_NOT_STARTED"
    BY DEF OutcomeInv, Scheduling
  <1>2. \A c \in Call : c < next \/ (pc = "preparing" /\ c = next) <=> stage[c] # "planned"
    BY DEF OrderInv, Dispatched
  <1>3. \A c \in Call : c <= committed <=> stage[c] = "answered"
    BY DEF OrderInv
  <1>4. /\ \A c \in Call : c < next \/ (pc = "preparing" /\ c = next) <=> c \in Called
        /\ \A c \in Call : c <= committed <=> c \in Answered
    BY <1>1, <1>2, <1>3 DEF Called, Answered, StageIn
  <1>5. ASSUME pc # "preparing", next \in Call
        PROVE  next \notin Called /\ 1..(next - 1) \subseteq Called
    BY <1>4, <1>5
  <1>6. ASSUME committed + 1 \in Call
        PROVE  committed + 1 \notin Answered /\ 1..((committed + 1) - 1) \subseteq Answered
    BY <1>4, <1>6
  <1>7. ~Closing
    BY DEF Closing, Scheduling
  <1> QED
    BY <1>4, <1>5, <1>6, <1>7 DEF Answers!InOrder

Moves == Answers!AnswersNext \/ UNCHANGED Answers!answers

LEMMA Stutters ==
    ASSUME UNCHANGED <<Called, Answered, Closing>>
    PROVE  Moves
  BY DEF Moves, Answers!answers

LEMMA MovesScheduler ==
    ASSUME TypeOK, ToolInv, SchedulerStep
    PROVE  Moves
  <1> USE CountAssumption, Stutters DEF TypeOK, ToolInv, Call, None
  <1>1. CASE ChooseGroup
    BY <1>1 DEF ChooseGroup, LastOfGroup, Called, Answered, Closing, StageIn,
       OrderInv, FlightInv, OutcomeInv
  <1>2. CASE AllConsumed
    BY <1>2 DEF AllConsumed, Called, Answered, Closing, StageIn, OrderInv,
       FlightInv, OutcomeInv
  <1>3. CASE StartCall
    <2>1. /\ pc \in Scheduling /\ next \in Call /\ pc # "preparing" /\ stage[next] = "planned"
          /\ stage' = [stage EXCEPT ![next] = "preparing"]
      BY <1>3 DEF StartCall, CanStart, Scheduling, OrderInv
    <2>2. \A d \in Call : result[d] # "TOOL_NOT_STARTED" /\ result'[d] # "TOOL_NOT_STARTED"
      BY <1>3, <2>1 DEF StartCall, CanStart, OutcomeInv, Scheduling
    <2>3. Called' = Called \union {next}
      BY <2>1, <2>2 DEF Called
    <2>4. Answered' = Answered
      BY <2>1 DEF Answered, StageIn
    <2>5. ~Closing /\ Closing' = Closing
      BY <1>3, <2>1 DEF StartCall, CanStart, Closing, Scheduling
    <2>6. Answers!InOrder(next, Called)
      BY <2>1, LogView
    <2>8. Answers!Record(next)
      BY <2>3, <2>4, <2>5, <2>6 DEF Answers!Record
    <2> QED
      BY <2>1, <2>8 DEF Moves, Answers!AnswersNext, Answers!Call
  <1>4. CASE StartFails
    <2>1. pc = "preparing" => stage[next] = "preparing"
      BY <1>4 DEF StartFails, OrderInv, Scheduling
    <2>2. Called' = Called
      BY <1>4, <2>1 DEF StartFails, Called
    <2>3. Answered' = Answered
      BY <1>4, <2>1 DEF StartFails, Answered, StageIn
    <2> QED
      BY <1>4, <2>2, <2>3 DEF StartFails, Drain, Closing
  <1>5. ASSUME NEW outcome \in {None, "error", "ABORTED_BEFORE_DISPATCH"}, NEW needsPost \in BOOLEAN,
             PrepareEnds(outcome, needsPost)
      PROVE  Moves
    <2>1. stage[next] = "preparing" /\ next \in Call /\ result[next] # "TOOL_NOT_STARTED"
      BY <1>5 DEF PrepareEnds, OrderInv, OutcomeInv, Scheduling
    <2>2. Called' = Called
      BY <1>5, <2>1 DEF PrepareEnds, Called
    <2>3. Answered' = Answered
      BY <1>5, <2>1 DEF PrepareEnds, Answered, StageIn
    <2> QED
      BY <1>5, <2>2, <2>3 DEF PrepareEnds, AfterPrepare, Closing
  <1>6. CASE CommitFinal
    <2>1. /\ pc \in Scheduling /\ committed + 1 \in Call /\ committed + 1 < next
          /\ stage[committed + 1] = "ready" /\ pc # "preparing"
      BY <1>6 DEF CommitFinal, Commits, group, pipeline, Committable, Scheduling, OrderInv
    <2>2. stage' = [stage EXCEPT ![committed + 1] = "answered"]
      BY <1>6 DEF CommitFinal, Commits, group, pipeline
    <2>3. \A d \in Call : result[d] # "TOOL_NOT_STARTED" /\ result'[d] # "TOOL_NOT_STARTED"
      BY <1>6, <2>1 DEF CommitFinal, Commits, group, pipeline, OutcomeInv, Scheduling
    <2>4. Called' = Called
      BY <2>1, <2>2, <2>3 DEF Called
    <2>5. Answered' = Answered \union {committed + 1}
      BY <2>1, <2>2 DEF Answered, StageIn
    <2>6. ~Closing /\ Closing' = Closing
      BY <1>6, <2>1 DEF CommitFinal, Commits, group, pipeline, Closing, Scheduling
    <2>7. committed + 1 \in Called /\ Answers!InOrder(committed + 1, Answered)
      BY <2>1, LogView
    <2>8. Answers!Answer(committed + 1)
      BY <2>4, <2>5, <2>6, <2>7 DEF Answers!Answer
    <2> QED
      BY <2>1, <2>8 DEF Moves, Answers!AnswersNext, Answers!Call
  <1>7. CASE Finalize
    BY <1>7 DEF Finalize, Committable, Called, Answered, Closing, StageIn, OrderInv,
       FlightInv, OutcomeInv
  <1>8. CASE Resume
    BY <1>8 DEF Resume, Committable, Called, Answered, Closing, StageIn, OrderInv,
       FlightInv, OutcomeInv
  <1>9. CASE Race
    BY <1>9 DEF Race, CanStart, Called, Answered, Closing, StageIn, OrderInv,
       FlightInv, OutcomeInv
  <1>10. CASE GroupEnds
    BY <1>10 DEF GroupEnds, CanStart, Called, Answered, Closing, StageIn, OrderInv,
       FlightInv, OutcomeInv
  <1>11. ASSUME NEW blocks \in BOOLEAN,
             FinalizeEnds(blocks)
      PROVE  Moves
    <2>1. /\ pc \in Scheduling /\ committed + 1 \in Call /\ committed + 1 < next
          /\ stage[committed + 1] = "ready" /\ pc # "preparing"
      BY <1>11 DEF FinalizeEnds, Settle, Cancelled, Committable, Scheduling, OrderInv
    <2>2. stage' = [stage EXCEPT ![committed + 1] = "answered"]
      BY <1>11 DEF FinalizeEnds, Settle, Cancelled
    <2>3. \A d \in Call : result[d] # "TOOL_NOT_STARTED" /\ result'[d] # "TOOL_NOT_STARTED"
      BY <1>11, <2>1 DEF FinalizeEnds, Settle, Cancelled, OutcomeInv, Scheduling
    <2>4. Called' = Called
      BY <2>1, <2>2, <2>3 DEF Called
    <2>5. Answered' = Answered \union {committed + 1}
      BY <2>1, <2>2 DEF Answered, StageIn
    <2>6. ~Closing /\ Closing' = Closing
      BY <1>11, <2>1 DEF FinalizeEnds, Settle, Cancelled, Closing, Scheduling
    <2>7. committed + 1 \in Called /\ Answers!InOrder(committed + 1, Answered)
      BY <2>1, LogView
    <2>8. Answers!Answer(committed + 1)
      BY <2>4, <2>5, <2>6, <2>7 DEF Answers!Answer
    <2> QED
      BY <2>1, <2>8 DEF Moves, Answers!AnswersNext, Answers!Call
  <1>12. ASSUME NEW appended \in BOOLEAN,
             CommitFails(appended)
      PROVE  Moves
    <2> SUFFICES ASSUME appended PROVE Moves
      BY <1>12 DEF CommitFails, Drain, Called, Answered, Closing, StageIn
    <2>1. /\ pc \in Scheduling /\ committed + 1 \in Call /\ committed + 1 < next
          /\ stage[committed + 1] = "ready" /\ pc # "preparing"
      BY <1>12 DEF CommitFails, Drain, Committable, Scheduling, OrderInv
    <2>2. stage' = [stage EXCEPT ![committed + 1] = "answered"]
      BY <1>12 DEF CommitFails, Drain
    <2>3. \A d \in Call : result[d] # "TOOL_NOT_STARTED" /\ result'[d] # "TOOL_NOT_STARTED"
      BY <1>12, <2>1 DEF CommitFails, Drain, OutcomeInv, Scheduling
    <2>4. Called' = Called
      BY <2>1, <2>2, <2>3 DEF Called
    <2>5. Answered' = Answered \union {committed + 1}
      BY <2>1, <2>2 DEF Answered, StageIn
    <2>6. ~Closing /\ Closing' = Closing
      BY <1>12, <2>1 DEF CommitFails, Drain, Closing, Scheduling
    <2>7. committed + 1 \in Called /\ Answers!InOrder(committed + 1, Answered)
      BY <2>1, LogView
    <2>8. Answers!Answer(committed + 1)
      BY <2>4, <2>5, <2>6, <2>7 DEF Answers!Answer
    <2> QED
      BY <2>1, <2>8 DEF Moves, Answers!AnswersNext, Answers!Call
  <1>13. ASSUME NEW c \in Call,
             Raced(c)
      PROVE  Moves
    BY <1>13 DEF Raced, Called, Answered, Closing, StageIn, OrderInv, FlightInv,
       OutcomeInv
  <1>14. ASSUME NEW c \in Call,
             RecoverResult(c)
      PROVE  Moves
    <2>1. Closing /\ Closing'
      BY <1>14 DEF RecoverResult, Closing, FlightInv
    <2>2. Called' = Called /\ Answered' = Answered \union {c}
      BY <1>14 DEF RecoverResult, Called, Answered, StageIn, OutcomeInv
    <2>3. c \notin Answered /\ 1..(c - 1) \subseteq Answered
      BY <1>14 DEF RecoverResult, Answered, StageIn
    <2>4. Answers!Recover(c)
      BY <2>1, <2>2, <2>3 DEF Answers!Recover, Answers!InOrder
    <2> QED
      BY <1>14, <2>4 DEF Moves, Answers!AnswersNext, Answers!Call
  <1>15. CASE SkipCall
    <2>1. /\ pc \in Scheduling /\ next \in Call /\ pc # "preparing" /\ stage[next] = "planned"
          /\ stage' = [stage EXCEPT ![next] = "answered"]
      BY <1>15 DEF SkipCall, Scheduling, OrderInv
    <2>2. \A d \in Call : result[d] # "TOOL_NOT_STARTED" /\ result'[d] # "TOOL_NOT_STARTED"
      BY <1>15, <2>1 DEF SkipCall, OutcomeInv, Scheduling
    <2>3. Called' = Called \union {next}
      BY <2>1, <2>2 DEF Called
    <2>4. Answered' = Answered \union {next}
      BY <2>1 DEF Answered, StageIn
    <2>5. ~Closing /\ Closing' = Closing
      BY <1>15, <2>1 DEF SkipCall, Closing, Scheduling
    <2>6. Answers!InOrder(next, Called)
      BY <2>1, LogView
    <2>7. committed + 1 = next
      BY <1>15 DEF SkipCall, OrderInv
    <2>8. Answers!InOrder(next, Answered)
      BY <1>15, <2>1, LogView DEF SkipCall, OrderInv, Answers!InOrder
    <2>9. Answers!Skip(next)
      BY <2>3, <2>4, <2>5, <2>6, <2>7, <2>8 DEF Answers!Skip
    <2> QED
      BY <2>1, <2>9 DEF Moves, Answers!AnswersNext, Answers!Call
  <1>16. ASSUME NEW called \in BOOLEAN,
             SkipFails(called)
      PROVE  Moves
    <2> SUFFICES ASSUME called PROVE Moves
      BY <1>16 DEF SkipFails, Drain, Called, Answered, Closing, StageIn
    <2>1. /\ pc \in Scheduling /\ next \in Call /\ pc # "preparing" /\ stage[next] = "planned"
          /\ stage' = [stage EXCEPT ![next] = "abandoned"]
      BY <1>16 DEF SkipFails, Drain, Scheduling, OrderInv
    <2>2. \A d \in Call : result[d] # "TOOL_NOT_STARTED" /\ result'[d] # "TOOL_NOT_STARTED"
      BY <1>16, <2>1 DEF SkipFails, Drain, OutcomeInv, Scheduling
    <2>3. Called' = Called \union {next}
      BY <2>1, <2>2 DEF Called
    <2>4. Answered' = Answered
      BY <2>1 DEF Answered, StageIn
    <2>5. ~Closing /\ Closing' = Closing
      BY <1>16, <2>1 DEF SkipFails, Drain, Closing, Scheduling
    <2>6. Answers!InOrder(next, Called)
      BY <2>1, LogView
    <2>8. Answers!Record(next)
      BY <2>3, <2>4, <2>5, <2>6 DEF Answers!Record
    <2> QED
      BY <2>1, <2>8 DEF Moves, Answers!AnswersNext, Answers!Call
  <1>17. CASE SkippedAll
    BY <1>17 DEF SkippedAll, Called, Answered, Closing, StageIn, OrderInv,
       FlightInv, OutcomeInv
  <1>18. CASE Drained
    <2>1. ~Closing /\ Closing' /\ UNCHANGED <<Called, Answered>>
      BY <1>18 DEF Drained, Called, Answered, Closing, StageIn, FlightInv
    <2> QED
      BY <2>1 DEF Moves, Answers!AnswersNext, Answers!Fail
  <1>19. CASE Recovered
    BY <1>19 DEF Recovered, Called, Answered, Closing, StageIn, OrderInv, FlightInv,
       OutcomeInv
  <1> QED
    BY <1>1, <1>2, <1>3, <1>4, <1>5, <1>6, <1>7, <1>8, <1>9, <1>10, <1>11, <1>12,
       <1>13, <1>14, <1>15, <1>16, <1>17, <1>18, <1>19 DEF SchedulerStep

LEMMA MovesCall ==
    ASSUME TypeOK, ToolInv, NEW c \in Call, CallStep(c)
    PROVE  Moves
  <1>1. UNCHANGED pc /\ pc \notin {"failed", "done"}
    BY CallStepFrame DEF ToolInv, FlightInv, Active
  <1>2. PICK s \in Dispatched \union {"ready", "abandoned"} :
           stage' = [stage EXCEPT ![c] = s]
    BY CallStepFrame
  <1>3. stage[c] \notin {"planned", "answered"} /\ s \notin {"planned", "answered"}
    BY CallStepFrame DEF Dispatched
  <1>4. \A d \in Call : result[d] # "TOOL_NOT_STARTED"
    BY <1>1 DEF ToolInv, OutcomeInv
  <1>5. \A d \in Call : result'[d] # "TOOL_NOT_STARTED"
    BY <1>1, OutcomeInvCall DEF OutcomeInv
  <1> QED
    BY <1>1, <1>2, <1>3, <1>4, <1>5, Stutters DEF TypeOK, Called, Answered, Closing, StageIn

\* The scheduler implements the promise about the log: calls are recorded and
\* answered in the model's order, each once, through abort, failure and recovery.
THEOREM ToolsAnswerInOrder == Spec => RefinesAnswers
  <1>1. Init => Answers!AnswersInit
    BY DEF Init, Answers!AnswersInit, Called, Answered, Closing, StageIn
  <1>2. TypeOK /\ ToolInv /\ [Next]_vars => [Answers!AnswersNext]_(Answers!answers)
    <2> SUFFICES ASSUME TypeOK, ToolInv, [Next]_vars PROVE Moves
      BY DEF Moves
    <2> USE Stutters DEF Called, Answered, Closing, StageIn
    <2>1. ASSUME NEW c \in Call, Reclassify(c)
          PROVE  Moves
      BY <2>1 DEF Reclassify
    <2>2. CASE Abort
      BY <2>2 DEF Abort
    <2>3. CASE UNCHANGED vars
      BY <2>3 DEF vars
    <2> QED
      BY <2>1, <2>2, <2>3, MovesScheduler, MovesCall DEF Next, Finished
  <1> QED
    BY <1>1, <1>2, ToolInvariant, PTL DEF Spec, RefinesAnswers, Answers!AnswersSpec
=============================================================================
