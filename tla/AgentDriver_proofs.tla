------------------------- MODULE AgentDriver_proofs -------------------------
(***************************************************************************)
(* Proofs about AgentDriver, for every set of messages and calls and every  *)
(* bound.                                                                  *)
(***************************************************************************)
EXTENDS AgentDriver, QueueLemmas

-----------------------------------------------------------------------------
(* Type correctness. *)

\* Every list operation of the driver keeps both pending lists well typed, and
\* the claimed batch a set of messages.
LEMMA ClaimType ==
    ASSUME TypeOK, Propose
    PROVE  /\ batch' \subseteq Messages
           /\ inbox' \in [Targets -> Seq(Messages)]
           /\ prompts' \in Nat
           /\ pc' = "proposing"
  <1>1. NextTurn \in Seq(Messages) /\ NextStep \in Seq(Messages)
    BY DEF TypeOK, Targets, NextTurn, NextStep
  <1>2. ToSet(NextStep) \subseteq Messages
    BY <1>1, ElementsOf
  <1>3. Prompt(ClaimTarget) \subseteq Messages
    <2>1. CASE NextTurn = <<>>
      BY <2>1 DEF Prompt
    <2>2. CASE NextTurn # <<>>
      <3>1. Head(NextTurn) \in Messages
        BY <1>1, <2>2, HeadTailProperties
      <3> QED
        BY <3>1 DEF Prompt
    <2> QED
      BY <2>1, <2>2
  <1>4. Prompt(ClaimTarget) # {} => Tail(NextTurn) \in Seq(Messages)
    BY <1>1, HeadTailProperties DEF Prompt
  <1>5. inbox' \in [Targets -> Seq(Messages)]
    BY <1>1, <1>4, EmptySeq DEF Propose, TypeOK, Targets, NextTurn
  <1>6. prompts' \in Nat
    BY DEF Propose, TypeOK
  <1> QED
    BY <1>2, <1>3, <1>5, <1>6 DEF Propose

\* The phase changes that open and close an activity.
LEMMA ActivityType ==
    ASSUME TypeOK, StartDriver \/ GoIdle
    PROVE  /\ phase' \in {"idle", "running"}
           /\ pc' \in Points \union {None}
           /\ turn' \in Nat /\ step' \in Nat
           /\ abort' = None /\ wake' = FALSE
           /\ wake' \in BOOLEAN
           /\ asked' = {}
           /\ waiter' \in {"off", "watching", "settled", "superseded"}
  <1>1. CASE StartDriver
    BY <1>1 DEF StartDriver, Supersede, TypeOK, Points
  <1>2. CASE GoIdle
    BY <1>2 DEF GoIdle, TypeOK
  <1> QED
    BY <1>1, <1>2

\* What a returning step writes.
LEMMA StepReturnsType ==
    ASSUME TypeOK, NEW stepEnd \in {"completed", "max-tokens", None}, StepReturns(stepEnd)
    PROVE  /\ turnEnds' \in Endings \union {None}
           /\ ceiling' \in BOOLEAN /\ owesReply' \in BOOLEAN
           /\ pc' = "stepClosed" /\ failed' = FALSE
           /\ failed' \in BOOLEAN
           /\ logNextStep' \in Nat \ {0}
  <1>1. turnEnds' \in Endings \union {None}
    BY DEF StepReturns, EndingAfter, TypeOK, Endings
  <1>2. ceiling' \in BOOLEAN /\ owesReply' \in BOOLEAN
    BY DEF StepReturns
  <1>3. logNextStep' \in Nat \ {0}
    BY DEF StepReturns, CloseStep, TypeOK
  <1> QED
    BY <1>1, <1>2, <1>3 DEF StepReturns, CloseStep

LEMMA TypeCaller ==
    ASSUME TypeOK, CallerStep
    PROVE  TypeOK'
  <1> USE DEF Targets, None
  <1>1. ASSUME NEW m \in Messages, NEW target \in Targets, NEW wakeup \in BOOLEAN,
               Send(m, target, wakeup)
        PROVE  TypeOK'
    <2>1. SendTarget(target, wakeup) \in Targets
      BY DEF SendTarget
    <2>2. inbox[SendTarget(target, wakeup)] \in Seq(Messages)
      BY <2>1 DEF TypeOK
    <2>3. Append(inbox[SendTarget(target, wakeup)], m) \in Seq(Messages)
      BY <2>2, ElementsOfAppend
    <2>4. inbox' \in [Targets -> Seq(Messages)]
      BY <1>1, <2>1, <2>3 DEF Send, TypeOK
    <2>5. sent' \subseteq Messages /\ owed' \subseteq Messages
      BY <1>1 DEF Send, TypeOK
    <2>6. /\ phase' \in {"idle", "maintenance", "running"}
          /\ pc' \in Points \union {None}
          /\ turn' \in Nat /\ step' \in Nat
          /\ abort' \in Causes \union {None}
          /\ wake' \in BOOLEAN
          /\ asked' \subseteq Causes
          /\ waiter' \in {"off", "watching", "settled", "superseded"}
      <3>1. CASE UNCHANGED <<control, asked, waiter>>
        BY <3>1 DEF control, TypeOK
      <3>2. CASE StartDriver
        BY <3>2 DEF StartDriver, Supersede, Points, TypeOK
      <3>3. CASE /\ wake' = (wake \/ Latches(JoinsLate(wakeup)))
                 /\ UNCHANGED <<phase, pc, turn, step, abort, asked, waiter>>
        BY <3>3 DEF Latches, TypeOK
      <3> QED
        BY <1>1, <3>1, <3>2, <3>3 DEF Send, WakeDriver
    <2> QED
      BY <1>1, <2>4, <2>5, <2>6 DEF Send, work, TypeOK
  <1>2. ASSUME NEW cause \in Causes, NEW keepInbox \in BOOLEAN, Cancel(cause, keepInbox)
        PROVE  TypeOK'
    <2>1. inbox' \in [Targets -> Seq(Messages)]
      BY <1>2, EmptySeq DEF Cancel, TypeOK
    <2>2. wake' \in BOOLEAN /\ abort' \in Causes \union {None}
      BY <1>2 DEF Cancel, TypeOK
    <2>3. asked' \subseteq Causes /\ owed' \subseteq Messages
      BY <1>2 DEF Cancel, TypeOK
    <2> QED
      BY <1>2, <2>1, <2>2, <2>3 DEF Cancel, work, TypeOK
  <1>3. ASSUME NEW target \in Targets, NEW i \in DOMAIN inbox[target], TakeBack(target, i)
        PROVE  TypeOK'
    <2>1. inbox[target] \in Seq(Messages)
      BY DEF TypeOK
    <2>2. RemoveAt(inbox[target], i) \in Seq(Messages)
      BY <2>1, ElementsOfRemoveAt
    <2>3. inbox' \in [Targets -> Seq(Messages)]
      BY <1>3, <2>2 DEF TakeBack, TypeOK
    <2> QED
      BY <1>3, <2>3 DEF TakeBack, control, work, history, TypeOK
  <1>4. CASE MaintenanceStarts
    BY <1>4 DEF MaintenanceStarts, Supersede, work, mail, TypeOK
  <1>5. CASE WaitBegins
    BY <1>5 DEF WaitBegins, control, work, mail, history, TypeOK
  <1> QED
    BY <1>1, <1>2, <1>3, <1>4, <1>5 DEF CallerStep

LEMMA TypeTurn ==
    ASSUME TypeOK, TurnStep
    PROVE  TypeOK'
  <1> USE DEF None, Points, Endings
  <1>1. CASE TurnStart
    <2>1. ceiling' \in BOOLEAN /\ owesReply' \in BOOLEAN
      BY <1>1 DEF TurnStart
    <2>2. turn' \in Nat /\ prompts' \in Nat /\ logNextStep' \in Nat \ {0}
      BY <1>1 DEF TurnStart, TypeOK
    <2> QED
      BY <1>1, <2>1, <2>2 DEF TurnStart, mail, TypeOK
  <1>2. CASE TurnStartRejected
    BY <1>2 DEF TurnStartRejected, work, mail, TypeOK
  <1>3. CASE AbortedBeforeTurn
    BY <1>3 DEF AbortedBeforeTurn, work, mail, history, TypeOK
  <1>4. CASE FirstProposal
    BY <1>4, ClaimType DEF FirstProposal, TypeOK
  <1>5. CASE TurnThrows
    BY <1>5 DEF TurnThrows, FailTurn, CloseTurn, mail, history, TypeOK
  <1>6. CASE Rejected
    BY <1>6 DEF Rejected, CloseTurn, mail, history, TypeOK
  <1>7. CASE EnteredEmpty
    BY <1>7 DEF EnteredEmpty, CloseTurn, mail, history, TypeOK
  <1>8. ASSUME NEW kept \in SUBSET batch, NEW extra \in BOOLEAN, StepStart(kept, extra)
        PROVE  TypeOK'
    BY <1>8 DEF StepStart, NoCalls, mail, history, TypeOK
  <1>9. CASE AfterStepThrows
    BY <1>9 DEF AfterStepThrows, FailTurn, CloseTurn, mail, history, TypeOK
  <1>10. CASE AskToStop
    BY <1>10 DEF AskToStop, work, mail, history, TypeOK
  <1>11. CASE ProposeAgain
    BY <1>11, ClaimType DEF ProposeAgain, TypeOK
  <1>12. CASE Stop
    BY <1>12 DEF Stop, CloseTurn, mail, history, TypeOK
  <1>13. CASE CloseFailedTurn
    BY <1>13 DEF CloseFailedTurn, CloseTurn, mail, history, TypeOK
  <1>14. CASE NextQueuedTurn
    BY <1>14 DEF NextQueuedTurn, work, mail, TypeOK
  <1>15. CASE QueueDrained
    BY <1>15 DEF QueueDrained, work, mail, history, TypeOK
  <1>16. CASE Leave
    BY <1>16, ActivityType DEF Leave, work, mail, TypeOK
  <1> QED
    BY <1>1, <1>2, <1>3, <1>4, <1>5, <1>6, <1>7, <1>8, <1>9, <1>10, <1>11,
       <1>12, <1>13, <1>14, <1>15, <1>16 DEF TurnStep

LEMMA TypeModel ==
    ASSUME TypeOK, ModelStep
    PROVE  TypeOK'
  <1> USE DEF None, Points, Endings
  <1>1. CASE RequestPrepared
    BY <1>1 DEF RequestPrepared, Admitted, mail, history, TypeOK
  <1>13. CASE BuildRequest
    BY <1>13 DEF BuildRequest, work, mail, history, TypeOK
  <1>14. ASSUME NEW m \in Messages, AdmitMessage(m)
         PROVE  TypeOK'
    BY <1>14 DEF AdmitMessage, control, history, TypeOK
  <1>2. CASE StepThrows
    BY <1>2 DEF StepThrows, CloseStep, mail, TypeOK
  <1>3. CASE RequestFails
    BY <1>3 DEF RequestFails, work, mail, history, TypeOK
  <1>4. CASE Retry
    BY <1>4 DEF Retry, mail, history, TypeOK
  <1>5. ASSUME NEW stepEnd \in {"completed", "max-tokens"}, ModelFinishes(stepEnd)
        PROVE  TypeOK'
    BY <1>5, StepReturnsType DEF ModelFinishes, mail, TypeOK
  <1>6. ASSUME NEW requested \in SUBSET Calls \ {{}}, ModelRequestsTools(requested)
        PROVE  TypeOK'
    BY <1>6 DEF ModelRequestsTools, mail, history, TypeOK
  <1>7. ASSUME NEW c \in Calls, CallStarts(c)
        PROVE  TypeOK'
    BY <1>7 DEF CallStarts, control, mail, history, TypeOK
  <1>8. ASSUME NEW c \in Calls, RecoverResult(c)
        PROVE  TypeOK'
    BY <1>8 DEF RecoverResult, control, mail, history, TypeOK
  <1>9. ASSUME NEW c \in Calls, NEW contexts \in {<<>>} \union {<<m>> : m \in Messages},
               CallSettles(c, contexts)
        PROVE  TypeOK'
    <2>1. contexts \in Seq(Messages)
      <3>1. CASE contexts = <<>>
        BY <3>1, EmptySeq
      <3>2. ASSUME NEW m \in Messages, contexts = <<m>>
            PROVE  contexts \in Seq(Messages)
        BY <3>2
      <3> QED
        BY <3>1, <3>2
    <2>2. ToSet(contexts) \subseteq Messages
      BY <2>1, ElementsOf
    <2>3. inbox["next-step"] \in Seq(Messages)
      BY DEF TypeOK, Targets
    <2>4. inbox["next-step"] \o contexts \in Seq(Messages)
      BY <2>1, <2>3, ElementsOfConcat
    <2>5. inbox' \in [Targets -> Seq(Messages)]
      BY <1>9, <2>4 DEF CallSettles, TypeOK, Targets
    <2> QED
      BY <1>9, <2>2, <2>5 DEF CallSettles, control, history, TypeOK
  <1>10. ASSUME NEW concluded \in BOOLEAN, ToolsDone(concluded)
         PROVE  TypeOK'
    BY <1>10, StepReturnsType DEF ToolsDone, mail, TypeOK
  <1>11. CASE SchedulerFails
    BY <1>11 DEF SchedulerFails, work, mail, history, TypeOK
  <1>12. CASE StepUnwound
    BY <1>12 DEF StepUnwound, CloseStep, mail, TypeOK
  <1> QED
    BY <1>1, <1>2, <1>3, <1>4, <1>5, <1>6, <1>7, <1>8, <1>9, <1>10, <1>11, <1>12, <1>13,
       <1>14 DEF ModelStep

\* Type correctness of the driver: every variable keeps the type the code
\* declares for it, whatever callers and the model do.
THEOREM TypeCorrect == Spec => []TypeOK
  <1>1. Init => TypeOK
    <2> SUFFICES ASSUME Init
                 PROVE  TypeOK
      OBVIOUS
    <2>1. inbox \in [Targets -> Seq(Messages)]
      BY EmptySeq DEF Init
    <2>2. logged \in [Messages -> Nat]
      BY DEF Init
    <2>3. calls \in [Calls -> {"none", "requested", "started", "answered"}]
      BY DEF Init, NoCalls
    <2>4. wake \in BOOLEAN /\ failed \in BOOLEAN /\ ceiling \in BOOLEAN /\ owesReply \in BOOLEAN
      BY DEF Init
    <2>5. turn \in Nat /\ step \in Nat /\ attempt \in Nat /\ prompts \in Nat /\ logNextStep \in Nat \ {0}
      BY DEF Init
    <2> QED
      BY <2>1, <2>2, <2>3, <2>4, <2>5 DEF Init, TypeOK
  <1>2. TypeOK /\ [Next]_vars => TypeOK'
    <2> SUFFICES ASSUME TypeOK, [Next]_vars
                 PROVE  TypeOK'
      OBVIOUS
    <2>1. CASE DriverStep
      BY <2>1, TypeTurn, TypeModel DEF DriverStep
    <2>2. CASE CallerStep
      BY <2>2, TypeCaller
    <2>3. CASE MaintenanceEnds
      BY <2>3, ActivityType DEF MaintenanceEnds, work, mail, TypeOK
    <2>4. CASE WaitLooksAgain
      BY <2>4 DEF WaitLooksAgain, control, work, mail, history, TypeOK
    <2>5. CASE WaitResolves
      BY <2>5 DEF WaitResolves, control, work, mail, history, TypeOK
    <2>6. CASE UNCHANGED vars
      BY <2>6 DEF vars, control, work, mail, history, TypeOK
    <2> QED
      BY <2>1, <2>2, <2>3, <2>4, <2>5, <2>6 DEF Next
  <1> QED
    BY <1>1, <1>2, PTL DEF Spec

-----------------------------------------------------------------------------
(* Latched wakes and the idle promise. *)

\* Claiming a batch only takes messages off the pending lists.
LEMMA ClaimShrinksPending ==
    ASSUME TypeOK, Propose
    PROVE  Pending' \subseteq Pending
  <1>1. NextTurn \in Seq(Messages)
    BY DEF TypeOK, Targets, NextTurn
  <1>2. NextStep' = <<>>
    BY DEF Propose, TypeOK, Targets, NextStep
  <1>3. ToSet(NextStep') = {}
    BY <1>2 DEF ToSet
  <1>4. CASE Prompt(ClaimTarget) = {}
    <2>1. NextTurn' = NextTurn
      BY <1>4 DEF Propose, TypeOK, Targets, NextTurn
    <2> QED
      BY <2>1, <1>3 DEF Pending
  <1>5. CASE Prompt(ClaimTarget) # {}
    <2>1. NextTurn # <<>>
      BY <1>5 DEF Prompt
    <2>2. NextTurn' = Tail(NextTurn)
      BY <1>5 DEF Propose, TypeOK, Targets, NextTurn
    <2>3. ToSet(NextTurn') \subseteq ToSet(NextTurn)
      BY <1>1, <2>1, <2>2, ElementsOfTail
    <2> QED
      BY <2>3, <1>3 DEF Pending
  <1> QED
    BY <1>4, <1>5

\* Nothing is pending exactly when both lists are empty.
LEMMA HasPendingMeans ==
    ASSUME TypeOK
    PROVE  HasPending <=> Pending # {}
  <1>1. NextTurn \in Seq(Messages) /\ NextStep \in Seq(Messages)
    BY DEF TypeOK, Targets, NextTurn, NextStep
  <1>2. ToSet(NextTurn) # {} <=> NextTurn # <<>>
    BY <1>1, ElementsOf
  <1>3. ToSet(NextStep) # {} <=> NextStep # <<>>
    BY <1>1, ElementsOf
  <1> QED
    BY <1>2, <1>3 DEF HasPending, Pending

\* A step that keeps the latch, the controller and the debts keeps OwedInv.
LEMMA OwedKept ==
    ASSUME OwedInv, pc # "boundary" \/ Aborted,
           UNCHANGED <<phase, wake, abort, owed>>,
           sent \subseteq sent', owed \intersect Pending' \subseteq Pending
    PROVE  OwedInv'
  BY DEF OwedInv, Aborted

\* With nothing owed, or nothing owed still pending, OwedInv holds.
LEMMA OwedPaid ==
    ASSUME owed' \intersect Pending' = {}, owed' \subseteq sent'
    PROVE  OwedInv'
  BY DEF OwedInv

LEMMA PendingUnchanged ==
    ASSUME UNCHANGED inbox
    PROVE  Pending' = Pending /\ HasPending' = HasPending
  BY DEF Pending, HasPending, NextTurn, NextStep

\* Closing an activity: either a driver starts, or no debt is pending.
LEMMA ActivityEndKeepsSafety ==
    ASSUME TypeOK, PhaseInv, OwedInv, phase # "idle",
           pc # "boundary",
           UNCHANGED <<mail, owed>>,
           \/ wake /\ HasPending /\ StartDriver
           \/ ~(wake /\ HasPending) /\ GoIdle
           \/ abort = "disposed" /\ GoIdle
    PROVE  PhaseInv' /\ OwedInv'
  <1>1. Pending' = Pending
    BY PendingUnchanged DEF mail
  <1>2. owed' \subseteq sent'
    BY DEF OwedInv, mail
  <1>3. CASE StartDriver
    <2>1. PhaseInv'
      BY <1>3 DEF StartDriver, Supersede, PhaseInv, WhenIdleIsQuiescent, None
    <2>2. pc' = "boundary" /\ ~Aborted'
      BY <1>3 DEF StartDriver, Aborted
    <2> QED
      BY <2>1, <2>2, <1>2 DEF OwedInv
  <1>4. CASE GoIdle /\ (abort = "disposed" \/ ~(wake /\ HasPending))
    <2>1. PhaseInv'
      BY <1>4 DEF GoIdle, PhaseInv, WhenIdleIsQuiescent, Aborted
    <2>2. owed \intersect Pending = {}
      BY <1>4, HasPendingMeans DEF OwedInv
    <2>3. OwedInv'
      BY <2>2, <1>1, <1>2, OwedPaid
    <2> QED
      BY <2>1, <2>3
  <1> QED
    BY <1>3, <1>4

LEMMA SafetyCaller ==
    ASSUME TypeOK, PhaseInv, OwedInv, CallerStep
    PROVE  PhaseInv' /\ OwedInv'
  <1>1. ASSUME NEW m \in Messages, NEW target \in Targets, NEW wakeup \in BOOLEAN,
               Send(m, target, wakeup)
        PROVE  PhaseInv' /\ OwedInv'
    <2> DEFINE box == SendTarget(target, wakeup)
    <2>1. box \in Targets
      BY DEF SendTarget, Targets
    <2>2. inbox[box] \in Seq(Messages)
      BY <2>1 DEF TypeOK
    <2>3. ToSet(Append(inbox[box], m)) = ToSet(inbox[box]) \union {m}
      BY <2>2, ElementsOfAppend
    <2>4. inbox' = [inbox EXCEPT ![box] = Append(inbox[box], m)]
      BY <1>1 DEF Send
    <2>5. Pending' = Pending \union {m}
      <3>1. CASE box = "next-turn"
        BY <3>1, <2>3, <2>4 DEF Pending, NextTurn, NextStep, TypeOK, Targets
      <3>2. CASE box = "next-step"
        BY <3>2, <2>3, <2>4 DEF Pending, NextTurn, NextStep, TypeOK, Targets
      <3> QED
        BY <2>1, <3>1, <3>2 DEF Targets
    <2>6. m \notin sent /\ sent' = sent \union {m} /\ owed \subseteq sent
      BY <1>1 DEF Send, OwedInv
    <2>7. CASE ~wakeup
      <3>1. UNCHANGED <<control, asked, waiter, owed>>
        BY <1>1, <2>7 DEF Send
      <3>2. PhaseInv'
        BY <3>1 DEF control, PhaseInv, WhenIdleIsQuiescent, Aborted
      <3>3. OwedInv'
        BY <3>1, <2>5, <2>6 DEF control, OwedInv, Aborted
      <3> QED
        BY <3>2, <3>3
    <2>8. CASE wakeup /\ phase = "idle"
      <3>1. StartDriver /\ owed' = owed
        BY <1>1, <2>8 DEF Send, WakeDriver
      <3>2. PhaseInv'
        BY <3>1, <2>8 DEF StartDriver, Supersede, PhaseInv, WhenIdleIsQuiescent, None
      <3>3. OwedInv'
        BY <3>1, <2>5, <2>6 DEF StartDriver, OwedInv, Aborted
      <3> QED
        BY <3>2, <3>3
    <2>9. CASE wakeup /\ phase # "idle"
      <3>1. /\ wake' = (wake \/ Latches(JoinsLate(wakeup)))
            /\ UNCHANGED <<phase, pc, turn, step, abort, asked, waiter>>
        BY <1>1, <2>9 DEF Send, WakeDriver
      <3>2. PhaseInv'
        BY <3>1, <2>9 DEF PhaseInv, WhenIdleIsQuiescent, Aborted
      <3>3. CASE abort # "disposed" /\ (phase = "maintenance" \/ Aborted)
        <4>1. wake'
          BY <3>1, <3>3, <2>9 DEF Latches, JoinsLate
        <4>2. owed' = owed \union {m}
          BY <1>1, <2>9, <3>3 DEF Send
        <4>3. phase \in {"maintenance", "running"}
          BY <2>9 DEF TypeOK
        <4> QED
          BY <3>1, <3>2, <3>3, <4>1, <4>2, <4>3, <2>6 DEF OwedInv, Aborted
      <3>4. CASE ~(abort # "disposed" /\ (phase = "maintenance" \/ Aborted))
        <4>1. owed' = owed
          BY <1>1, <2>9, <3>4 DEF Send
        <4>2. owed' \intersect Pending' = owed \intersect Pending
          BY <4>1, <2>5, <2>6
        <4>3. wake => wake'
          BY <3>1
        <4> QED
          BY <3>1, <3>2, <4>1, <4>2, <4>3, <2>6 DEF OwedInv, Aborted
      <3> QED
        BY <3>3, <3>4
    <2> QED
      BY <2>7, <2>8, <2>9 DEF TypeOK
  <1>2. ASSUME NEW cause \in Causes, NEW keepInbox \in BOOLEAN, Cancel(cause, keepInbox)
        PROVE  PhaseInv' /\ OwedInv'
    <2>1. PhaseInv'
      BY <1>2, CausesAssumption DEF Cancel, PhaseInv, WhenIdleIsQuiescent, Aborted
    <2>2. CASE owed' = {}
      BY <2>1, <2>2 DEF OwedInv
    <2>3. CASE owed' # {}
      <3>1. keepInbox /\ owed' = owed
        BY <1>2, <2>3 DEF Cancel
      <3>2. Aborted \/ (phase # "running" /\ cause # "disposed")
        BY <1>2, <2>3 DEF Cancel
      <3>3. inbox' = inbox /\ wake' = wake /\ UNCHANGED <<phase, pc, sent>>
        BY <1>2, <3>1 DEF Cancel
      <3>4. Pending' = Pending
        BY <3>3, PendingUnchanged
      <3>5. CASE Aborted
        <4>1. abort' = abort
          BY <1>2, <3>5 DEF Cancel
        <4> QED
          BY <2>1, <3>1, <3>3, <3>4, <3>5, <4>1 DEF OwedInv, Aborted
      <3>6. CASE ~Aborted /\ phase # "running" /\ cause # "disposed"
        <4>1. abort' \in {abort, cause} /\ abort' # "disposed"
          BY <1>2, <3>6 DEF Cancel, Aborted, None
        <4>2. pc = None
          BY <3>6 DEF PhaseInv
        <4> QED
          BY <2>1, <3>1, <3>3, <3>4, <3>6, <4>1, <4>2 DEF OwedInv, Aborted, None
      <3> QED
        BY <3>2, <3>5, <3>6
    <2> QED
      BY <2>2, <2>3
  <1>3. ASSUME NEW target \in Targets, NEW i \in DOMAIN inbox[target], TakeBack(target, i)
        PROVE  PhaseInv' /\ OwedInv'
    <2>1. inbox[target] \in Seq(Messages)
      BY DEF TypeOK
    <2>2. ToSet(RemoveAt(inbox[target], i)) \subseteq ToSet(inbox[target])
      BY <2>1, ElementsOfRemoveAt
    <2>3. Pending' \subseteq Pending
      <3>1. inbox' = [inbox EXCEPT ![target] = RemoveAt(inbox[target], i)]
        BY <1>3 DEF TakeBack
      <3>2. CASE target = "next-turn"
        BY <3>1, <3>2, <2>2 DEF Pending, NextTurn, NextStep, TypeOK, Targets
      <3>3. CASE target = "next-step"
        BY <3>1, <3>3, <2>2 DEF Pending, NextTurn, NextStep, TypeOK, Targets
      <3> QED
        BY <3>2, <3>3 DEF Targets
    <2>4. PhaseInv'
      BY <1>3 DEF TakeBack, control, PhaseInv, WhenIdleIsQuiescent, Aborted
    <2>5. OwedInv'
      BY <1>3, <2>3 DEF TakeBack, control, history, OwedInv, Aborted
    <2> QED
      BY <2>4, <2>5
  <1>4. CASE MaintenanceStarts
    <2>1. Pending' = Pending
      BY <1>4, PendingUnchanged DEF MaintenanceStarts, mail
    <2>2. owed \intersect Pending = {}
      BY <1>4 DEF MaintenanceStarts, OwedInv, PhaseInv, None
    <2>3. OwedInv'
      BY <1>4, <2>1, <2>2, OwedPaid DEF MaintenanceStarts, mail, OwedInv
    <2>4. PhaseInv'
      BY <1>4 DEF MaintenanceStarts, Supersede, PhaseInv, WhenIdleIsQuiescent
    <2> QED
      BY <2>3, <2>4
  <1>5. CASE WaitBegins
    <2>1. Pending' = Pending
      BY <1>5, PendingUnchanged DEF WaitBegins, mail
    <2>2. PhaseInv'
      BY <1>5 DEF WaitBegins, control, PhaseInv, WhenIdleIsQuiescent, Aborted
    <2>3. OwedInv'
      BY <1>5, <2>1 DEF WaitBegins, control, mail, history, OwedInv, Aborted
    <2> QED
      BY <2>2, <2>3
  <1> QED
    BY <1>1, <1>2, <1>3, <1>4, <1>5 DEF CallerStep

\* A driver step other than its last one stays running.
LEMMA DriverKeepsPhaseInv ==
    ASSUME PhaseInv, phase = "running", pc' # None, UNCHANGED <<phase, waiter>>
    PROVE  PhaseInv'
  BY DEF PhaseInv, WhenIdleIsQuiescent

LEMMA SafetyTurn ==
    ASSUME TypeOK, PhaseInv, OwedInv, TurnStep
    PROVE  PhaseInv' /\ OwedInv'
  <1>1. CASE TurnStart
    BY <1>1, DriverKeepsPhaseInv, OwedPaid DEF TurnStart, mail, PhaseInv, None
  <1>2. CASE TurnStartRejected
    BY <1>2, DriverKeepsPhaseInv, OwedPaid DEF TurnStartRejected, mail, PhaseInv, None
  <1>3. CASE AbortedBeforeTurn
    BY <1>3, DriverKeepsPhaseInv, OwedKept, PendingUnchanged
       DEF AbortedBeforeTurn, mail, history, PhaseInv, None
  <1>4. CASE FirstProposal
    BY <1>4, DriverKeepsPhaseInv, OwedKept, ClaimShrinksPending, ClaimType
       DEF FirstProposal, PhaseInv, None
  <1>5. CASE TurnThrows
    BY <1>5, DriverKeepsPhaseInv, OwedKept, PendingUnchanged
       DEF TurnThrows, FailTurn, CloseTurn, mail, history, PhaseInv, None
  <1>6. CASE Rejected
    BY <1>6, DriverKeepsPhaseInv, OwedKept, PendingUnchanged
       DEF Rejected, CloseTurn, mail, history, PhaseInv, None
  <1>7. CASE EnteredEmpty
    BY <1>7, DriverKeepsPhaseInv, OwedKept, PendingUnchanged
       DEF EnteredEmpty, CloseTurn, mail, history, PhaseInv, None
  <1>8. ASSUME NEW kept \in SUBSET batch, NEW extra \in BOOLEAN, StepStart(kept, extra)
        PROVE  PhaseInv' /\ OwedInv'
    BY <1>8, DriverKeepsPhaseInv, OwedKept, PendingUnchanged
       DEF StepStart, mail, history, PhaseInv, None
  <1>9. CASE AfterStepThrows
    BY <1>9, DriverKeepsPhaseInv, OwedKept, PendingUnchanged
       DEF AfterStepThrows, FailTurn, CloseTurn, mail, history, PhaseInv, None
  <1>10. CASE AskToStop
    BY <1>10, DriverKeepsPhaseInv, OwedKept, PendingUnchanged
       DEF AskToStop, mail, history, PhaseInv, None
  <1>11. CASE ProposeAgain
    BY <1>11, DriverKeepsPhaseInv, OwedKept, ClaimShrinksPending, ClaimType
       DEF ProposeAgain, PhaseInv, None
  <1>12. CASE Stop
    BY <1>12, DriverKeepsPhaseInv, OwedKept, PendingUnchanged
       DEF Stop, CloseTurn, mail, history, PhaseInv, None
  <1>13. CASE CloseFailedTurn
    BY <1>13, DriverKeepsPhaseInv, OwedKept, PendingUnchanged
       DEF CloseFailedTurn, CloseTurn, mail, history, PhaseInv, None
  <1>14. CASE NextQueuedTurn
    <2>1. PhaseInv'
      BY <1>14, DriverKeepsPhaseInv DEF NextQueuedTurn, PhaseInv, None
    <2>2. OwedInv'
      BY <1>14 DEF NextQueuedTurn, mail, OwedInv, Aborted
    <2> QED
      BY <2>1, <2>2
  <1>15. CASE QueueDrained
    BY <1>15, DriverKeepsPhaseInv, OwedKept, PendingUnchanged
       DEF QueueDrained, mail, history, PhaseInv, None
  <1>16. CASE Leave
    BY <1>16, ActivityEndKeepsSafety DEF Leave, PhaseInv, None
  <1> QED
    BY <1>1, <1>2, <1>3, <1>4, <1>5, <1>6, <1>7, <1>8, <1>9, <1>10, <1>11,
       <1>12, <1>13, <1>14, <1>15, <1>16 DEF TurnStep

LEMMA SafetyModel ==
    ASSUME TypeOK, PhaseInv, OwedInv, ModelStep
    PROVE  PhaseInv' /\ OwedInv'
  <1> USE DEF PhaseInv, None
  <1>1. CASE RequestPrepared
    BY <1>1, OwedKept, PendingUnchanged DEF RequestPrepared, mail, history, WhenIdleIsQuiescent
  <1>12. CASE BuildRequest
    BY <1>12, OwedKept, PendingUnchanged DEF BuildRequest, mail, history, WhenIdleIsQuiescent
  <1>13. ASSUME NEW m \in Messages, AdmitMessage(m)
         PROVE  PhaseInv' /\ OwedInv'
    <2>1. UNCHANGED <<control, inbox, sent, history, waiter>> /\ pc # "boundary"
      BY <1>13 DEF AdmitMessage
    <2> QED
      BY <2>1, OwedKept, PendingUnchanged DEF control, history, WhenIdleIsQuiescent, Aborted
  <1>2. CASE StepThrows
    BY <1>2, OwedKept, PendingUnchanged DEF StepThrows, CloseStep, mail, WhenIdleIsQuiescent
  <1>3. CASE RequestFails
    BY <1>3, OwedKept, PendingUnchanged DEF RequestFails, mail, history, WhenIdleIsQuiescent
  <1>4. CASE Retry
    BY <1>4, OwedKept, PendingUnchanged DEF Retry, mail, history, WhenIdleIsQuiescent
  <1>5. ASSUME NEW stepEnd \in {"completed", "max-tokens"}, ModelFinishes(stepEnd)
        PROVE  PhaseInv' /\ OwedInv'
    BY <1>5, OwedKept, PendingUnchanged
       DEF ModelFinishes, StepReturns, CloseStep, mail, WhenIdleIsQuiescent
  <1>6. ASSUME NEW requested \in SUBSET Calls \ {{}}, ModelRequestsTools(requested)
        PROVE  PhaseInv' /\ OwedInv'
    BY <1>6, OwedKept, PendingUnchanged DEF ModelRequestsTools, mail, history, WhenIdleIsQuiescent
  <1>7. ASSUME NEW c \in Calls, CallStarts(c) \/ RecoverResult(c)
        PROVE  PhaseInv' /\ OwedInv'
    <2>1. UNCHANGED <<control, mail, history, waiter>> /\ pc # "boundary"
      BY <1>7 DEF CallStarts, RecoverResult
    <2> QED
      BY <2>1, OwedKept, PendingUnchanged DEF control, mail, history, WhenIdleIsQuiescent, Aborted
  <1>8. ASSUME NEW c \in Calls, NEW contexts \in {<<>>} \union {<<m>> : m \in Messages},
               CallSettles(c, contexts)
        PROVE  PhaseInv' /\ OwedInv'
    <2>1. contexts \in Seq(Messages)
      <3>1. CASE contexts = <<>>
        BY <3>1, EmptySeq
      <3>2. ASSUME NEW m \in Messages, contexts = <<m>>
            PROVE  contexts \in Seq(Messages)
        BY <3>2
      <3> QED
        BY <3>1, <3>2
    <2>2. inbox["next-step"] \in Seq(Messages)
      BY DEF TypeOK, Targets
    <2>3. ToSet(inbox["next-step"] \o contexts) = ToSet(inbox["next-step"]) \union ToSet(contexts)
      BY <2>1, <2>2, ElementsOfConcat
    <2>4. inbox' = [inbox EXCEPT !["next-step"] = inbox["next-step"] \o contexts]
      BY <1>8 DEF CallSettles
    <2>5. Pending' = Pending \union ToSet(contexts)
      BY <2>3, <2>4 DEF Pending, NextTurn, NextStep, TypeOK, Targets
    <2>6. owed \intersect Pending' \subseteq Pending
      BY <1>8, <2>5 DEF CallSettles, OwedInv
    <2>7. UNCHANGED <<control, history, waiter>> /\ pc # "boundary" /\ sent \subseteq sent'
      BY <1>8 DEF CallSettles
    <2> QED
      BY <2>6, <2>7, OwedKept DEF control, history, WhenIdleIsQuiescent, Aborted
  <1>9. ASSUME NEW concluded \in BOOLEAN, ToolsDone(concluded)
        PROVE  PhaseInv' /\ OwedInv'
    BY <1>9, OwedKept, PendingUnchanged
       DEF ToolsDone, StepReturns, CloseStep, mail, WhenIdleIsQuiescent
  <1>10. CASE SchedulerFails
    BY <1>10, OwedKept, PendingUnchanged DEF SchedulerFails, mail, history, WhenIdleIsQuiescent
  <1>11. CASE StepUnwound
    BY <1>11, OwedKept, PendingUnchanged DEF StepUnwound, CloseStep, mail, WhenIdleIsQuiescent
  <1> QED
    BY <1>1, <1>2, <1>3, <1>4, <1>5, <1>6, <1>7, <1>8, <1>9, <1>10, <1>11, <1>12, <1>13
       DEF ModelStep

\* The two parts of the invariant are inductive.
LEMMA SafetyInductive ==
    ASSUME TypeOK, PhaseInv, OwedInv, [Next]_vars
    PROVE  PhaseInv' /\ OwedInv'
  <1>1. CASE DriverStep
    BY <1>1, SafetyTurn, SafetyModel DEF DriverStep
  <1>2. CASE CallerStep
    BY <1>2, SafetyCaller
  <1>3. CASE MaintenanceEnds
    BY <1>3, ActivityEndKeepsSafety DEF MaintenanceEnds, PhaseInv, None
  <1>4. ASSUME UNCHANGED <<control, work, mail, history>>,
               \/ waiter' = waiter
               \/ waiter' = "off"
               \/ waiter' = IF phase = "idle" THEN "settled" ELSE "watching"
        PROVE  PhaseInv' /\ OwedInv'
    <2>1. PhaseInv'
      BY <1>4 DEF control, PhaseInv, WhenIdleIsQuiescent, Aborted
    <2>2. OwedInv'
      BY <1>4, PendingUnchanged DEF control, mail, history, OwedInv, Aborted
    <2> QED
      BY <2>1, <2>2
  <1>5. CASE WaitLooksAgain \/ WaitResolves \/ UNCHANGED vars
    BY <1>4, <1>5 DEF WaitLooksAgain, WaitResolves, vars
  <1> QED
    BY <1>1, <1>2, <1>3, <1>5 DEF Next

LEMMA SafetyHolds == Spec => [](PhaseInv /\ OwedInv)
  <1>1. Init => PhaseInv /\ OwedInv
    BY DEF Init, PhaseInv, OwedInv, WhenIdleIsQuiescent, Aborted
  <1>2. TypeOK /\ PhaseInv /\ OwedInv /\ [Next]_vars => (PhaseInv /\ OwedInv)'
    BY SafetyInductive
  <1> QED
    BY <1>1, <1>2, TypeCorrect, PTL DEF Spec

\* No lost wake-up: an idle agent holds no pending message whose waking send
\* landed behind an aborted turn or a maintenance task, for any number of
\* messages, callers and aborts.
THEOREM WakeNeverLost == Spec => []LatchedWakeIsReplayed
  <1>1. PhaseInv /\ OwedInv => LatchedWakeIsReplayed
    BY DEF PhaseInv, OwedInv, LatchedWakeIsReplayed, None
  <1> QED
    BY <1>1, SafetyHolds, PTL

\* whenIdle, on which disposal waits, resolves on an idle agent only and never
\* keeps waiting for a promise that a newer activity has replaced.
THEOREM IdlePromiseIsRight == Spec => []WhenIdleIsQuiescent
  <1>1. PhaseInv => WhenIdleIsQuiescent
    BY DEF PhaseInv
  <1> QED
    BY <1>1, SafetyHolds, PTL

-----------------------------------------------------------------------------
(* Calls, attempts and endings. *)

\* A step that moves the driver between two points and touches neither counters,
\* calls nor the ending keeps StepInv if the new point asks for no more.
LEMMA StepKept ==
    ASSUME StepInv, UNCHANGED <<step, attempt, calls, ceiling>>,
           pc' \in InStep => pc \in InStep,
           pc' \in {"stepClosed", "stopping"} => pc \in InStep \union {"stepClosed", "stopping"},
           pc' \in InTurn \ {"erroring"} => pc \in InTurn \ {"erroring"} /\ turnEnds' = turnEnds,
           pc \in {"calling", "unwinding"} => pc' \in {"calling", "unwinding"}
    PROVE  StepInv'
  BY DEF StepInv, Requested

\* Closing a step, or an activity, asks for nothing but answered calls.
LEMMA StepAtClose ==
    ASSUME StepInv, UNCHANGED <<step, attempt, calls>>, Requested = {},
           pc \in InStep, pc' = "stepClosed",
           ceiling' => turnEnds' = "max-tokens"
    PROVE  StepInv'
  BY DEF StepInv, Requested, InStep

LEMMA StepAtActivityEdge ==
    ASSUME StepInv, StartDriver \/ GoIdle, UNCHANGED calls,
           pc \notin {"calling", "unwinding"}
    PROVE  StepInv'
  BY DEF StepInv, StartDriver, GoIdle, InTurn, InStep, Requested, None

LEMMA StepCaller ==
    ASSUME PhaseInv, StepInv, CallerStep
    PROVE  StepInv'
  <1>1. ASSUME NEW m \in Messages, NEW target \in Targets, NEW wakeup \in BOOLEAN,
               Send(m, target, wakeup)
        PROVE  StepInv'
    <2>1. CASE UNCHANGED <<phase, pc, step>>
      BY <1>1, <2>1, StepKept DEF Send, work
    <2>2. CASE phase = "idle" /\ StartDriver
      BY <1>1, <2>2, StepAtActivityEdge DEF Send, work, PhaseInv, None
    <2> QED
      BY <1>1, <2>1, <2>2 DEF Send, WakeDriver, control
  <1>2. ASSUME NEW cause \in Causes, NEW keepInbox \in BOOLEAN, Cancel(cause, keepInbox)
        PROVE  StepInv'
    BY <1>2, StepKept DEF Cancel, work
  <1>3. ASSUME NEW target \in Targets, NEW i \in DOMAIN inbox[target], TakeBack(target, i)
        PROVE  StepInv'
    BY <1>3, StepKept DEF TakeBack, control, work, history
  <1>4. CASE MaintenanceStarts
    BY <1>4, StepKept DEF MaintenanceStarts, work
  <1>5. CASE WaitBegins
    BY <1>5, StepKept DEF WaitBegins, control, work, history
  <1> QED
    BY <1>1, <1>2, <1>3, <1>4, <1>5 DEF CallerStep

LEMMA StepTurn ==
    ASSUME TypeOK, StepInv, TurnStep
    PROVE  StepInv'
  <1> USE DEF InTurn, InStep
  <1>1. CASE TurnStart
    BY <1>1 DEF TurnStart, StepInv, Requested
  <1>2. CASE TurnStartRejected
    BY <1>2, StepKept DEF TurnStartRejected, work
  <1>3. CASE AbortedBeforeTurn
    BY <1>3, StepKept DEF AbortedBeforeTurn, work, history
  <1>4. CASE FirstProposal
    BY <1>4, StepKept DEF FirstProposal, Propose
  <1>5. CASE TurnThrows
    BY <1>5, StepKept DEF TurnThrows, FailTurn, CloseTurn, history
  <1>6. CASE Rejected
    BY <1>6, StepKept DEF Rejected, CloseTurn, history
  <1>7. CASE EnteredEmpty
    BY <1>7, StepKept DEF EnteredEmpty, CloseTurn, history
  <1>8. ASSUME NEW kept \in SUBSET batch, NEW extra \in BOOLEAN, StepStart(kept, extra)
        PROVE  StepInv'
    <2>1. Requested' = {}
      BY <1>8 DEF StepStart, NoCalls, Requested
    <2> QED
      BY <1>8, <2>1 DEF StepStart, history, StepInv, TypeOK
  <1>9. CASE AfterStepThrows
    BY <1>9, StepKept DEF AfterStepThrows, FailTurn, CloseTurn, history
  <1>10. CASE AskToStop
    BY <1>10, StepKept DEF AskToStop, work, history
  <1>11. CASE ProposeAgain
    BY <1>11, StepKept DEF ProposeAgain, Propose
  <1>12. CASE Stop
    BY <1>12, StepKept DEF Stop, CloseTurn, history
  <1>13. CASE CloseFailedTurn
    BY <1>13, StepKept DEF CloseFailedTurn, CloseTurn, history
  <1>14. CASE NextQueuedTurn
    BY <1>14 DEF NextQueuedTurn, work, StepInv, Requested
  <1>15. CASE QueueDrained
    BY <1>15, StepKept DEF QueueDrained, work, history
  <1>16. CASE Leave
    BY <1>16, StepAtActivityEdge DEF Leave, work
  <1> QED
    BY <1>1, <1>2, <1>3, <1>4, <1>5, <1>6, <1>7, <1>8, <1>9, <1>10, <1>11,
       <1>12, <1>13, <1>14, <1>15, <1>16 DEF TurnStep

LEMMA StepModel ==
    ASSUME TypeOK, StepInv, ModelStep
    PROVE  StepInv'
  <1> USE DEF InTurn, InStep
  <1>1. CASE RequestPrepared
    BY <1>1, StepKept DEF RequestPrepared, history
  <1>13. CASE BuildRequest
    BY <1>13, StepKept DEF BuildRequest, work, history
  <1>14. ASSUME NEW m \in Messages, AdmitMessage(m)
         PROVE  StepInv'
    BY <1>14, StepKept DEF AdmitMessage, control, history
  <1>2. CASE StepThrows
    BY <1>2, StepAtClose DEF StepThrows, CloseStep, StepInv
  <1>3. CASE RequestFails
    BY <1>3, StepKept DEF RequestFails, work, history
  <1>4. CASE Retry
    BY <1>4 DEF Retry, history, StepInv, Requested, TypeOK
  <1>5. ASSUME NEW stepEnd \in {"completed", "max-tokens", None}, StepReturns(stepEnd),
               pc \in InStep, Requested = {}, UNCHANGED <<step, attempt, calls>>
        PROVE  StepInv'
    <2>1. ceiling' => turnEnds' = "max-tokens"
      BY <1>5 DEF StepReturns, EndingAfter, StepInv
    <2> QED
      BY <1>5, <2>1, StepAtClose DEF StepReturns, CloseStep
  <1>6. ASSUME NEW stepEnd \in {"completed", "max-tokens"}, ModelFinishes(stepEnd)
        PROVE  StepInv'
    BY <1>5, <1>6 DEF ModelFinishes, StepInv
  <1>7. ASSUME NEW requested \in SUBSET Calls \ {{}}, ModelRequestsTools(requested)
        PROVE  StepInv'
    BY <1>7 DEF ModelRequestsTools, history, StepInv
  <1>8. ASSUME NEW c \in Calls, CallStarts(c) \/ RecoverResult(c)
        PROVE  StepInv'
    BY <1>8 DEF CallStarts, RecoverResult, control, history, StepInv
  <1>9. ASSUME NEW c \in Calls, NEW contexts \in {<<>>} \union {<<m>> : m \in Messages},
               CallSettles(c, contexts)
        PROVE  StepInv'
    BY <1>9 DEF CallSettles, control, history, StepInv
  <1>10. ASSUME NEW concluded \in BOOLEAN, ToolsDone(concluded)
         PROVE  StepInv'
    BY <1>5, <1>10 DEF ToolsDone
  <1>11. CASE SchedulerFails
    BY <1>11, StepKept DEF SchedulerFails, work, history
  <1>12. CASE StepUnwound
    BY <1>12, StepAtClose DEF StepUnwound, CloseStep, StepInv
  <1> QED
    BY <1>1, <1>2, <1>3, <1>4, <1>6, <1>7, <1>8, <1>9, <1>10, <1>11, <1>12, <1>13, <1>14
       DEF ModelStep

LEMMA StepInductive ==
    ASSUME TypeOK, PhaseInv, StepInv, [Next]_vars
    PROVE  StepInv'
  <1>1. CASE DriverStep
    BY <1>1, StepTurn, StepModel DEF DriverStep
  <1>2. CASE CallerStep
    BY <1>2, StepCaller
  <1>3. CASE MaintenanceEnds
    BY <1>3, StepAtActivityEdge DEF MaintenanceEnds, PhaseInv, work, None
  <1>4. CASE WaitLooksAgain \/ WaitResolves \/ UNCHANGED vars
    BY <1>4, StepKept DEF WaitLooksAgain, WaitResolves, vars, control, work, history
  <1> QED
    BY <1>1, <1>2, <1>3, <1>4 DEF Next

-----------------------------------------------------------------------------
(* Every message enters the history once. *)

\* No message is in two places of the inbox.
Unique ==
    /\ IsInjective(NextTurn) /\ IsInjective(NextStep)
    /\ ToSet(NextTurn) \intersect ToSet(NextStep) = {}

\* A step that logs nothing keeps MailInv if the inbox gains only messages that
\* were never sent, the batch gains none, and no prompt is claimed.
LEMMA MailKept ==
    ASSUME TypeOK, MailInv, Unique', NEW fresh,
           fresh \subseteq sent' \ sent, sent \subseteq sent',
           Pending' \subseteq Pending \union fresh,
           batch' \subseteq batch, logged' = logged, prompts' \in {0, prompts},
           pc' = "opened" => pc = "opened" \/ prompts' = 0,
           pc' = "proposing" \/ (pc' = "preparing" /\ attempt' = 1) =>
              pc = "proposing" \/ (pc = "preparing" /\ attempt = 1),
           entering' \in {{}, entering}, batch' = batch \/ pc # "admitting",
           pc' # "admitting" => pc # "admitting" \/ entering' = {}
    PROVE  MailInv'
  <1>1. prompts' <= 1
    BY DEF MailInv, AdmittedOnce
  <1>2. ASSUME NEW m \in Messages
        PROVE  logged'[m] <= 1 /\ (logged'[m] = 1 => m \notin Pending')
    BY DEF MailInv, AdmittedOnce
  <1>3. Pending' \union batch' \subseteq sent' /\ batch' \intersect Pending' = {}
    BY DEF MailInv
  <1>4. \A m \in Messages \ sent' : logged'[m] = 0
    BY DEF MailInv
  <1>5. pc' = "proposing" \/ (pc' = "preparing" /\ attempt' = 1) => \A m \in batch' : logged'[m] = 0
    BY DEF MailInv
  <1>6. pc' = "opened" => prompts' = 0
    BY DEF MailInv
  <1>7. /\ entering' \subseteq batch' /\ \A m \in entering' : logged'[m] = 0
        /\ pc' # "admitting" => entering' = {}
    BY DEF MailInv
  <1> QED
    BY <1>1, <1>2, <1>3, <1>4, <1>5, <1>6, <1>7 DEF MailInv, AdmittedOnce, Unique

\* The same for a step that leaves the inbox alone.
LEMMA MailUnmoved ==
    ASSUME TypeOK, MailInv, UNCHANGED <<inbox, sent, logged>>,
           batch' \subseteq batch, prompts' \in {0, prompts},
           pc' = "opened" => pc = "opened" \/ prompts' = 0,
           pc' = "proposing" \/ (pc' = "preparing" /\ attempt' = 1) =>
              pc = "proposing" \/ (pc = "preparing" /\ attempt = 1),
           entering' \in {{}, entering}, batch' = batch \/ pc # "admitting",
           pc' # "admitting" => pc # "admitting" \/ entering' = {}
    PROVE  MailInv'
  <1>1. Pending' = Pending /\ Unique'
    BY PendingUnchanged DEF Unique, MailInv, NextTurn, NextStep
  <1> QED
    BY <1>1, MailKept

\* The pending lists are the only part of the state a queue operation replaces.
LEMMA Boxes ==
    ASSUME TypeOK
    PROVE  /\ NextTurn \in Seq(Messages) /\ NextStep \in Seq(Messages)
           /\ \A t \in Targets : \A s :
                 inbox' = [inbox EXCEPT ![t] = s] =>
                    /\ NextTurn' = IF t = "next-turn" THEN s ELSE NextTurn
                    /\ NextStep' = IF t = "next-step" THEN s ELSE NextStep
  BY DEF TypeOK, Targets, NextTurn, NextStep

\* A message never sent joins one of the lists.
LEMMA PostKeepsMail ==
    ASSUME TypeOK, MailInv, NEW t \in Targets, NEW m \in Messages, m \notin sent,
           inbox' = [inbox EXCEPT ![t] = Append(@, m)], sent' = sent \union {m},
           batch' = batch, logged' = logged, prompts' = prompts,
           pc' = "opened" => pc = "opened",
           pc' = "proposing" \/ (pc' = "preparing" /\ attempt' = 1) =>
              pc = "proposing" \/ (pc = "preparing" /\ attempt = 1),
           entering' \in {{}, entering}, batch' = batch \/ pc # "admitting",
           pc' # "admitting" => pc # "admitting" \/ entering' = {}
    PROVE  MailInv'
  <1>1. inbox[t] = (IF t = "next-turn" THEN NextTurn ELSE NextStep) /\ inbox[t] \in Seq(Messages)
    BY Boxes DEF Targets, NextTurn, NextStep
  <1>2. m \notin ToSet(NextTurn) /\ m \notin ToSet(NextStep)
    BY DEF MailInv, Pending
  <1>3. ToSet(Append(inbox[t], m)) = ToSet(inbox[t]) \union {m}
    BY <1>1, ElementsOfAppend
  <1>4. IsInjective(Append(inbox[t], m))
    BY <1>1, <1>2, DistinctAppend DEF MailInv
  <1>5. /\ NextTurn' = IF t = "next-turn" THEN Append(inbox[t], m) ELSE NextTurn
        /\ NextStep' = IF t = "next-step" THEN Append(inbox[t], m) ELSE NextStep
    BY Boxes
  <1>6. Unique' /\ Pending' = Pending \union {m}
    <2>1. CASE t = "next-turn"
      BY <2>1, <1>1, <1>2, <1>3, <1>4, <1>5 DEF Unique, MailInv, Pending
    <2>2. CASE t = "next-step"
      BY <2>2, <1>1, <1>2, <1>3, <1>4, <1>5 DEF Unique, MailInv, Pending
    <2> QED
      BY <2>1, <2>2 DEF Targets
  <1> QED
    BY <1>6, MailKept

\* A claim takes the steering, and at a turn's start one prompt, off the lists.
LEMMA ClaimKeepsMail ==
    ASSUME TypeOK, MailInv, Propose, UNCHANGED <<sent, logged, entering>>,
           step = 0 => prompts = 0, pc # "admitting"
    PROVE  MailInv'
  <1>1. NextTurn \in Seq(Messages) /\ NextStep \in Seq(Messages)
    BY Boxes
  <1>2. NextStep' = <<>> /\ ToSet(NextStep') = {} /\ IsInjective(NextStep')
    <2>1. NextStep' = <<>>
      BY DEF Propose, TypeOK, Targets, NextStep
    <2> QED
      BY <2>1 DEF ToSet, IsInjective
  <1>3. /\ IsInjective(NextTurn')
        /\ ToSet(NextTurn') \subseteq ToSet(NextTurn)
        /\ Prompt(ClaimTarget) \subseteq ToSet(NextTurn)
        /\ Prompt(ClaimTarget) \intersect ToSet(NextTurn') = {}
    <2>1. CASE Prompt(ClaimTarget) = {}
      <3>1. NextTurn' = NextTurn
        BY <2>1 DEF Propose, TypeOK, Targets, NextTurn
      <3> QED
        BY <2>1, <3>1 DEF MailInv
    <2>2. CASE Prompt(ClaimTarget) # {}
      <3>1. NextTurn # <<>> /\ Prompt(ClaimTarget) = {Head(NextTurn)}
        BY <2>2 DEF Prompt
      <3>2. NextTurn' = Tail(NextTurn)
        BY <2>2 DEF Propose, TypeOK, Targets, NextTurn
      <3>3. IsInjective(Tail(NextTurn)) /\ Head(NextTurn) \notin ToSet(Tail(NextTurn))
        BY <1>1, <3>1, DistinctTail DEF MailInv
      <3> QED
        BY <1>1, <3>1, <3>2, <3>3, ElementsOfTail
    <2> QED
      BY <2>1, <2>2
  <1>4. batch' = ToSet(NextStep) \union Prompt(ClaimTarget) /\ pc' = "proposing"
    BY DEF Propose
  <1>5. batch' \subseteq Pending /\ Pending' \subseteq Pending
    BY <1>2, <1>3, <1>4 DEF Pending
  <1>6. batch' \intersect Pending' = {}
    BY <1>2, <1>3, <1>4 DEF Pending, MailInv
  <1>7. Pending \subseteq Messages
    BY <1>1, ElementsOf DEF Pending
  <1>8. \A m \in batch' : logged'[m] = 0
    <2> SUFFICES ASSUME NEW m \in batch'
                 PROVE  logged[m] = 0
      OBVIOUS
    <2>1. m \in Messages /\ m \in Pending
      BY <1>5, <1>7
    <2>2. logged[m] \in Nat /\ logged[m] <= 1 /\ logged[m] # 1
      BY <2>1 DEF TypeOK, MailInv, AdmittedOnce
    <2> QED
      BY <2>2
  <1>9. prompts' <= 1
    <2>1. CASE Prompt(ClaimTarget) = {}
      BY <2>1 DEF Propose, MailInv, AdmittedOnce
    <2>2. CASE Prompt(ClaimTarget) # {}
      <3>1. step = 0
        BY <2>2 DEF Prompt, ClaimTarget
      <3> QED
        BY <2>2, <3>1 DEF Propose
    <2> QED
      BY <2>1, <2>2
  <1>10. \A m \in Messages : logged'[m] <= 1 /\ (logged'[m] = 1 => m \notin Pending')
    BY <1>5 DEF MailInv, AdmittedOnce
  <1>11. entering' = {}
    BY DEF MailInv
  <1> QED
    BY <1>2, <1>3, <1>4, <1>5, <1>6, <1>8, <1>9, <1>10, <1>11 DEF MailInv, AdmittedOnce

LEMMA MailCaller ==
    ASSUME TypeOK, PhaseInv, MailInv, CallerStep
    PROVE  MailInv'
  <1>1. ASSUME NEW m \in Messages, NEW target \in Targets, NEW wakeup \in BOOLEAN,
               Send(m, target, wakeup)
        PROVE  MailInv'
    <2>1. SendTarget(target, wakeup) \in Targets
      BY DEF SendTarget, Targets
    <2>2. pc' = pc \/ (pc' = "boundary" /\ pc = None)
      BY <1>1 DEF Send, WakeDriver, StartDriver, control, PhaseInv
    <2> QED
      BY <1>1, <2>1, <2>2, PostKeepsMail DEF Send, work, None
  <1>2. ASSUME NEW cause \in Causes, NEW keepInbox \in BOOLEAN, Cancel(cause, keepInbox)
        PROVE  MailInv'
    <2>1. CASE keepInbox
      BY <1>2, <2>1, MailUnmoved DEF Cancel, work
    <2>2. CASE ~keepInbox
      <3>1. NextTurn' = <<>> /\ NextStep' = <<>>
        BY <1>2, <2>2 DEF Cancel, NextTurn, NextStep, Targets
      <3>2. Pending' = {} /\ Unique'
        BY <3>1 DEF Pending, Unique, ToSet, IsInjective
      <3> QED
        BY <1>2, <3>2, MailKept DEF Cancel, work
    <2> QED
      BY <2>1, <2>2
  <1>3. ASSUME NEW target \in Targets, NEW i \in DOMAIN inbox[target], TakeBack(target, i)
        PROVE  MailInv'
    <2> DEFINE rest == RemoveAt(inbox[target], i)
    <2>1. /\ inbox[target] = (IF target = "next-turn" THEN NextTurn ELSE NextStep)
          /\ inbox[target] \in Seq(Messages)
      BY Boxes DEF Targets, NextTurn, NextStep
    <2>2. ToSet(rest) \subseteq ToSet(inbox[target])
      BY <2>1, ElementsOfRemoveAt
    <2>3. IsInjective(rest)
      BY <2>1, DistinctRemoveAt DEF MailInv
    <2>4. /\ NextTurn' = IF target = "next-turn" THEN rest ELSE NextTurn
          /\ NextStep' = IF target = "next-step" THEN rest ELSE NextStep
      BY <1>3, Boxes DEF TakeBack
    <2> HIDE DEF rest
    <2>5. Unique' /\ Pending' \subseteq Pending
      <3>1. CASE target = "next-turn"
        BY <3>1, <2>1, <2>2, <2>3, <2>4 DEF Unique, MailInv, Pending
      <3>2. CASE target = "next-step"
        BY <3>2, <2>1, <2>2, <2>3, <2>4 DEF Unique, MailInv, Pending
      <3> QED
        BY <3>1, <3>2 DEF Targets
    <2> QED
      BY <1>3, <2>5, MailKept DEF TakeBack, control, work, history
  <1>4. CASE MaintenanceStarts
    BY <1>4, MailUnmoved DEF MaintenanceStarts, work, mail
  <1>5. CASE WaitBegins
    BY <1>5, MailUnmoved DEF WaitBegins, control, work, mail, history
  <1> QED
    BY <1>1, <1>2, <1>3, <1>4, <1>5 DEF CallerStep

LEMMA MailTurn ==
    ASSUME TypeOK, StepInv, MailInv, TurnStep
    PROVE  MailInv'
  <1>1. CASE TurnStart
    BY <1>1, MailUnmoved DEF TurnStart, mail
  <1>2. CASE TurnStartRejected
    BY <1>2, MailUnmoved DEF TurnStartRejected, work, mail
  <1>3. CASE AbortedBeforeTurn
    BY <1>3, MailUnmoved DEF AbortedBeforeTurn, work, mail, history
  <1>4. CASE FirstProposal
    BY <1>4, ClaimKeepsMail DEF FirstProposal, MailInv
  <1>5. CASE TurnThrows
    BY <1>5, MailUnmoved DEF TurnThrows, FailTurn, CloseTurn, mail, history
  <1>6. CASE Rejected
    BY <1>6, MailUnmoved DEF Rejected, CloseTurn, mail, history
  <1>7. CASE EnteredEmpty
    BY <1>7, MailUnmoved DEF EnteredEmpty, CloseTurn, mail, history
  <1>8. ASSUME NEW kept \in SUBSET batch, NEW extra \in BOOLEAN, StepStart(kept, extra)
        PROVE  MailInv'
    BY <1>8, MailUnmoved DEF StepStart, mail, history
  <1>9. CASE AfterStepThrows
    BY <1>9, MailUnmoved DEF AfterStepThrows, FailTurn, CloseTurn, mail, history
  <1>10. CASE AskToStop
    BY <1>10, MailUnmoved DEF AskToStop, work, mail, history
  <1>11. CASE ProposeAgain
    BY <1>11, ClaimKeepsMail DEF ProposeAgain, StepInv
  <1>12. CASE Stop
    BY <1>12, MailUnmoved DEF Stop, CloseTurn, mail, history
  <1>13. CASE CloseFailedTurn
    BY <1>13, MailUnmoved DEF CloseFailedTurn, CloseTurn, mail, history
  <1>14. CASE NextQueuedTurn
    BY <1>14, MailUnmoved DEF NextQueuedTurn, work, mail
  <1>15. CASE QueueDrained
    BY <1>15, MailUnmoved DEF QueueDrained, work, mail, history
  <1>16. CASE Leave
    BY <1>16, MailUnmoved DEF Leave, StartDriver, GoIdle, work, mail, None
  <1> QED
    BY <1>1, <1>2, <1>3, <1>4, <1>5, <1>6, <1>7, <1>8, <1>9, <1>10, <1>11,
       <1>12, <1>13, <1>14, <1>15, <1>16 DEF TurnStep

LEMMA MailModel ==
    ASSUME TypeOK, StepInv, MailInv, ModelStep
    PROVE  MailInv'
  <1>1. CASE RequestPrepared
    <2>1. Pending' = Pending /\ UNCHANGED <<NextTurn, NextStep>>
      BY <1>1, PendingUnchanged DEF RequestPrepared, mail, NextTurn, NextStep
    <2>2. /\ UNCHANGED <<batch, attempt, sent, logged, prompts>>
          /\ pc = "preparing" /\ pc' = "admitting"
      BY <1>1 DEF RequestPrepared, mail, history
    <2>3. entering' \subseteq batch /\ \A m \in entering' : logged[m] = 0
      BY <1>1, <2>2 DEF RequestPrepared, Admitted, MailInv
    <2> QED
      BY <2>1, <2>2, <2>3 DEF MailInv, AdmittedOnce
  <1>13. CASE BuildRequest
    BY <1>13, MailUnmoved DEF BuildRequest, work, mail, history
  <1>14. ASSUME NEW m \in Messages, AdmitMessage(m)
         PROVE  MailInv'
    <2>1. Pending' = Pending /\ UNCHANGED <<NextTurn, NextStep>>
      BY <1>14, PendingUnchanged DEF AdmitMessage, NextTurn, NextStep
    <2>2. /\ UNCHANGED <<batch, sent, prompts, pc>> /\ pc = "admitting"
          /\ entering' = entering \ {m}
          /\ logged' = [logged EXCEPT ![m] = @ + 1]
      BY <1>14 DEF AdmitMessage, control, history
    <2>3. m \in batch /\ logged[m] = 0 /\ m \in sent /\ m \notin Pending
      BY <1>14 DEF AdmitMessage, MailInv
    <2>4. logged'[m] = 1 /\ \A other \in Messages \ {m} : logged'[other] = logged[other]
      BY <2>2, <2>3 DEF TypeOK
    <2>5. ASSUME NEW other \in Messages
          PROVE  /\ logged'[other] <= 1
                 /\ logged'[other] = 1 => other \notin Pending'
                 /\ other \notin sent' => logged'[other] = 0
      BY <2>1, <2>2, <2>3, <2>4 DEF MailInv, AdmittedOnce
    <2>6. entering' \subseteq batch' /\ \A other \in entering' : logged'[other] = 0
      BY <2>2, <2>4 DEF MailInv, TypeOK
    <2> QED
      BY <2>1, <2>2, <2>5, <2>6 DEF MailInv, AdmittedOnce
  <1>2. CASE StepThrows
    BY <1>2, MailUnmoved DEF StepThrows, CloseStep, mail
  <1>3. CASE RequestFails
    BY <1>3, MailUnmoved DEF RequestFails, work, mail, history
  <1>4. CASE Retry
    <2>1. attempt' # 1 /\ pc' = "preparing"
      BY <1>4 DEF Retry, StepInv, InStep, TypeOK
    <2> QED
      BY <1>4, <2>1, MailUnmoved DEF Retry, mail, history
  <1>5. ASSUME NEW stepEnd \in {"completed", "max-tokens"}, ModelFinishes(stepEnd)
        PROVE  MailInv'
    BY <1>5, MailUnmoved DEF ModelFinishes, StepReturns, CloseStep, mail
  <1>6. ASSUME NEW requested \in SUBSET Calls \ {{}}, ModelRequestsTools(requested)
        PROVE  MailInv'
    BY <1>6, MailUnmoved DEF ModelRequestsTools, mail, history
  <1>7. ASSUME NEW c \in Calls, CallStarts(c) \/ RecoverResult(c)
        PROVE  MailInv'
    BY <1>7, MailUnmoved DEF CallStarts, RecoverResult, control, mail, history
  <1>8. ASSUME NEW c \in Calls, CallSettles(c, <<>>)
        PROVE  MailInv'
    <2>1. NextStep \in Seq(Messages) /\ NextStep \o <<>> = NextStep
      BY Boxes
    <2>2. inbox' = inbox
      BY <1>8, <2>1 DEF CallSettles, NextStep, TypeOK, Targets
    <2>3. sent' = sent
      BY <1>8 DEF CallSettles, ToSet
    <2> QED
      BY <1>8, <2>2, <2>3, MailUnmoved DEF CallSettles, control, history
  <1>9. ASSUME NEW c \in Calls, NEW m \in Messages, CallSettles(c, <<m>>)
        PROVE  MailInv'
    <2>1. ToSet(<<m>>) = {m}
      BY DEF ToSet
    <2>2. inbox["next-step"] \in Seq(Messages)
      BY DEF TypeOK, Targets
    <2>3. inbox["next-step"] \o <<m>> = Append(inbox["next-step"], m)
      BY <2>2
    <2>4. /\ inbox' = [inbox EXCEPT !["next-step"] = Append(@, m)]
          /\ sent' = sent \union {m} /\ m \notin sent
      BY <1>9, <2>1, <2>3 DEF CallSettles
    <2> QED
      BY <1>9, <2>4, PostKeepsMail DEF CallSettles, control, history, Targets
  <1>10. ASSUME NEW concluded \in BOOLEAN, ToolsDone(concluded)
         PROVE  MailInv'
    BY <1>10, MailUnmoved DEF ToolsDone, StepReturns, CloseStep, mail
  <1>11. CASE SchedulerFails
    BY <1>11, MailUnmoved DEF SchedulerFails, work, mail, history
  <1>12. CASE StepUnwound
    BY <1>12, MailUnmoved DEF StepUnwound, CloseStep, mail
  <1> QED
    BY <1>1, <1>2, <1>3, <1>4, <1>5, <1>6, <1>7, <1>8, <1>9, <1>10, <1>11, <1>12, <1>13,
       <1>14 DEF ModelStep

LEMMA MailInductive ==
    ASSUME TypeOK, PhaseInv, StepInv, MailInv, [Next]_vars
    PROVE  MailInv'
  <1>1. CASE DriverStep
    BY <1>1, MailTurn, MailModel DEF DriverStep
  <1>2. CASE CallerStep
    BY <1>2, MailCaller
  <1>3. CASE MaintenanceEnds
    <2>1. pc = None /\ pc' \in {"boundary", None}
      BY <1>3 DEF MaintenanceEnds, StartDriver, GoIdle, PhaseInv
    <2>2. UNCHANGED <<work, mail, prompts>>
      BY <1>3 DEF MaintenanceEnds
    <2> QED
      BY <2>1, <2>2, MailUnmoved DEF work, mail, None
  <1>4. CASE WaitLooksAgain \/ WaitResolves \/ UNCHANGED vars
    BY <1>4, MailUnmoved DEF WaitLooksAgain, WaitResolves, vars, control, work, mail, history
  <1> QED
    BY <1>1, <1>2, <1>3, <1>4 DEF Next

LEMMA StepAndMailHold == Spec => [](StepInv /\ MailInv)
  <1>1. Init => StepInv /\ MailInv
    <2> SUFFICES ASSUME Init
                 PROVE  StepInv /\ MailInv
      OBVIOUS
    <2>1. NextTurn = <<>> /\ NextStep = <<>>
      BY DEF Init, NextTurn, NextStep, Targets
    <2>2. Pending = {} /\ Unique
      BY <2>1 DEF Pending, Unique, ToSet, IsInjective
    <2>3. StepInv
      BY DEF Init, StepInv, NoCalls, Requested, InTurn, InStep, None
    <2>4. /\ batch = {} /\ entering = {} /\ prompts = 0 /\ sent = {} /\ pc = None
          /\ \A m \in Messages : logged[m] = 0
      BY DEF Init
    <2>5. MailInv
      BY <2>2, <2>4 DEF MailInv, AdmittedOnce, Unique, None
    <2> QED
      BY <2>3, <2>5
  <1>2. TypeOK /\ PhaseInv /\ StepInv /\ MailInv /\ [Next]_vars => (StepInv /\ MailInv)'
    BY StepInductive, MailInductive
  <1> QED
    BY <1>1, <1>2, TypeCorrect, SafetyHolds, PTL DEF Spec

\* However often requests are retried, turns fail or callers edit the inbox, a
\* message enters the model-visible history at most once, never while it is still
\* pending, and a queued prompt has a turn of its own.
THEOREM MessagesEnterOnce == Spec => []AdmittedOnce
  <1>1. MailInv => AdmittedOnce
    BY DEF MailInv
  <1> QED
    BY <1>1, StepAndMailHold, PTL

-----------------------------------------------------------------------------
(* The log grammar.  Every step of AgentDriver maps to a step of SessionTrace *)
(* or to a stutter, under the refinement mapping AgentDriver declares as      *)
(* Trace.  The whole invariant of the driver bounds what a step may do.      *)


\* The part of the phase invariant this argument needs.
PcInv == phase = "running" <=> pc # None

-----------------------------------------------------------------------------
(* LogInv is inductive. *)

\* A step that moves the driver between two points and touches neither its
\* counters nor its calls keeps LogInv if the new point asks for no more.
LEMMA LogKept ==
    ASSUME LogInv, UNCHANGED <<turn, step, calls, logNextStep>>,
           pc' \in InTurn => pc \in InTurn,
           pc' \in InStep => pc \in InStep,
           pc' = "boundary" => pc = "boundary",
           pc' \in {"opened", "proposing", "stepClosed", "stopping"} =>
              pc \in {"opened", "proposing", "stepClosed", "stopping"},
           pc \in {"calling", "unwinding"} => pc' \in {"calling", "unwinding"}
    PROVE  LogInv'
  BY DEF LogInv, Started

\* The two ways an activity closes or opens keep LogInv.
LEMMA LogAtActivityEdge ==
    ASSUME LogInv, StartDriver \/ GoIdle, UNCHANGED <<calls, logNextStep>>,
           pc \notin {"calling", "unwinding"}
    PROVE  LogInv'
  BY DEF LogInv, StartDriver, GoIdle, InTurn, InStep, Started, None

\* Closing a step counts it in the log.
LEMMA LogAtStepEnd ==
    ASSUME TypeOK, LogInv, NEW threw \in BOOLEAN, CloseStep(threw),
           pc \in InStep, UNCHANGED <<turn, step, calls>>, Started = {}
    PROVE  LogInv'
  BY DEF LogInv, CloseStep, InTurn, InStep, Started, TypeOK

LEMMA LogCaller ==
    ASSUME TypeOK, PcInv, LogInv, CallerStep
    PROVE  LogInv'
  <1>1. ASSUME NEW m \in Messages, NEW target \in Targets, NEW wakeup \in BOOLEAN,
               Send(m, target, wakeup)
        PROVE  LogInv'
    <2>1. CASE UNCHANGED control
      BY <1>1, <2>1, LogKept DEF Send, control, work
    <2>2. CASE phase = "idle" /\ StartDriver
      BY <1>1, <2>2, LogAtActivityEdge DEF Send, work, PcInv, None
    <2>3. CASE UNCHANGED <<phase, pc, turn, step, abort, asked, waiter>>
      BY <1>1, <2>3, LogKept DEF Send, work
    <2> QED
      BY <1>1, <2>1, <2>2, <2>3 DEF Send, WakeDriver
  <1>2. ASSUME NEW cause \in Causes, NEW keepInbox \in BOOLEAN, Cancel(cause, keepInbox)
        PROVE  LogInv'
    BY <1>2, LogKept DEF Cancel, work
  <1>3. ASSUME NEW target \in Targets, NEW i \in DOMAIN inbox[target], TakeBack(target, i)
        PROVE  LogInv'
    BY <1>3, LogKept DEF TakeBack, control, work, history
  <1>4. CASE MaintenanceStarts
    BY <1>4, LogKept DEF MaintenanceStarts, work
  <1>5. CASE WaitBegins
    BY <1>5, LogKept DEF WaitBegins, control, work, history
  <1> QED
    BY <1>1, <1>2, <1>3, <1>4, <1>5 DEF CallerStep

LEMMA LogTurn ==
    ASSUME TypeOK, LogInv, TurnStep
    PROVE  LogInv'
  <1> USE DEF InTurn, InStep
  <1>1. CASE TurnStart
    BY <1>1 DEF TurnStart, LogInv, Started, TypeOK
  <1>2. CASE TurnStartRejected
    BY <1>2, LogKept DEF TurnStartRejected, work
  <1>3. CASE AbortedBeforeTurn
    BY <1>3, LogKept DEF AbortedBeforeTurn, work, history
  <1>4. CASE FirstProposal
    BY <1>4, LogKept DEF FirstProposal, Propose
  <1>5. CASE TurnThrows
    BY <1>5, LogKept DEF TurnThrows, FailTurn, CloseTurn, history
  <1>6. CASE Rejected
    BY <1>6, LogKept DEF Rejected, CloseTurn, history
  <1>7. CASE EnteredEmpty
    BY <1>7, LogKept DEF EnteredEmpty, CloseTurn, history
  <1>8. ASSUME NEW kept \in SUBSET batch, NEW extra \in BOOLEAN, StepStart(kept, extra)
        PROVE  LogInv'
    <2>1. Started' = {}
      BY <1>8 DEF StepStart, NoCalls, Started
    <2> QED
      BY <1>8, <2>1 DEF StepStart, history, LogInv, TypeOK
  <1>9. CASE AfterStepThrows
    BY <1>9, LogKept DEF AfterStepThrows, FailTurn, CloseTurn, history
  <1>10. CASE AskToStop
    BY <1>10, LogKept DEF AskToStop, work, history
  <1>11. CASE ProposeAgain
    BY <1>11, LogKept DEF ProposeAgain, Propose
  <1>12. CASE Stop
    BY <1>12, LogKept DEF Stop, CloseTurn, history
  <1>13. CASE CloseFailedTurn
    BY <1>13, LogKept DEF CloseFailedTurn, CloseTurn, history
  <1>14. CASE NextQueuedTurn
    BY <1>14 DEF NextQueuedTurn, work, LogInv, Started
  <1>15. CASE QueueDrained
    BY <1>15, LogKept DEF QueueDrained, work, history
  <1>16. CASE Leave
    BY <1>16, LogAtActivityEdge DEF Leave, work
  <1> QED
    BY <1>1, <1>2, <1>3, <1>4, <1>5, <1>6, <1>7, <1>8, <1>9, <1>10, <1>11,
       <1>12, <1>13, <1>14, <1>15, <1>16 DEF TurnStep

LEMMA LogModel ==
    ASSUME TypeOK, LogInv, ModelStep
    PROVE  LogInv'
  <1> USE DEF InTurn, InStep
  <1>1. CASE RequestPrepared
    BY <1>1, LogKept DEF RequestPrepared, history
  <1>12. CASE BuildRequest
    BY <1>12, LogKept DEF BuildRequest, work, history
  <1>13. ASSUME NEW m \in Messages, AdmitMessage(m)
         PROVE  LogInv'
    BY <1>13, LogKept DEF AdmitMessage, control, history
  <1>2. CASE StepThrows
    BY <1>2, LogAtStepEnd DEF StepThrows, LogInv
  <1>3. CASE RequestFails
    BY <1>3, LogKept DEF RequestFails, work, history
  <1>4. CASE Retry
    BY <1>4, LogKept DEF Retry, history
  <1>5. ASSUME NEW stepEnd \in {"completed", "max-tokens"}, ModelFinishes(stepEnd)
        PROVE  LogInv'
    BY <1>5, LogAtStepEnd DEF ModelFinishes, StepReturns, LogInv
  <1>6. ASSUME NEW requested \in SUBSET Calls \ {{}}, ModelRequestsTools(requested)
        PROVE  LogInv'
    BY <1>6 DEF ModelRequestsTools, history, LogInv, Started
  <1>7. ASSUME NEW c \in Calls, CallStarts(c) \/ RecoverResult(c)
        PROVE  LogInv'
    BY <1>7 DEF CallStarts, RecoverResult, control, history, LogInv
  <1>8. ASSUME NEW c \in Calls, NEW contexts \in {<<>>} \union {<<m>> : m \in Messages},
               CallSettles(c, contexts)
        PROVE  LogInv'
    BY <1>8 DEF CallSettles, control, history, LogInv
  <1>9. ASSUME NEW concluded \in BOOLEAN, ToolsDone(concluded)
        PROVE  LogInv'
    BY <1>9, LogAtStepEnd DEF ToolsDone, StepReturns
  <1>10. CASE SchedulerFails
    BY <1>10, LogKept DEF SchedulerFails, work, history
  <1>11. CASE StepUnwound
    BY <1>11, LogAtStepEnd DEF StepUnwound
  <1> QED
    BY <1>1, <1>2, <1>3, <1>4, <1>5, <1>6, <1>7, <1>8, <1>9, <1>10, <1>11, <1>12, <1>13
       DEF ModelStep

LEMMA LogInductive ==
    ASSUME TypeOK, PcInv, LogInv, [Next]_vars
    PROVE  LogInv'
  <1>1. CASE DriverStep
    BY <1>1, LogTurn, LogModel DEF DriverStep
  <1>2. CASE CallerStep
    BY <1>2, LogCaller
  <1>3. CASE MaintenanceEnds
    BY <1>3, LogAtActivityEdge DEF MaintenanceEnds, PcInv, work, None
  <1>4. CASE WaitLooksAgain \/ WaitResolves \/ UNCHANGED vars
    BY <1>4, LogKept DEF WaitLooksAgain, WaitResolves, vars, control, work, history
  <1> QED
    BY <1>1, <1>2, <1>3, <1>4 DEF Next

\* The whole inductive invariant of the driver, of which the model-checked
\* safety properties are consequences.
THEOREM DriverInvariant == Spec => []DriverInv
  <1>1. Init => LogInv
    BY DEF Init, LogInv, NoCalls, Started, InTurn, InStep, None
  <1>2. TypeOK /\ PhaseInv /\ LogInv /\ [Next]_vars => LogInv'
    BY LogInductive DEF PhaseInv, PcInv
  <1> QED
    BY <1>1, <1>2, TypeCorrect, SafetyHolds, StepAndMailHold, PTL DEF Spec, DriverInv

-----------------------------------------------------------------------------
(* Every step is a step of the grammar or a stutter. *)

\* What a step that stays inside, or outside, a turn and a step leaves alone.
LEMMA TraceUnmoved ==
    ASSUME UNCHANGED <<turn, logNextStep>>, Started' = Started,
           pc' \in InTurn <=> pc \in InTurn,
           pc' \in InStep <=> pc \in InStep,
           pc \in InStep => step' = step
    PROVE  UNCHANGED Trace!trace
  BY DEF Trace!trace

\* Leaving the open turn, between two steps, is turn/end.
LEMMA TurnEndRefines ==
    ASSUME TypeOK, LogInv, UNCHANGED <<turn, logNextStep, calls>>,
           pc \in InTurn, pc \notin InStep, pc' \notin InTurn
    PROVE  Trace!TurnEnds
  <1>1. pc' \notin InStep
    BY DEF InTurn
  <1>2. turn > 0 /\ turn \in Nat
    BY DEF LogInv, TypeOK
  <1>3. Started' = Started
    BY DEF Started
  <1> QED
    BY <1>1, <1>2, <1>3 DEF Trace!TurnEnds, Trace!NotOpen

\* CloseStep is step/end.
LEMMA StepEndRefines ==
    ASSUME TypeOK, LogInv, NEW threw \in BOOLEAN, CloseStep(threw),
           pc \in InStep, UNCHANGED <<turn, step, calls>>, Started = {}
    PROVE  Trace!StepEnds
  <1>1. pc \in InTurn /\ pc' \in InTurn /\ pc' \notin InStep
    BY DEF CloseStep, InTurn, InStep
  <1>2. turn > 0 /\ step > 0
    BY <1>1 DEF LogInv
  <1>3. Started' = {}
    BY DEF Started
  <1> QED
    BY <1>1, <1>2, <1>3 DEF Trace!StepEnds, Trace!NotOpen, CloseStep, TypeOK

LEMMA CallerRefines ==
    ASSUME PcInv, CallerStep
    PROVE  UNCHANGED Trace!trace
  <1> USE DEF InTurn, InStep
  <1>1. ASSUME NEW m \in Messages, NEW target \in Targets, NEW wakeup \in BOOLEAN,
               Send(m, target, wakeup)
        PROVE  UNCHANGED Trace!trace
    <2>1. UNCHANGED <<turn, logNextStep>> /\ Started' = Started
      BY <1>1 DEF Send, WakeDriver, StartDriver, control, work, Started
    <2>2. CASE UNCHANGED <<pc, step>>
      BY <2>1, <2>2, TraceUnmoved
    <2>3. CASE phase = "idle" /\ StartDriver
      BY <2>1, <2>3, TraceUnmoved DEF StartDriver, PcInv, None
    <2> QED
      BY <1>1, <2>2, <2>3 DEF Send, WakeDriver, control
  <1>2. ASSUME NEW cause \in Causes, NEW keepInbox \in BOOLEAN, Cancel(cause, keepInbox)
        PROVE  UNCHANGED Trace!trace
    BY <1>2, TraceUnmoved DEF Cancel, work, Started
  <1>3. ASSUME NEW target \in Targets, NEW i \in DOMAIN inbox[target], TakeBack(target, i)
        PROVE  UNCHANGED Trace!trace
    BY <1>3, TraceUnmoved DEF TakeBack, control, work, history, Started
  <1>4. CASE MaintenanceStarts
    BY <1>4, TraceUnmoved DEF MaintenanceStarts, work, Started
  <1>5. CASE WaitBegins
    BY <1>5, TraceUnmoved DEF WaitBegins, control, work, history, Started
  <1> QED
    BY <1>1, <1>2, <1>3, <1>4, <1>5 DEF CallerStep

LEMMA TurnRefines ==
    ASSUME TypeOK, LogInv, TurnStep
    PROVE  Trace!TraceNext \/ UNCHANGED Trace!trace
  <1> USE DEF InTurn, InStep
  <1>1. CASE TurnStart
    <2>1. Started' = Started
      BY <1>1 DEF TurnStart, Started
    <2>2. Trace!TurnStarts
      BY <1>1, <2>1 DEF TurnStart, Trace!TurnStarts, Trace!NotOpen, TypeOK
    <2> QED
      BY <2>2 DEF Trace!TraceNext
  <1>2. CASE TurnStartRejected
    BY <1>2, TraceUnmoved DEF TurnStartRejected, work, Started
  <1>3. CASE AbortedBeforeTurn
    BY <1>3, TraceUnmoved DEF AbortedBeforeTurn, work, history, Started
  <1>4. CASE FirstProposal
    BY <1>4, TraceUnmoved DEF FirstProposal, Propose, Started
  <1>5. CASE TurnThrows
    <2>1. UNCHANGED <<turn, logNextStep, calls>>
      BY <1>5 DEF TurnThrows, history
    <2>2. CASE pc' = "leaving"
      BY <1>5, <2>1, <2>2, TurnEndRefines DEF TurnThrows, Trace!TraceNext
    <2>3. CASE pc' = "erroring"
      BY <1>5, <2>1, <2>3, TraceUnmoved DEF TurnThrows, Started
    <2> QED
      BY <1>5, <2>2, <2>3 DEF TurnThrows, FailTurn, CloseTurn
  <1>6. CASE Rejected
    BY <1>6, TurnEndRefines DEF Rejected, CloseTurn, history, Trace!TraceNext
  <1>7. CASE EnteredEmpty
    BY <1>7, TurnEndRefines DEF EnteredEmpty, CloseTurn, history, Trace!TraceNext
  <1>8. ASSUME NEW kept \in SUBSET batch, NEW extra \in BOOLEAN, StepStart(kept, extra)
        PROVE  Trace!TraceNext
    <2>1. Started' = {} /\ Started = {}
      BY <1>8 DEF StepStart, NoCalls, Started, LogInv
    <2>2. turn > 0 /\ logNextStep = step + 1
      BY <1>8 DEF StepStart, LogInv
    <2>3. Trace!StepStarts
      BY <1>8, <2>1, <2>2 DEF StepStart, history, Trace!StepStarts, Trace!NotOpen, TypeOK
    <2> QED
      BY <2>3 DEF Trace!TraceNext
  <1>9. CASE AfterStepThrows
    <2>1. UNCHANGED <<turn, logNextStep, calls>>
      BY <1>9 DEF AfterStepThrows, history
    <2>2. CASE pc' = "leaving"
      BY <1>9, <2>1, <2>2, TurnEndRefines DEF AfterStepThrows, Trace!TraceNext
    <2>3. CASE pc' = "erroring"
      BY <1>9, <2>1, <2>3, TraceUnmoved DEF AfterStepThrows, Started
    <2> QED
      BY <1>9, <2>2, <2>3 DEF AfterStepThrows, FailTurn, CloseTurn
  <1>10. CASE AskToStop
    BY <1>10, TraceUnmoved DEF AskToStop, work, history, Started
  <1>11. CASE ProposeAgain
    BY <1>11, TraceUnmoved DEF ProposeAgain, Propose, Started
  <1>12. CASE Stop
    BY <1>12, TurnEndRefines DEF Stop, CloseTurn, history, Trace!TraceNext
  <1>13. CASE CloseFailedTurn
    BY <1>13, TurnEndRefines DEF CloseFailedTurn, CloseTurn, history, Trace!TraceNext
  <1>14. CASE NextQueuedTurn
    BY <1>14, TraceUnmoved DEF NextQueuedTurn, work, Started
  <1>15. CASE QueueDrained
    BY <1>15, TraceUnmoved DEF QueueDrained, work, history, Started
  <1>16. CASE Leave
    BY <1>16, TraceUnmoved DEF Leave, StartDriver, GoIdle, work, Started, None
  <1> QED
    BY <1>1, <1>2, <1>3, <1>4, <1>5, <1>6, <1>7, <1>8, <1>9, <1>10, <1>11,
       <1>12, <1>13, <1>14, <1>15, <1>16 DEF TurnStep

\* A call leaves the started set only by its result, which is recorded inside
\* the step that requested it.
LEMMA ResultRefines ==
    ASSUME TypeOK, LogInv, NEW c \in Calls, calls[c] = "started",
           calls' = [calls EXCEPT ![c] = "answered"],
           UNCHANGED <<turn, step, pc, logNextStep>>, pc \in InStep
    PROVE  Trace!ResultRecorded(c)
  <1>1. pc \in InTurn
    BY DEF InTurn
  <1>2. Started' = Started \ {c} /\ c \in Started
    BY DEF Started, TypeOK
  <1>3. turn > 0 /\ step > 0
    BY <1>1 DEF LogInv
  <1> QED
    BY <1>1, <1>2, <1>3 DEF Trace!ResultRecorded, Trace!NotOpen

LEMMA ModelRefines ==
    ASSUME TypeOK, LogInv, ModelStep
    PROVE  Trace!TraceNext \/ UNCHANGED Trace!trace
  <1> USE DEF InTurn, InStep
  <1>1. CASE RequestPrepared
    BY <1>1, TraceUnmoved DEF RequestPrepared, history, Started
  <1>13. CASE BuildRequest
    BY <1>13, TraceUnmoved DEF BuildRequest, work, history, Started
  <1>14. ASSUME NEW m \in Messages, AdmitMessage(m)
         PROVE  UNCHANGED Trace!trace
    BY <1>14, TraceUnmoved DEF AdmitMessage, control, history, Started
  <1>2. CASE StepThrows
    BY <1>2, StepEndRefines DEF StepThrows, LogInv, Trace!TraceNext
  <1>3. CASE RequestFails
    BY <1>3, TraceUnmoved DEF RequestFails, work, history, Started
  <1>4. CASE Retry
    BY <1>4, TraceUnmoved DEF Retry, history, Started
  <1>5. ASSUME NEW stepEnd \in {"completed", "max-tokens"}, ModelFinishes(stepEnd)
        PROVE  Trace!TraceNext
    BY <1>5, StepEndRefines DEF ModelFinishes, StepReturns, LogInv, Trace!TraceNext
  <1>6. ASSUME NEW requested \in SUBSET Calls \ {{}}, ModelRequestsTools(requested)
        PROVE  UNCHANGED Trace!trace
    <2>1. Started' = {} /\ Started = {}
      BY <1>6 DEF ModelRequestsTools, LogInv, Started
    <2> QED
      BY <1>6, <2>1, TraceUnmoved DEF ModelRequestsTools, history
  <1>7. ASSUME NEW c \in Calls, CallStarts(c)
        PROVE  Trace!TraceNext
    <2>1. Started' = Started \union {c}
      BY <1>7 DEF CallStarts, Started, TypeOK
    <2>2. turn > 0 /\ step > 0
      BY <1>7 DEF CallStarts, LogInv
    <2>3. Trace!CallRecorded(c)
      BY <1>7, <2>1, <2>2
         DEF CallStarts, control, history, Trace!CallRecorded, Trace!NotOpen
    <2> QED
      BY <2>3 DEF Trace!TraceNext
  <1>8. ASSUME NEW c \in Calls, RecoverResult(c)
        PROVE  Trace!TraceNext \/ UNCHANGED Trace!trace
    <2>1. CASE calls[c] = "started"
      <3>1. Trace!ResultRecorded(c)
        BY <1>8, <2>1, ResultRefines DEF RecoverResult, control, history
      <3> QED
        BY <3>1 DEF Trace!TraceNext
    <2>2. CASE calls[c] = "requested"
      <3>1. Started' = Started
        BY <1>8, <2>2 DEF RecoverResult, Started, TypeOK
      <3> QED
        BY <1>8, <3>1, TraceUnmoved DEF RecoverResult, control, history
    <2> QED
      BY <1>8, <2>1, <2>2 DEF RecoverResult
  <1>9. ASSUME NEW c \in Calls, NEW contexts \in {<<>>} \union {<<m>> : m \in Messages},
               CallSettles(c, contexts)
        PROVE  Trace!TraceNext
    <2>1. Trace!ResultRecorded(c)
      BY <1>9, ResultRefines DEF CallSettles, control, history
    <2> QED
      BY <2>1 DEF Trace!TraceNext
  <1>10. ASSUME NEW concluded \in BOOLEAN, ToolsDone(concluded)
         PROVE  Trace!TraceNext
    BY <1>10, StepEndRefines DEF ToolsDone, StepReturns, Trace!TraceNext
  <1>11. CASE SchedulerFails
    BY <1>11, TraceUnmoved DEF SchedulerFails, work, history, Started
  <1>12. CASE StepUnwound
    BY <1>12, StepEndRefines DEF StepUnwound, Trace!TraceNext
  <1> QED
    BY <1>1, <1>2, <1>3, <1>4, <1>5, <1>6, <1>7, <1>8, <1>9, <1>10, <1>11, <1>12, <1>13,
       <1>14 DEF ModelStep

\* The driver implements the log grammar: whatever callers, listeners, the
\* model and the tools do, the relational invariant of the session accepts
\* every boundary and tool event the driver appends, in the order it does.
THEOREM DriverWritesValidLogs == Spec => RefinesTrace
  <1>1. Init => Trace!TraceInit
    BY DEF Init, Trace!TraceInit, Trace!NotOpen, NoCalls, Started, InTurn, InStep, None
  <1>2. TypeOK /\ DriverInv /\ [Next]_vars => [Trace!TraceNext]_(Trace!trace)
    <2> SUFFICES ASSUME TypeOK, PhaseInv, LogInv, [Next]_vars
                 PROVE  [Trace!TraceNext]_(Trace!trace)
      BY DEF DriverInv
    <2>1. PcInv
      BY DEF PhaseInv, PcInv
    <2>2. CASE DriverStep
      BY <2>2, TurnRefines, ModelRefines DEF DriverStep
    <2>3. CASE CallerStep
      BY <2>1, <2>3, CallerRefines
    <2>4. CASE MaintenanceEnds
      BY <2>1, <2>4, TraceUnmoved
         DEF MaintenanceEnds, StartDriver, GoIdle, work, Started, PcInv, InTurn, InStep, None
    <2>5. CASE WaitLooksAgain \/ WaitResolves \/ UNCHANGED vars
      BY <2>5, TraceUnmoved
         DEF WaitLooksAgain, WaitResolves, vars, control, work, history, Started
    <2> QED
      BY <2>2, <2>3, <2>4, <2>5 DEF Next
  <1> QED
    BY <1>1, <1>2, TypeCorrect, DriverInvariant, PTL DEF Spec, RefinesTrace, Trace!TraceSpec

-----------------------------------------------------------------------------
(* What a step may never do. *)

\* Callers and the end of maintenance leave a running driver where it is.
LEMMA OnlyTheDriverMovesIt ==
    ASSUME DriverInv, [Next]_vars, pc # None
    PROVE  pc' = pc \/ TurnStep \/ ModelStep
  <1>1. phase = "running"
    BY DEF DriverInv, PhaseInv
  <1>2. CallerStep => pc' = pc
    BY <1>1 DEF CallerStep, Send, WakeDriver, Cancel, TakeBack, MaintenanceStarts,
       WaitBegins, control
  <1> QED
    BY <1>1, <1>2
       DEF Next, DriverStep, MaintenanceEnds, WaitLooksAgain, WaitResolves, vars, control

\* An aborted activity opens no step, begins no batch and requests nothing; the
\* messages that still enter belong to the batch that was entering.
LEMMA AbortedStepIsQuiet ==
    ASSUME TypeOK, Aborted, [Next]_vars
    PROVE  /\ step' \in {step, 0}
           /\ pc' = "admitting" => pc = "admitting"
           /\ pc' = "streaming" => pc = "streaming"
           /\ \A m \in Messages : logged'[m] # logged[m] => m \in entering
  <1>1. CASE TurnStep
    BY <1>1 DEF TurnStep, TurnStart, TurnStartRejected, AbortedBeforeTurn, FirstProposal,
       Propose, TurnThrows, FailTurn, CloseTurn, Rejected, EnteredEmpty, StepStart,
       AfterStepThrows, AskToStop, ProposeAgain, Stop, CloseFailedTurn, NextQueuedTurn,
       QueueDrained, Leave, StartDriver, GoIdle, mail, None
  <1>5. ASSUME NEW m \in Messages, AdmitMessage(m)
        PROVE  /\ UNCHANGED <<step, pc>>
               /\ \A other \in Messages : logged'[other] # logged[other] => other \in entering
    BY <1>5 DEF AdmitMessage, control, TypeOK
  <1>2. CASE ModelStep
    BY <1>2, <1>5 DEF ModelStep, RequestPrepared, BuildRequest, StepThrows, RequestFails, Retry, ModelFinishes,
       StepReturns, CloseStep, ModelRequestsTools, CallStarts, RecoverResult, CallSettles,
       ToolsDone, SchedulerFails, StepUnwound, control, mail
  <1>3. CASE CallerStep
    BY <1>3 DEF CallerStep, Send, WakeDriver, StartDriver, Cancel, TakeBack,
       MaintenanceStarts, WaitBegins, control, mail
  <1>4. CASE MaintenanceEnds \/ WaitLooksAgain \/ WaitResolves \/ UNCHANGED vars
    BY <1>4 DEF MaintenanceEnds, StartDriver, GoIdle, WaitLooksAgain, WaitResolves,
       vars, control, mail, None
  <1> QED
    BY <1>1, <1>2, <1>3, <1>4 DEF Next, DriverStep

\* A step closes with its calls answered: either it has run none, or the
\* scheduler or the recovery left none behind.
LEMMA ClosedStepIsAnswered ==
    ASSUME TypeOK, DriverInv, [Next]_vars, pc \in InStep, pc' \notin InStep
    PROVE  \A c \in Calls : calls[c] \in {"none", "answered"}
  <1>1. Requested = {} /\ Started = {} => \A c \in Calls : calls[c] \in {"none", "answered"}
    BY DEF Requested, Started, TypeOK
  <1>2. pc \notin {"calling", "unwinding"} => Requested = {} /\ Started = {}
    BY DEF DriverInv, StepInv, LogInv
  <1>3. ~TurnStep
    BY DEF InStep, TurnStep, TurnStart, TurnStartRejected, AbortedBeforeTurn, FirstProposal,
       TurnThrows, Rejected, EnteredEmpty, StepStart, AfterStepThrows, AskToStop,
       ProposeAgain, Stop, CloseFailedTurn, NextQueuedTurn, QueueDrained, Leave
  <1>4. ModelStep => Requested = {} /\ Started = {}
    BY <1>2 DEF InStep, ModelStep, RequestPrepared, BuildRequest, AdmitMessage, StepThrows, RequestFails, Retry,
       ModelFinishes, ModelRequestsTools, CallStarts, RecoverResult, CallSettles,
       ToolsDone, SchedulerFails, StepUnwound, control
  <1>5. pc' = pc \/ TurnStep \/ ModelStep
    BY OnlyTheDriverMovesIt DEF InStep, None
  <1> QED
    BY <1>1, <1>3, <1>4, <1>5

\* A turn that met the token ceiling does not close as completed.
LEMMA CeilingSticks ==
    ASSUME TypeOK, DriverInv, [Next]_vars, pc \in InTurn, pc' \notin InTurn, ceiling
    PROVE  turnEnds' # "completed"
  <1>1. pc # "erroring" => turnEnds = "max-tokens"
    BY DEF DriverInv, StepInv
  <1>2. TurnStep => turnEnds' # "completed"
    BY <1>1 DEF InTurn, InStep, TurnStep, TurnStart, TurnStartRejected, AbortedBeforeTurn,
       FirstProposal, Propose, TurnThrows, FailTurn, CloseTurn, Rejected, EnteredEmpty,
       StepStart, AfterStepThrows, AskToStop, ProposeAgain, Stop, CloseFailedTurn,
       NextQueuedTurn, QueueDrained, Leave, None
  <1>3. ~ModelStep
    BY DEF InTurn, InStep, ModelStep, RequestPrepared, BuildRequest, AdmitMessage, StepThrows, RequestFails, Retry,
       ModelFinishes, StepReturns, CloseStep, ModelRequestsTools, CallStarts, RecoverResult,
       CallSettles, ToolsDone, SchedulerFails, StepUnwound, control
  <1>4. pc' = pc \/ TurnStep \/ ModelStep
    BY OnlyTheDriverMovesIt DEF InTurn, InStep, None
  <1> QED
    BY <1>2, <1>3, <1>4

\* Through retries, failures and aborts: an aborted activity opens no step, begins
\* to admit no batch and requests nothing, and only the rest of a batch that was
\* entering still enters; a closed step has answered every request; and a turn
\* that met the token ceiling reports it.
THEOREM StepsAreSound == Spec => StepsAreAccountedFor
  <1>1. TypeOK /\ [Next]_vars =>
            [Aborted => /\ step' \in {step, 0}
                        /\ pc' = "admitting" => pc = "admitting"
                        /\ pc' = "streaming" => pc = "streaming"
                        /\ \A m \in Messages : logged'[m] # logged[m] => m \in entering]_vars
    BY AbortedStepIsQuiet
  <1>2. TypeOK /\ DriverInv /\ [Next]_vars =>
            [(pc \in InStep /\ pc' \notin InStep) =>
                \A c \in Calls : calls[c] \in {"none", "answered"}]_vars
    BY ClosedStepIsAnswered
  <1>3. TypeOK /\ DriverInv /\ [Next]_vars =>
            [(pc \in InTurn /\ pc' \notin InTurn /\ ceiling) => turnEnds' # "completed"]_vars
    BY CeilingSticks
  <1> QED
    BY <1>1, <1>2, <1>3, TypeCorrect, DriverInvariant, PTL
       DEF Spec, StepsAreAccountedFor, AbortStopsTheModel, EveryRequestAnswered, CeilingIsReported
=============================================================================
