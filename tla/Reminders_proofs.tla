-------------------------- MODULE Reminders_proofs --------------------------
(***************************************************************************)
(* Proofs about Reminders, for every set of tasks, every interval and every  *)
(* bound.                                                                  *)
(***************************************************************************)
EXTENDS Reminders, TLAPS

-----------------------------------------------------------------------------
(* Arithmetic of the occurrences. *)

\* The latest occurrence of a task that is due is no earlier than its target.
LEMMA LatestIsLater ==
    ASSUME TypeOK, NEW t \in Tasks, due[t].at <= now
    PROVE  LatestOccurrence(t) \in Nat /\ due[t].at <= LatestOccurrence(t)
  <1>1. due[t].at \in Nat /\ now \in Nat
    BY DEF TypeOK, Record
  <1>2. CASE t \in Recurring
    <2>1. IntervalOf[t] \in Nat \ {0}
      BY <1>2, IntervalAssumption
    <2> DEFINE missed == (now - due[t].at) \div IntervalOf[t]
    <2>2. now - due[t].at \in Nat
      BY <1>1
    <2>3. missed \in Nat
      BY <2>1, <2>2
    <2>4. missed * IntervalOf[t] \in Nat
      BY <2>1, <2>3
    <2> HIDE DEF missed
    <2>5. LatestOccurrence(t) = due[t].at + missed * IntervalOf[t]
      BY <1>2 DEF LatestOccurrence, missed
    <2> QED
      BY <1>1, <2>4, <2>5
  <1>3. CASE t \notin Recurring
    BY <1>1, <1>3 DEF LatestOccurrence
  <1> QED
    BY <1>2, <1>3

-----------------------------------------------------------------------------
(* Type correctness. *)

LEMMA BlankType == Blank \in [Tasks -> Record]
  BY DEF Blank, Record, Status

LEMMA NoneType == [t \in Tasks |-> 0] \in [Tasks -> Nat]
  OBVIOUS

LEMMA TypeInit == Init => TypeOK
  <1>1. NoTimer \in Nat
    BY BoundsAssumption DEF NoTimer
  <1>2. 0 \in Nat /\ 1 \in Nat
    OBVIOUS
  <1> QED
    BY <1>1, <1>2, BlankType, NoneType, Zenon DEF Init, TypeOK

LEMMA RequestTypes ==
    ASSUME TypeOK, RequestDrive
    PROVE  /\ timer' \in Nat /\ requested' \in BOOLEAN
           /\ pc' \in {"none", "queued", "next", "resolving", "flushing", "committing", "looping",
                     "ending"}
           /\ admission' \in {"open", "closed", "refused"}
           /\ UNCHANGED <<up, stops, stopping>>
  <1>1. timer' = NoTimer /\ NoTimer \in Nat /\ UNCHANGED <<up, stops, stopping>>
    BY BoundsAssumption DEF NoTimer, RequestDrive
  <1>2. requested' \in BOOLEAN
    BY Zenon DEF RequestDrive, DriveAsked, DriveRefused
  <1>3. pc' \in {"none", "queued", "next", "resolving", "flushing", "committing", "looping",
                "ending"}
    BY DEF TypeOK, RequestDrive, DriveAsked, DriveRefused
  <1>4. admission' \in {"open", "closed", "refused"}
    BY DEF TypeOK, RequestDrive, DriveAsked, DriveRefused
  <1> QED
    BY <1>1, <1>2, <1>3, <1>4

LEMMA TypeStep ==
    ASSUME TypeOK, [Next]_vars
    PROVE  TypeOK'
  <1> USE DEF TypeOK, durable, clock, host, drive
  <1>0. NoTimer \in Nat
    BY BoundsAssumption DEF NoTimer
  <1>1. CASE Scan
    BY <1>0, <1>1 DEF Scan, Blank, Record, Status
  <1>2. CASE TakeGroup
    BY <1>0, <1>2 DEF TakeGroup, GroupOf, Due
  <1>3. CASE DriveEnds
    BY <1>0, <1>3 DEF DriveEnds, LeaveSlot, Blank, Record, Status, Active
  <1>4. CASE DriveStops
    BY <1>0, <1>4 DEF DriveStops, LeaveSlot, Blank, Record, Status
  <1>5. CASE ResolveFails
    BY <1>0, <1>5 DEF ResolveFails, GroupFails
  <1>6. CASE Resolved
    <2>1. \A t \in admitted' : LatestOccurrence(t) \in Nat
      BY <1>6, LatestIsLater DEF Resolved
    <2>2. occurrence' \in [Tasks -> Nat]
      BY <1>6, <2>1 DEF Resolved
    <2> QED
      BY <1>6, <2>2 DEF Resolved
  <1>7. CASE ResolvedTooLate
    BY <1>0, <1>7 DEF ResolvedTooLate, LeaveSlot, Blank, Record, Status
  <1>8. CASE Flushed
    BY <1>0, <1>8 DEF Flushed, InboxWithMessage
  <1>9. CASE FlushFails
    BY <1>0, <1>9 DEF FlushFails, GroupFails, InboxWithMessage
  <1>10. CASE CommitFails
    BY <1>0, <1>10 DEF CommitFails, GroupFails
  <1>11. CASE \E t \in Tasks : Commit(t)
    <2>1. PICK t \in Tasks : Commit(t)
      BY <1>11
    <2>2. NextRecord(t) \in Record
      BY IntervalAssumption DEF NextRecord, Record, Status
    <2> QED
      BY <2>1, <2>2 DEF Commit
  <1>12. CASE LoopAgain
    BY <1>0, <1>12 DEF LoopAgain, AskedAgain
  <1>13. CASE LoopEnds
    BY <1>0, <1>13 DEF LoopEnds, AskedAgain
  <1>14. CASE TimerFires
    BY <1>14, RequestTypes DEF TimerFires
  <1>15. CASE \E t \in Tasks : Create(t)
    <2>1. PICK t \in Tasks : Create(t)
      BY <1>15
    <2>2. PICK at \in now..(now + 1) :
            rows' = [rows EXCEPT ![t] = [status |-> "active", at |-> at]]
      BY <2>1 DEF Create
    <2>3. rows' \in [Tasks -> Record]
      BY <2>2 DEF Record, Status
    <2> QED
      BY <2>1, <2>3, RequestTypes DEF Create
  <1>16. CASE \E t \in Tasks : Update(t)
    <2>1. PICK t \in Tasks : Update(t)
      BY <1>16
    <2>2. [rows EXCEPT ![t].at = now + 1] \in [Tasks -> Record]
      BY DEF Record
    <2> QED
      BY <2>1, <2>2, RequestTypes DEF Update, Forget
  <1>17. CASE \E t \in Tasks : Delete(t)
    <2>1. PICK t \in Tasks : Delete(t)
      BY <1>17
    <2>2. [rows EXCEPT ![t] = [status |-> "deleted", at |-> 0]] \in [Tasks -> Record]
      BY DEF Record, Status
    <2> QED
      BY <2>1, <2>2, RequestTypes DEF Delete, Forget
  <1>18. CASE \E t \in Tasks : StopSession(t)
    <2>1. PICK t \in Tasks : StopSession(t)
      BY <1>18
    <2>2. PICK removed \in SUBSET {u \in Active : SessionOf[u] = SessionOf[t]} :
            /\ rows' = [u \in Tasks |-> IF u \in removed THEN [status |-> "deleted", at |-> 0]
                                                          ELSE rows[u]]
            /\ Forget(removed)
      BY <2>1 DEF StopSession
    <2>3. rows' \in [Tasks -> Record]
      BY <2>2 DEF Record, Status
    <2>4. lastDelivery' \in [Tasks -> Nat] /\ inbox' \in [Tasks -> Nat]
      BY <2>2 DEF Forget
    <2> QED
      BY <2>1, <2>3, <2>4, RequestTypes DEF StopSession
  <1>19. CASE Tick
    BY <1>0, <1>19 DEF Tick
  <1>20. CASE ClockSetBack
    BY <1>0, <1>20 DEF ClockSetBack
  <1>21. CASE Dispose
    BY <1>0, <1>21 DEF Dispose
  <1>22. CASE Close
    BY <1>0, <1>22 DEF Close
  <1>23. CASE Crash
    <2>1. inbox' \in [Tasks -> Nat]
      BY <1>23 DEF Crash, InboxWithMessage
    <2>2. stops' \in Nat
      BY <1>23 DEF Crash
    <2> QED
      BY <1>0, <1>23, <2>1, <2>2, BlankType, NoneType DEF Crash
  <1>24. CASE Restart
    BY <1>0, <1>24 DEF Restart
  <1>25. CASE AdmissionCloses
    BY <1>25 DEF AdmissionCloses
  <1>26. CASE UNCHANGED vars
    BY <1>26 DEF vars
  <1> QED
    BY <1>1, <1>2, <1>3, <1>4, <1>5, <1>6, <1>7, <1>8, <1>9, <1>10, <1>11, <1>12, <1>13,
       <1>14, <1>15, <1>16, <1>17, <1>18, <1>19, <1>20, <1>21, <1>22, <1>23, <1>24,
       <1>25, <1>26 DEF Next, LoopNext

-----------------------------------------------------------------------------
(* The drive and the queue it shares with management. *)

\* The tasks of a group are taken together.
LEMMA GroupStep ==
    ASSUME TypeOK, GroupsTakenWhole, [Next]_vars
    PROVE  GroupsTakenWhole'
  <1>1. CASE TakeGroup
    <2>1. PICK t \in Due \ handled : handled' = handled \union GroupOf(t)
      BY <1>1 DEF TakeGroup
    <2>2. Due' = Due /\ \A u : GroupOf(u)' = GroupOf(u)
      BY <1>1 DEF TakeGroup, Due, GroupOf
    <2>3. \A u \in Due \ handled' : GroupOf(u) \intersect GroupOf(t) = {}
      BY <2>1, TasksAssumption DEF GroupOf, Due
    <2> QED
      BY <2>1, <2>2, <2>3 DEF GroupsTakenWhole
  <1>2. CASE Scan \/ DriveEnds \/ DriveStops \/ ResolvedTooLate \/ Crash
    <2>1. handled' = {}
      BY <1>2 DEF Scan, DriveEnds, DriveStops, ResolvedTooLate, Crash, LeaveSlot
    <2> QED
      BY <2>1 DEF GroupsTakenWhole
  <1>3. CASE UNCHANGED <<due, handled>>
    <2>1. Due' = Due /\ \A u : GroupOf(u)' = GroupOf(u)
      BY <1>3 DEF Due, GroupOf
    <2> QED
      BY <1>3, <2>1 DEF GroupsTakenWhole
  <1>4. \/ TakeGroup \/ Scan \/ DriveEnds \/ DriveStops \/ ResolvedTooLate \/ Crash
        \/ UNCHANGED <<due, handled>>
    BY DEF Next, LoopNext, vars, drive, ResolveFails, Resolved, Flushed, FlushFails,
       CommitFails,
           Commit, LoopAgain, LoopEnds, TimerFires, Create, Update, Delete, StopSession, Tick,
           ClockSetBack, AdmissionCloses, Dispose, Close, Restart
  <1> QED
    BY <1>1, <1>2, <1>3, <1>4

\* What a drive works on stays what it read: management waits for the slot, and a
\* commit changes a task the drive is done with.
LEMMA DriveStep ==
    ASSUME RemindersInv, [Next]_vars
    PROVE  DriveKnowsItsTasks' /\ DriveInv'
  <1> USE DEF RemindersInv, TypeOK, DriveKnowsItsTasks, DriveInv, slot, Due, durable,
            clock, host, drive
  <1>1. CASE Scan
    <2>1. \A t \in Tasks : due'[t].status = "active" => due'[t] = rows[t]
      BY <1>1 DEF Scan, Blank
    <2>2. /\ admitted' = {} /\ rows' = rows /\ pc' = "next" /\ timer' = NoTimer
          /\ up' = up /\ admission' = admission
      BY <1>1 DEF Scan
    <2> QED
      BY <2>1, <2>2
  <1>2. CASE TakeGroup
    <2>1. PICK t \in Due \ handled :
            handled' = handled \union GroupOf(t) /\ admitted' = GroupOf(t)
      BY <1>2 DEF TakeGroup
    <2>2. GroupOf(t) \subseteq Due \ handled
      BY <2>1 DEF GroupOf, GroupsTakenWhole
    <2> QED
      BY <1>2, <2>1, <2>2 DEF TakeGroup
  <1>3. CASE DriveEnds
    BY <1>3 DEF DriveEnds, LeaveSlot
  <1>4. CASE DriveStops
    BY <1>4 DEF DriveStops, LeaveSlot
  <1>5. CASE ResolveFails
    BY <1>5 DEF ResolveFails, GroupFails
  <1>6. CASE Resolved
    BY <1>6 DEF Resolved
  <1>7. CASE ResolvedTooLate
    BY <1>7 DEF ResolvedTooLate, LeaveSlot
  <1>8. CASE Flushed
    BY <1>8 DEF Flushed
  <1>9. CASE FlushFails
    BY <1>9 DEF FlushFails, GroupFails
  <1>10. CASE CommitFails
    BY <1>10 DEF CommitFails, GroupFails
  <1>11. CASE \E t \in Tasks : Commit(t)
    BY <1>11 DEF Commit
  <1>12. CASE LoopAgain
    BY <1>12 DEF LoopAgain, AskedAgain
  <1>13. CASE LoopEnds
    BY <1>13 DEF LoopEnds, AskedAgain
  <1>14. CASE TimerFires
    BY <1>14 DEF TimerFires, RequestDrive, DriveAsked, DriveRefused
  <1>15. CASE \E t \in Tasks : Create(t)
    BY <1>15 DEF Create, RequestDrive, DriveAsked, DriveRefused, Manages
  <1>16. CASE \E t \in Tasks : Update(t)
    BY <1>16 DEF Update, RequestDrive, DriveAsked, DriveRefused, Manages
  <1>17. CASE \E t \in Tasks : Delete(t)
    BY <1>17 DEF Delete, RequestDrive, DriveAsked, DriveRefused, Manages
  <1>18. CASE \E t \in Tasks : StopSession(t)
    BY <1>18 DEF StopSession, RequestDrive, DriveAsked, DriveRefused, Manages
  <1>19. CASE Tick
    BY <1>19 DEF Tick
  <1>20. CASE ClockSetBack
    BY <1>20 DEF ClockSetBack
  <1>21. CASE Dispose
    BY <1>21 DEF Dispose
  <1>22. CASE Close
    BY <1>22 DEF Close
  <1>23. CASE Crash
    BY <1>23 DEF Crash
  <1>24. CASE Restart
    BY <1>24 DEF Restart, ClosedIsQuiet
  <1>25. CASE AdmissionCloses
    BY <1>25 DEF AdmissionCloses
  <1>26. CASE UNCHANGED vars
    BY <1>26 DEF vars
  <1> QED
    BY <1>1, <1>2, <1>3, <1>4, <1>5, <1>6, <1>7, <1>8, <1>9, <1>10, <1>11, <1>12, <1>13,
       <1>14, <1>15, <1>16, <1>17, <1>18, <1>19, <1>20, <1>21, <1>22, <1>23, <1>24,
       <1>25, <1>26 DEF Next, LoopNext

\* Only a running service has a timer or a drive.
LEMMA QuietStep ==
    ASSUME RemindersInv, [Next]_vars
    PROVE  ClosedIsQuiet'
  <1> USE DEF RemindersInv, DriveInv, ClosedIsQuiet, durable, clock, host, drive
  <1>1. CASE Scan
    BY <1>1 DEF Scan
  <1>2. CASE TakeGroup
    BY <1>2 DEF TakeGroup
  <1>3. CASE DriveEnds
    BY <1>3 DEF DriveEnds, LeaveSlot
  <1>4. CASE DriveStops
    BY <1>4 DEF DriveStops, LeaveSlot
  <1>5. CASE ResolveFails
    BY <1>5 DEF ResolveFails, GroupFails
  <1>6. CASE Resolved
    BY <1>6 DEF Resolved
  <1>7. CASE ResolvedTooLate
    BY <1>7 DEF ResolvedTooLate, LeaveSlot
  <1>8. CASE Flushed
    BY <1>8 DEF Flushed
  <1>9. CASE FlushFails
    BY <1>9 DEF FlushFails, GroupFails
  <1>10. CASE CommitFails
    BY <1>10 DEF CommitFails, GroupFails
  <1>11. CASE \E t \in Tasks : Commit(t)
    BY <1>11 DEF Commit
  <1>12. CASE LoopAgain
    BY <1>12 DEF LoopAgain, AskedAgain
  <1>13. CASE LoopEnds
    BY <1>13 DEF LoopEnds, AskedAgain
  <1>14. CASE TimerFires
    BY <1>14 DEF TimerFires, RequestDrive, DriveAsked, DriveRefused
  <1>15. CASE \E t \in Tasks : Create(t)
    BY <1>15 DEF Create, RequestDrive, DriveAsked, DriveRefused, Manages
  <1>16. CASE \E t \in Tasks : Update(t)
    BY <1>16 DEF Update, RequestDrive, DriveAsked, DriveRefused, Manages
  <1>17. CASE \E t \in Tasks : Delete(t)
    BY <1>17 DEF Delete, RequestDrive, DriveAsked, DriveRefused, Manages
  <1>18. CASE \E t \in Tasks : StopSession(t)
    BY <1>18 DEF StopSession, RequestDrive, DriveAsked, DriveRefused, Manages
  <1>19. CASE Tick
    BY <1>19 DEF Tick
  <1>20. CASE ClockSetBack
    BY <1>20 DEF ClockSetBack
  <1>21. CASE Dispose
    BY <1>21 DEF Dispose
  <1>22. CASE Close
    BY <1>22 DEF Close
  <1>23. CASE Crash
    BY <1>23 DEF Crash
  <1>24. CASE Restart
    BY <1>24 DEF Restart
  <1>25. CASE AdmissionCloses
    BY <1>25 DEF AdmissionCloses
  <1>26. CASE UNCHANGED vars
    BY <1>26 DEF vars
  <1> QED
    BY <1>1, <1>2, <1>3, <1>4, <1>5, <1>6, <1>7, <1>8, <1>9, <1>10, <1>11, <1>12, <1>13,
       <1>14, <1>15, <1>16, <1>17, <1>18, <1>19, <1>20, <1>21, <1>22, <1>23, <1>24,
       <1>25, <1>26 DEF Next, LoopNext

-----------------------------------------------------------------------------
(* Receipts. *)

\* A receipt stays behind the next target, and a message that is being flushed
\* or accounted for is newer than the last receipt.
LEMMA ReceiptStep ==
    ASSUME RemindersInv, ReceiptMeansDelivered, [Next]_vars
    PROVE  ReceiptInv' /\ ReceiptMeansDelivered'
  <1> USE DEF RemindersInv, TypeOK, DriveInv, ReceiptInv, ReceiptMeansDelivered, Active,
            slot, Record, durable, clock, host, drive
  <1>1. CASE Scan
    BY <1>1 DEF Scan
  <1>2. CASE TakeGroup
    BY <1>2 DEF TakeGroup
  <1>3. CASE DriveEnds
    BY <1>3 DEF DriveEnds, LeaveSlot
  <1>4. CASE DriveStops
    BY <1>4 DEF DriveStops, LeaveSlot
  <1>5. CASE ResolveFails
    BY <1>5 DEF ResolveFails, GroupFails
  <1>6. CASE Resolved
    <2>1. \A t \in admitted' :
            /\ t \in admitted /\ due[t] = rows[t] /\ t \in Due /\ due[t].at <= now
            /\ occurrence'[t] = LatestOccurrence(t)
      BY <1>6 DEF Resolved, DriveKnowsItsTasks
    <2>2. \A t \in admitted' : lastDelivery[t] < due[t].at /\ due[t].at <= occurrence'[t]
      BY <2>1, LatestIsLater DEF Due
    <2>3. \A t \in admitted' : lastDelivery[t] < occurrence'[t]
      <3>1. TAKE t \in admitted'
      <3>2. t \in Tasks
        BY <2>1
      <3>3. occurrence'[t] \in Nat /\ due[t].at \in Nat /\ lastDelivery[t] \in Nat
        BY <2>1, <3>2, LatestIsLater
      <3> QED
        BY <2>2, <3>3
    <2> QED
      BY <1>6, <2>3 DEF Resolved
  <1>7. CASE ResolvedTooLate
    BY <1>7 DEF ResolvedTooLate, LeaveSlot
  <1>8. CASE Flushed
    BY <1>8 DEF Flushed, InboxWithMessage
  <1>9. CASE FlushFails
    BY <1>9 DEF FlushFails, GroupFails, InboxWithMessage
  <1>10. CASE CommitFails
    BY <1>10 DEF CommitFails, GroupFails
  <1>11. CASE \E t \in Tasks : Commit(t)
    <2>1. PICK t \in Tasks : Commit(t)
      BY <1>11
    <2>2. NextRecord(t).status = "active" => occurrence[t] < NextRecord(t).at
      BY IntervalAssumption DEF NextRecord
    <2>3. NextRecord(t).status # "unborn"
      BY DEF NextRecord
    <2>4. lastDelivery'[t] = inbox'[t]
      BY <2>1 DEF Commit
    <2> QED
      BY <2>1, <2>2, <2>3, <2>4 DEF Commit
  <1>12. CASE LoopAgain
    BY <1>12 DEF LoopAgain, AskedAgain
  <1>13. CASE LoopEnds
    BY <1>13 DEF LoopEnds, AskedAgain
  <1>14. CASE TimerFires
    BY <1>14 DEF TimerFires, RequestDrive, DriveAsked, DriveRefused
  <1>15. CASE \E t \in Tasks : Create(t)
    BY <1>15 DEF Create, RequestDrive, DriveAsked, DriveRefused, Manages
  <1>16. CASE \E t \in Tasks : Update(t)
    BY <1>16 DEF Update, RequestDrive, DriveAsked, DriveRefused, Manages, Forget
  <1>17. CASE \E t \in Tasks : Delete(t)
    BY <1>17 DEF Delete, RequestDrive, DriveAsked, DriveRefused, Manages, Forget
  <1>18. CASE \E t \in Tasks : StopSession(t)
    BY <1>18 DEF StopSession, RequestDrive, DriveAsked, DriveRefused, Manages, Forget
  <1>19. CASE Tick
    BY <1>19 DEF Tick
  <1>20. CASE ClockSetBack
    BY <1>20 DEF ClockSetBack
  <1>21. CASE Dispose
    BY <1>21 DEF Dispose
  <1>22. CASE Close
    BY <1>22 DEF Close
  <1>23. CASE Crash
    BY <1>23 DEF Crash, InboxWithMessage
  <1>24. CASE Restart
    BY <1>24 DEF Restart
  <1>25. CASE AdmissionCloses
    BY <1>25 DEF AdmissionCloses
  <1>26. CASE UNCHANGED vars
    BY <1>26 DEF vars
  <1> QED
    BY <1>1, <1>2, <1>3, <1>4, <1>5, <1>6, <1>7, <1>8, <1>9, <1>10, <1>11, <1>12, <1>13,
       <1>14, <1>15, <1>16, <1>17, <1>18, <1>19, <1>20, <1>21, <1>22, <1>23, <1>24,
       <1>25, <1>26 DEF Next, LoopNext

-----------------------------------------------------------------------------
(* Obligations. *)

\* Whatever clears the timer leaves a drive that will set it again.
LEMMA ObligationStep ==
    ASSUME RemindersInv, ObligationHeld, [Next]_vars
    PROVE  ObligationHeld'
  <1> USE DEF RemindersInv, TypeOK, DriveInv, ClosedIsQuiet, ObligationHeld, Active,
            Record, durable, clock, host, drive
  <1>1. CASE Scan
    BY <1>1 DEF Scan
  <1>2. CASE TakeGroup
    BY <1>2 DEF TakeGroup
  <1>3. CASE DriveEnds
    BY <1>3 DEF DriveEnds, LeaveSlot, Nearest
  <1>4. CASE DriveStops
    BY <1>4 DEF DriveStops, LeaveSlot
  <1>5. CASE ResolveFails
    BY <1>5 DEF ResolveFails, GroupFails
  <1>6. CASE Resolved
    BY <1>6 DEF Resolved
  <1>7. CASE ResolvedTooLate
    BY <1>7 DEF ResolvedTooLate, LeaveSlot
  <1>8. CASE Flushed
    BY <1>8 DEF Flushed
  <1>9. CASE FlushFails
    BY <1>9 DEF FlushFails, GroupFails
  <1>10. CASE CommitFails
    BY <1>10 DEF CommitFails, GroupFails
  <1>11. CASE \E t \in Tasks : Commit(t)
    BY <1>11 DEF Commit
  <1>12. CASE LoopAgain
    BY <1>12 DEF LoopAgain, AskedAgain
  <1>13. CASE LoopEnds
    BY <1>13 DEF LoopEnds, AskedAgain
  <1>14. CASE TimerFires
    BY <1>14 DEF TimerFires, RequestDrive, DriveAsked, DriveRefused
  <1>15. CASE \E t \in Tasks : Create(t)
    BY <1>15 DEF Create, RequestDrive, DriveAsked, DriveRefused, Manages
  <1>16. CASE \E t \in Tasks : Update(t)
    BY <1>16 DEF Update, RequestDrive, DriveAsked, DriveRefused, Manages
  <1>17. CASE \E t \in Tasks : Delete(t)
    BY <1>17 DEF Delete, RequestDrive, DriveAsked, DriveRefused, Manages
  <1>18. CASE \E t \in Tasks : StopSession(t)
    BY <1>18 DEF StopSession, RequestDrive, DriveAsked, DriveRefused, Manages
  <1>19. CASE Tick
    BY <1>19 DEF Tick
  <1>20. CASE ClockSetBack
    BY <1>20 DEF ClockSetBack
  <1>21. CASE Dispose
    BY <1>21 DEF Dispose
  <1>22. CASE Close
    BY <1>22 DEF Close
  <1>23. CASE Crash
    BY <1>23 DEF Crash
  <1>24. CASE Restart
    BY <1>24 DEF Restart
  <1>25. CASE AdmissionCloses
    BY <1>25 DEF AdmissionCloses
  <1>26. CASE UNCHANGED vars
    BY <1>26 DEF vars
  <1> QED
    BY <1>1, <1>2, <1>3, <1>4, <1>5, <1>6, <1>7, <1>8, <1>9, <1>10, <1>11, <1>12, <1>13,
       <1>14, <1>15, <1>16, <1>17, <1>18, <1>19, <1>20, <1>21, <1>22, <1>23, <1>24,
       <1>25, <1>26 DEF Next, LoopNext

-----------------------------------------------------------------------------
(* The theorems. *)

LEMMA InitInv == Init => RemindersInv /\ ObligationHeld /\ ReceiptMeansDelivered
  <1>1. Init => TypeOK
    BY TypeInit
  <1>2. Init => DriveKnowsItsTasks /\ DriveInv
    BY DEF Init, DriveKnowsItsTasks, DriveInv, slot
  <1>3. Init => ClosedIsQuiet /\ ObligationHeld
    BY DEF Init, ClosedIsQuiet, ObligationHeld
  <1>4. Init => GroupsTakenWhole
    BY DEF Init, GroupsTakenWhole
  <1>5. Init => ReceiptInv /\ ReceiptMeansDelivered
    BY DEF Init, ReceiptInv, ReceiptMeansDelivered, Active, Blank
  <1> QED
    BY <1>1, <1>2, <1>3, <1>4, <1>5 DEF RemindersInv

LEMMA RemindersStep ==
    ASSUME RemindersInv, ReceiptMeansDelivered, [Next]_vars
    PROVE  RemindersInv' /\ ReceiptMeansDelivered'
  <1>1. TypeOK'
    BY TypeStep DEF RemindersInv
  <1>2. GroupsTakenWhole'
    BY GroupStep DEF RemindersInv
  <1> QED
    BY <1>1, <1>2, DriveStep, QuietStep, ReceiptStep DEF RemindersInv

\* The drive, management and disposal never work behind each other's back: what a
\* drive writes back was read in the same turn of the queue (serialize in
\* packages/schedule/schedule/src/index.ts), and a disposed service leaves no
\* timer (runtime.ts, dispose).
THEOREM TurnsAreTaken == Spec => []RemindersInv
  <1>1. RemindersInv /\ ReceiptMeansDelivered /\ [Next]_vars
            => RemindersInv' /\ ReceiptMeansDelivered'
    BY RemindersStep
  <1> QED
    BY InitInv, <1>1, PTL DEF Spec

\* A receipt is saved only for a message that is durable in its session (runtime.ts,
\* deliver and commit), whatever fails, dies or is set back.
THEOREM ReceiptsAreHonest == Spec => []ReceiptMeansDelivered
  <1>1. RemindersInv /\ ReceiptMeansDelivered /\ [Next]_vars
            => RemindersInv' /\ ReceiptMeansDelivered'
    BY RemindersStep
  <1> QED
    BY InitInv, <1>1, PTL DEF Spec

\* No active task is left without a timer or a drive that will look at it
\* (runtime.ts, requestDrive and drive), unless its last delivery failed or the
\* service, its disposal at hand, has been refused a drive.
THEOREM NoTaskIsForgotten == Spec => []ObligationHeld
  <1>1. RemindersInv /\ ObligationHeld /\ [Next]_vars => ObligationHeld'
    BY ObligationStep
  <1> QED
    BY InitInv, TurnsAreTaken, <1>1, PTL DEF Spec

\* An occurrence with a receipt is never announced again (runtime.ts, deliver).
THEOREM NoSecondAnnouncement == Spec => NeverAnnouncedAgain
  <1>1. RemindersInv /\ RemindersInv' /\ [Next]_vars =>
          [pc = "resolving" /\ pc' = "flushing" =>
             \A t \in admitted' : occurrence'[t] > lastDelivery[t]]_vars
    <2> SUFFICES ASSUME RemindersInv, RemindersInv', Next, pc = "resolving", pc' = "flushing",
                        NEW t \in admitted'
                 PROVE  occurrence'[t] > lastDelivery[t]
      BY DEF vars, durable, clock, host, drive
    <2>1. lastDelivery'[t] < occurrence'[t]
      BY DEF RemindersInv, ReceiptInv
    <2>2. lastDelivery' = lastDelivery
      BY DEF Next, LoopNext, Scan, TakeGroup, DriveEnds, DriveStops, ResolveFails,
         Resolved,
             ResolvedTooLate, LeaveSlot, GroupFails, Flushed, FlushFails, CommitFails, Commit,
             LoopAgain, LoopEnds, TimerFires, RequestDrive, DriveAsked, DriveRefused,
              Create, Update, Delete, StopSession,
             Manages, slot, Tick, ClockSetBack, AdmissionCloses, Dispose, Close, Crash, Restart, durable
    <2>3. t \in Tasks /\ lastDelivery \in [Tasks -> Nat] /\ occurrence' \in [Tasks -> Nat]
      BY DEF RemindersInv, TypeOK
    <2> QED
      BY <2>1, <2>2, <2>3
  <1> QED
    BY TurnsAreTaken, <1>1, PTL DEF Spec, NeverAnnouncedAgain
=============================================================================
