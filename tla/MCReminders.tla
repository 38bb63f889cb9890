---------------------------- MODULE MCReminders ----------------------------
(* The instance of Reminders that TLC checks: a task that fires once, and two *)
(* recurring ones of one session.                                             *)
EXTENDS Reminders

CONSTANTS once, often, seldom

MCTasks == {once, often, seldom}
MCRecurring == {often, seldom}
MCSessionOf == [t \in MCTasks |-> "s"]
MCIntervalOf == [t \in MCRecurring |-> IF t = often THEN 1 ELSE 2]
=============================================================================
