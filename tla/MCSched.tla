------------------------------ MODULE MCSched ------------------------------
(* Instances of Sched for TLC.                                             *)
EXTENDS Sched

\* Threads that come and go.  Liveness is asked of these only: a task with a deadline
\* may keep the CPU from the others for good, and a join may stop it.
LiveNext ==
  \/ sched_tick \/ sched_yield \/ Resched
  \/ wake_sleepers \/ ScheduleStay \/ ScheduleSwitch
  \/ task_create \/ task_sleep \/ task_exit
  \/ ReapUnlink \/ ReapFree

LiveSpec == Init /\ [][LiveNext]_vars /\ Fairness
=============================================================================
