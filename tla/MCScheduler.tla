---------------------------- MODULE MCScheduler ----------------------------
(***************************************************************************)
(* Sched under three kinds of load.  `load` is chosen at the start and     *)
(* says which operations the threads call: they come and go, they change   *)
(* deadlines and QoS classes, or they join each other.                     *)
(***************************************************************************)
EXTENDS Sched

VARIABLE load

Uses ==
  [threads |-> {"create", "yield", "sleep", "exit"},
   edf     |-> {"create", "deadline", "sleep", "qos"},
   joins   |-> {"create", "exit", "join"}]

\* The highest tid of each load.
LastTid == [threads |-> 3, edf |-> 2, joins |-> 4]

LoadInit == Init /\ load \in DOMAIN Uses

Called(op) == op \in Uses[load]

\* A CPU that spins on its own lock, or has faulted, stays where it is.
Stopped == load = "joins" /\ cpu # "ok" /\ UNCHANGED vars

LoadNext ==
  /\ \/ sched_tick \/ Resched \/ wake_sleepers \/ ScheduleStay \/ ScheduleSwitch
     \/ ReapUnlink \/ ReapFree
     \/ Called("create") /\ next_tid <= LastTid[load] /\ task_create
     \/ Called("yield") /\ sched_yield
     \/ Called("sleep") /\ task_sleep
     \/ Called("exit") /\ task_exit
     \/ Called("deadline") /\ task_set_deadline
     \/ Called("qos") /\ task_set_qos
     \/ Called("join") /\ task_join
     \/ JoinTest \/ JoinWait
     \/ Stopped
  /\ UNCHANGED load

LoadSpec == LoadInit /\ [][LoadNext]_<<vars, load>>
=============================================================================
