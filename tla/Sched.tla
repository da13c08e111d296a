------------------------------- MODULE Sched -------------------------------
(***************************************************************************)
(* The preemptive scheduler of kernel/sched.c with the parts it calls: the *)
(* intrusive lists of list.h, the join wait queues of waitqueue.c, the QoS *)
(* table of qos.h, the watchdog of watchdog.c and the timer interrupt of   *)
(* idt.c.                                                                  *)
(*                                                                         *)
(* One CPU.  A section between spin_lock_irqsave and its unlock runs with  *)
(* interrupts off, so it is one action; a timer interrupt (sched_tick) may *)
(* fall between any two of them.  schedule() itself is one locked section: *)
(* it is split into the iterations of wake_sleepers and the final pick,    *)
(* and while in_schedule holds no other action is enabled.                 *)
(***************************************************************************)
EXTENDS IntrusiveLists, FiniteSets

CONSTANTS
  MAX_TASKS,           \* slots of task_pool
  NumStacks,           \* 16 KB stacks the page allocator can hand out
  MaxTid,              \* bound: thread ids handed out
  Ops,                 \* operations the threads of this instance call
  QosClasses,          \* QoS classes in use, numbered as in qos.h
  Deadlines,           \* values given to task_set_deadline, 0 = none
  SleepMs,             \* values given to task_sleep, in milliseconds
  TickWrap,            \* ticks_used is kept modulo this multiple of all quanta
  WATCHDOG_THRESHOLD,  \* watchdog.h: warn and start over
  WATCHDOG_LIMIT       \* sched.c: kill

Slots == 0 .. MAX_TASKS - 1
InitSlot == 0
IdleSlot == 1
Null == -1

TASK_PRIO_HIGH == 0
TASK_PRIO_NORMAL == 32
QOS_DEFAULT == 2

\* Priority and quantum of each QoS class.
qos_table ==
  [q \in 0 .. 4 |-> [priority |-> <<4, 16, 32, 48, 56>>[q + 1],
                     quantum  |-> <<1, 2, 2, 4, 8>>[q + 1]]]

Prios == {TASK_PRIO_HIGH, TASK_PRIO_NORMAL}
           \cup {qos_table[q].priority : q \in QosClasses}

ASSUME SizesAssumption ==
  /\ MAX_TASKS \in Nat /\ MAX_TASKS >= 2
  /\ NumStacks \in Nat \ {0}
  /\ MaxTid \in Nat /\ MaxTid >= 2

ASSUME InputsAssumption ==
  /\ QosClasses \subseteq 0 .. 4
  /\ QOS_DEFAULT \in QosClasses
  /\ Deadlines \subseteq Nat
  /\ SleepMs \subseteq Nat

ASSUME WrapAssumption ==
  /\ TickWrap \in Nat \ {0}
  /\ \A q \in QosClasses : TickWrap % qos_table[q].quantum = 0

\* 500 and 10000 in the code.
ASSUME WatchdogAssumption ==
  /\ WATCHDOG_THRESHOLD \in Nat \ {0}
  /\ WATCHDOG_LIMIT \in Nat
  /\ WATCHDOG_THRESHOLD < WATCHDOG_LIMIT

-----------------------------------------------------------------------------
(* The lists a run_node can be linked in.  Each list has a name, so that   *)
(* "one node, one list" is a statement about one variable.                 *)

prio_queue(p) == <<"prio", p>>
deadline_queue == <<"deadline", 0>>
sleep_queue == <<"sleep", 0>>
dead_queue == <<"dead", 0>>
waiters(s) == <<"wq", s>>     \* the wait queue in the frame of slot s's task_join

Lists == {prio_queue(p) : p \in Prios}
           \cup {deadline_queue, sleep_queue, dead_queue}
           \cup {waiters(s) : s \in Slots}

ReadyLists == {prio_queue(p) : p \in Prios} \cup {deadline_queue}

VARIABLES
  task_pool,     \* the TCB of each slot
  used,          \* slots whose bit in tcb_bitmap is clear
  next_tid,
  list,          \* each list, a sequence of slots
  prio_bitmap,   \* priorities whose bit is set
  current,       \* per-CPU current task
  in_schedule,   \* schedule() has been entered and holds sched_lock
  watchdog_ticks,\* of the current task (reset at every dispatch)
  pc,            \* where each thread is in its own code
  join,          \* the local variables of task_join
  free_stacks,   \* stacks left in the page allocator
  cpu            \* "ok", or stuck: "spin" on a lock it holds, "fault"

vars == <<task_pool, used, next_tid, list, prio_bitmap, current, in_schedule,
          watchdog_ticks, pc, join, free_stacks, cpu>>

Tcb == [tid         : Nat,
        state       : {"READY", "RUNNING", "SLEEPING", "DEAD"},
        priority    : Prios,
        qos         : 0 .. 4,
        ticks_used  : 0 .. TickWrap - 1,
        sleep_left  : Nat,        \* sleep_until - now, or 0 once it has passed
        finished    : BOOLEAN,
        join_wq     : Slots \cup {Null},
        deadline    : Nat]

\* A TCB after the memset of alloc_tcb (TASK_READY and QoS class are enum 0).
ZeroTcb == [tid |-> 0, state |-> "READY", priority |-> TASK_PRIO_HIGH,
            qos |-> 0, ticks_used |-> 0, sleep_left |-> 0,
            finished |-> FALSE, join_wq |-> Null, deadline |-> 0]

NoJoin == [target |-> Null, tid |-> 0]

\* Program points: "run" is the thread's own code; a point ending in Sched is
\* after the locked section of a blocking call and before its schedule().
Points == {"run", "reap", "join", "joinWait",
           "sleepSched", "joinSched", "exitSched", "halt"}

-----------------------------------------------------------------------------
(* Operations on the lists.                                                *)

\* As if insertion did not look at the deadlines.
deadline_enqueue_Last(ls, t) == list_push_back(ls, deadline_queue, t)

\* The deadline queue is kept in order of deadline, first come first among equals.
deadline_enqueue(ls, t) ==
  LET q == ls[deadline_queue]
      later == {i \in 1 .. Len(q) : task_pool[t].deadline < task_pool[q[i]].deadline}
  IN  IF later = {} THEN list_push_back(ls, deadline_queue, t)
      ELSE list_insert(ls, deadline_queue, CHOOSE i \in later : \A j \in later : i <= j, t)

\* bitmap_enqueue acts on the lists and on the bitmap: one operator for each.
bitmap_enqueue(ls, t) ==
  IF task_pool[t].deadline > 0
  THEN deadline_enqueue(ls, t)
  ELSE list_push_back(ls, prio_queue(task_pool[t].priority), t)

bitmap_set(bm, t) ==
  IF task_pool[t].deadline > 0 THEN bm ELSE bm \cup {task_pool[t].priority}

\* As if the scan started at the other end.
bitmap_find_first_Last(bm) == CHOOSE p \in bm : \A q \in bm : p >= q

bitmap_find_first(bm) == CHOOSE p \in bm : \A q \in bm : p <= q

\* edf_pick, else bitmap_dequeue, else the idle task: the list picked from.
Runnable == ~list_empty(list, deadline_queue) \/ prio_bitmap # {}

PickList == IF ~list_empty(list, deadline_queue) THEN deadline_queue
            ELSE prio_queue(bitmap_find_first(prio_bitmap))

Pick == IF Runnable THEN list[PickList][1] ELSE IdleSlot

ListsAfterPick == IF Runnable THEN list_remove(list, PickList, 1) ELSE list

\* As if bitmap_dequeue left the bit of the queue it empties.
BitmapAfterPick_NeverClears == prio_bitmap

BitmapAfterPick ==
  IF list_empty(list, deadline_queue) /\ prio_bitmap # {} /\ Len(list[PickList]) = 1
  THEN prio_bitmap \ {bitmap_find_first(prio_bitmap)}
  ELSE prio_bitmap

-----------------------------------------------------------------------------
(* sched_init: init runs in slot 0, idle is set aside in slot 1.            *)

Init ==
  /\ task_pool = [t \in Slots |->
       CASE t = InitSlot -> [ZeroTcb EXCEPT !.state = "RUNNING", !.qos = QOS_DEFAULT]
         [] t = IdleSlot -> [ZeroTcb EXCEPT !.tid = 1, !.qos = QOS_DEFAULT,
                                            !.priority = TASK_PRIO_NORMAL]
         [] OTHER -> ZeroTcb]
  /\ used = {InitSlot, IdleSlot}
  /\ next_tid = 2
  /\ list = [L \in Lists |-> <<>>]
  /\ prio_bitmap = {}
  /\ current = InitSlot
  /\ in_schedule = FALSE
  /\ watchdog_ticks = 0
  /\ pc = [t \in Slots |-> "run"]
  /\ join = [t \in Slots |-> NoJoin]
  /\ free_stacks = NumStacks - 1
  /\ cpu = "ok"

\* The current thread executes its own code, at the given point.
At(point) == cpu = "ok" /\ ~in_schedule /\ pc[current] = point

\* The current thread calls one of the operations of this instance.
Calls(op) == At("run") /\ op \in Ops /\ current # IdleSlot

Goto(point) == pc' = [pc EXCEPT ![current] = point]

-----------------------------------------------------------------------------
(* The timer interrupt: pit_tick, sched_tick, watchdog_check and, when the *)
(* quantum has run out, schedule().                                        *)

\* pit_tick: one tick closer to every sleep_until.
Aged(t) ==
  [task_pool[t] EXCEPT !.sleep_left = IF @ > 0 THEN @ - 1 ELSE 0,
                       !.ticks_used = IF t = current THEN (@ + 1) % TickWrap ELSE @]

QuantumExpired ==
  Aged(current).ticks_used % qos_table[task_pool[current].qos].quantum = 0

WatchdogKills == watchdog_ticks + 1 >= WATCHDOG_LIMIT /\ task_pool[current].tid > 1

\* wq_wake_all: the waiters in the order they came.
JoinWaiters(t) ==
  IF task_pool[t].join_wq = Null THEN <<>> ELSE list[waiters(task_pool[t].join_wq)]

AfterWakeAll(t) ==
  IF JoinWaiters(t) = <<>> THEN list
  ELSE LET ls[i \in 0 .. Len(JoinWaiters(t))] ==
             IF i = 0 THEN [list EXCEPT ![waiters(task_pool[t].join_wq)] = <<>>]
             ELSE bitmap_enqueue(ls[i - 1], JoinWaiters(t)[i])
       IN  ls[Len(JoinWaiters(t))]

Kill ==
  LET woken == Elements(JoinWaiters(current))
  IN  /\ task_pool' = [t \in Slots |->
           CASE t = current  -> [Aged(t) EXCEPT !.state = "DEAD", !.finished = TRUE]
             [] t \in woken  -> [Aged(t) EXCEPT !.state = "READY"]
             [] OTHER -> Aged(t)]
      /\ list' = list_push_back(AfterWakeAll(current), dead_queue, current)
      /\ prio_bitmap' = prio_bitmap \cup UNION {bitmap_set({}, t) : t \in woken}
      /\ in_schedule' = TRUE

Account ==
  /\ task_pool' = [t \in Slots |-> Aged(t)]
  /\ in_schedule' = QuantumExpired
  /\ UNCHANGED <<list, prio_bitmap>>

\* As if watchdog_check only warned.
watchdog_check_NoReset(n) == n

watchdog_check(n) == IF n >= WATCHDOG_THRESHOLD THEN 0 ELSE n

sched_tick ==
  /\ cpu = "ok" /\ ~in_schedule
  /\ IF WatchdogKills THEN Kill ELSE Account
  /\ watchdog_ticks' = watchdog_check(watchdog_ticks + 1)
  /\ UNCHANGED <<used, next_tid, current, pc, join, free_stacks, cpu>>

-----------------------------------------------------------------------------
(* schedule().                                                             *)

\* A thread enters schedule() by itself: a yield, or the end of a blocking call.
sched_yield ==
  /\ Calls("yield")
  /\ in_schedule' = TRUE
  /\ UNCHANGED <<task_pool, used, next_tid, list, prio_bitmap, current,
                 watchdog_ticks, pc, join, free_stacks, cpu>>

Resched ==
  /\ \/ At("sleepSched") /\ Goto("run")
     \/ At("joinSched") /\ Goto("join")
     \/ At("exitSched") /\ Goto("halt")
  /\ in_schedule' = TRUE
  /\ UNCHANGED <<task_pool, used, next_tid, list, prio_bitmap, current,
                 watchdog_ticks, join, free_stacks, cpu>>

Due(t) == task_pool[t].sleep_left = 0

\* As if the sleeper stayed linked in sleep_queue.
wake_sleepers_NoUnlink ==
  /\ in_schedule
  /\ \E t \in Nodes(list, sleep_queue) :
       /\ Due(t)
       /\ list' = bitmap_enqueue(list, t)
       /\ prio_bitmap' = bitmap_set(prio_bitmap, t)
       /\ task_pool' = [task_pool EXCEPT ![t].state = "READY"]
  /\ UNCHANGED <<used, next_tid, current, in_schedule, watchdog_ticks, pc, join,
                 free_stacks, cpu>>

\* An iteration of wake_sleepers: the first sleeper that is due.
wake_sleepers ==
  /\ in_schedule
  /\ \E i \in 1 .. Len(list[sleep_queue]) :
       LET t == list[sleep_queue][i]
       IN  /\ Due(t)
           /\ \A j \in 1 .. i - 1 : ~Due(list[sleep_queue][j])
           /\ list' = bitmap_enqueue(list_remove(list, sleep_queue, i), t)
           /\ prio_bitmap' = bitmap_set(prio_bitmap, t)
           /\ task_pool' = [task_pool EXCEPT ![t].state = "READY"]
  /\ UNCHANGED <<used, next_tid, current, in_schedule, watchdog_ticks, pc, join,
                 free_stacks, cpu>>

NoneDue == \A i \in 1 .. Len(list[sleep_queue]) : ~Due(list[sleep_queue][i])

\* As if the early return came before the dequeue.
ScheduleStay_NoDequeue ==
  /\ in_schedule /\ NoneDue
  /\ Pick = current
  /\ in_schedule' = FALSE
  /\ UNCHANGED <<task_pool, used, next_tid, list, prio_bitmap, current,
                 watchdog_ticks, pc, join, free_stacks, cpu>>

\* next == current: return without touching its state.
ScheduleStay ==
  /\ in_schedule /\ NoneDue
  /\ Pick = current
  /\ list' = ListsAfterPick
  /\ prio_bitmap' = BitmapAfterPick
  /\ in_schedule' = FALSE
  /\ UNCHANGED <<task_pool, used, next_tid, current, watchdog_ticks, pc, join,
                 free_stacks, cpu>>

\* As if the old task were always queued again, or never.
Requeue_Always == TRUE
Requeue_Never == FALSE

\* The old task is queued again only if it is still RUNNING.
Requeue == task_pool[current].state = "RUNNING"

ScheduleSwitch ==
  /\ in_schedule /\ NoneDue
  /\ Pick # current
  /\ list' = IF Requeue THEN bitmap_enqueue(ListsAfterPick, current) ELSE ListsAfterPick
  /\ prio_bitmap' = IF Requeue THEN bitmap_set(BitmapAfterPick, current)
                    ELSE BitmapAfterPick
  /\ task_pool' = [task_pool EXCEPT ![current].state = IF Requeue THEN "READY" ELSE @,
                                    ![Pick].state = "RUNNING"]
  /\ current' = Pick
  /\ watchdog_ticks' = 0
  /\ in_schedule' = FALSE
  /\ UNCHANGED <<used, next_tid, pc, join, free_stacks, cpu>>

-----------------------------------------------------------------------------
(* Creation, sleep and exit.                                               *)

\* alloc_tcb takes the lowest free slot.
AllocTcb(t) == t \in Slots \ used /\ \A s \in Slots \ used : t <= s

task_create ==
  /\ Calls("create") /\ next_tid <= MaxTid
  /\ \E t \in Slots :
       /\ AllocTcb(t)
       /\ \/ /\ free_stacks > 0
             /\ task_pool' = [task_pool EXCEPT ![t] =
                  [ZeroTcb EXCEPT !.tid = next_tid, !.qos = QOS_DEFAULT,
                                  !.priority = TASK_PRIO_NORMAL]]
             /\ used' = used \cup {t}
             /\ next_tid' = next_tid + 1
             /\ free_stacks' = free_stacks - 1
             /\ list' = list_push_back(list, prio_queue(TASK_PRIO_NORMAL), t)
             /\ prio_bitmap' = prio_bitmap \cup {TASK_PRIO_NORMAL}
             /\ pc' = [pc EXCEPT ![t] = "run"]
             /\ join' = [join EXCEPT ![t] = NoJoin]
          \* No stack: the slot goes back, already cleared.
          \/ /\ free_stacks = 0
             /\ task_pool' = [task_pool EXCEPT ![t] = ZeroTcb]
             /\ UNCHANGED <<used, next_tid, free_stacks, list, prio_bitmap, pc, join>>
  /\ UNCHANGED <<current, in_schedule, watchdog_ticks, cpu>>

task_sleep ==
  /\ Calls("sleep")
  /\ \E ms \in SleepMs :
       task_pool' = [task_pool EXCEPT
         ![current].sleep_left = IF ms \div 10 = 0 THEN 1 ELSE ms \div 10,
         ![current].state = "SLEEPING"]
  /\ list' = list_push_back(list, sleep_queue, current)
  /\ Goto("sleepSched")
  /\ UNCHANGED <<used, next_tid, prio_bitmap, current, in_schedule, watchdog_ticks,
                 join, free_stacks, cpu>>

\* sched_lock is held: with a waiter to wake, wq_wake_all unlinks the first one
\* and sched_add_ready then spins on the lock its own caller holds.
task_exit ==
  /\ Calls("exit") /\ current # InitSlot
  /\ LET w == JoinWaiters(current)
     IN  IF w = <<>>
         THEN /\ task_pool' = [task_pool EXCEPT ![current].state = "DEAD",
                                                ![current].finished = TRUE]
              /\ list' = list_push_back(list, dead_queue, current)
              /\ Goto("exitSched")
              /\ UNCHANGED cpu
         ELSE /\ task_pool' = [task_pool EXCEPT ![current].state = "DEAD",
                                                ![current].finished = TRUE,
                                                ![w[1]].state = "READY"]
              /\ list' = list_remove(list, waiters(task_pool[current].join_wq), 1)
              /\ cpu' = "spin"
              /\ UNCHANGED pc
  /\ UNCHANGED <<used, next_tid, prio_bitmap, current, in_schedule, watchdog_ticks,
                 join, free_stacks>>

-----------------------------------------------------------------------------
(* task_join(tid).                                                         *)

\* find_task; a target that has finished or is not there returns at once.
task_join ==
  /\ Calls("join")
  /\ \E t \in used \ {current, InitSlot, IdleSlot} :
       /\ ~task_pool[t].finished
       /\ join' = [join EXCEPT ![current] = [target |-> t, tid |-> task_pool[t].tid]]
       /\ task_pool' = [task_pool EXCEPT ![t].join_wq = IF @ = Null THEN current ELSE @]
  /\ list' = [list EXCEPT ![waiters(current)] = <<>>]
  /\ Goto("join")
  /\ UNCHANGED <<used, next_tid, prio_bitmap, current, in_schedule, watchdog_ticks,
                 free_stacks, cpu>>

Target == task_pool[join[current].target]

\* As if task_join returned after one pass, whatever the target did.
JoinTest_OnePass ==
  /\ At("join")
  /\ Goto("run")
  /\ join' = [join EXCEPT ![current] = NoJoin]
  /\ UNCHANGED <<task_pool, used, next_tid, list, prio_bitmap, current, in_schedule,
                 watchdog_ticks, free_stacks, cpu>>

\* while (!target->finished)
JoinTest ==
  /\ At("join")
  /\ Goto(IF Target.finished THEN "run" ELSE "joinWait")
  /\ join' = IF Target.finished THEN [join EXCEPT ![current] = NoJoin] ELSE join
  /\ UNCHANGED <<task_pool, used, next_tid, list, prio_bitmap, current, in_schedule,
                 watchdog_ticks, free_stacks, cpu>>

\* target->join_wq lies in the frame of a task_join on this target in progress.
FrameLives ==
  \E s \in Slots : s = Target.join_wq /\ join[s].target = join[current].target

\* wq_wait(target->join_wq), up to its schedule().  A NULL queue faults; one in a
\* frame that is gone may still hold its list, or have been overwritten.
JoinWait ==
  /\ At("joinWait")
  /\ \/ /\ ~FrameLives
        /\ cpu' = "fault" /\ UNCHANGED <<task_pool, list, pc>>
     \/ /\ Target.join_wq # Null
        /\ task_pool' = [task_pool EXCEPT ![current].state = "SLEEPING"]
        /\ list' = list_push_back(list, waiters(Target.join_wq), current)
        /\ Goto("joinSched")
        /\ UNCHANGED cpu
  /\ UNCHANGED <<used, next_tid, prio_bitmap, current, in_schedule, watchdog_ticks,
                 join, free_stacks>>

-----------------------------------------------------------------------------
(* Deadlines, QoS classes and the reaper.                                  *)

task_set_deadline ==
  /\ Calls("deadline")
  /\ \E d \in Deadlines : task_pool' = [task_pool EXCEPT ![current].deadline = d]
  /\ UNCHANGED <<used, next_tid, list, prio_bitmap, current, in_schedule,
                 watchdog_ticks, pc, join, free_stacks, cpu>>

\* May be applied to any live task, queued or not; takes no lock.
task_set_qos ==
  /\ Calls("qos")
  /\ \E t \in used \ {IdleSlot}, q \in QosClasses :
       task_pool' = [task_pool EXCEPT ![t].priority = qos_table[q].priority,
                                      ![t].qos = q]
  /\ UNCHANGED <<used, next_tid, list, prio_bitmap, current, in_schedule,
                 watchdog_ticks, pc, join, free_stacks, cpu>>

\* As if the slot were freed with the node still linked.
ReapUnlink_StillLinked ==
  /\ At("run") /\ current \in {InitSlot, IdleSlot}
  /\ ~list_empty(list, dead_queue)
  /\ used' = used \ {list[dead_queue][1]}
  /\ Goto("reap")
  /\ UNCHANGED <<task_pool, next_tid, list, prio_bitmap, current, in_schedule,
                 watchdog_ticks, join, free_stacks, cpu>>

\* As if only the idle task reaped.
ReapUnlink_IdleOnly ==
  /\ At("run") /\ current = IdleSlot
  /\ ~list_empty(list, dead_queue)
  /\ list' = list_remove(list, dead_queue, 1)
  /\ used' = used \ {list[dead_queue][1]}
  /\ Goto("reap")
  /\ UNCHANGED <<task_pool, next_tid, prio_bitmap, current, in_schedule,
                 watchdog_ticks, join, free_stacks, cpu>>

\* sched_reap_dead is called by the idle loop and by the loop of init.
ReapUnlink ==
  /\ At("run") /\ current \in {InitSlot, IdleSlot}
  /\ ~list_empty(list, dead_queue)
  /\ list' = list_remove(list, dead_queue, 1)
  /\ used' = used \ {list[dead_queue][1]}
  /\ Goto("reap")
  /\ UNCHANGED <<task_pool, next_tid, prio_bitmap, current, in_schedule,
                 watchdog_ticks, join, free_stacks, cpu>>

\* As if the reaper gave back the TCB only.
ReapFree_NoStack ==
  /\ At("reap")
  /\ Goto("run")
  /\ UNCHANGED <<task_pool, used, next_tid, list, prio_bitmap, current, in_schedule,
                 watchdog_ticks, join, free_stacks, cpu>>

\* The stack is given back after the lock has been released.
ReapFree ==
  /\ At("reap")
  /\ free_stacks' = free_stacks + 1
  /\ Goto("run")
  /\ UNCHANGED <<task_pool, used, next_tid, list, prio_bitmap, current, in_schedule,
                 watchdog_ticks, join, cpu>>

-----------------------------------------------------------------------------
schedule == wake_sleepers \/ ScheduleStay \/ ScheduleSwitch

Next ==
  \/ sched_tick \/ sched_yield \/ Resched
  \/ wake_sleepers \/ ScheduleStay \/ ScheduleSwitch
  \/ task_create \/ task_sleep \/ task_exit
  \/ task_join \/ JoinTest \/ JoinWait
  \/ task_set_deadline \/ task_set_qos
  \/ ReapUnlink \/ ReapFree

Spec == Init /\ [][Next]_vars

\* schedule() runs to its end with interrupts off.  The PIT interrupt is latched
\* by the PIC, so it is taken sooner or later whatever the threads do.  Idle and
\* init are endless loops around sched_reap_dead: whenever they keep getting the
\* CPU they get to that call, through it, and out of a sleep before it.
Fairness ==
  /\ WF_vars(schedule)
  /\ SF_vars(sched_tick)
  /\ SF_vars(ReapUnlink)
  /\ \A t \in {InitSlot, IdleSlot} : SF_vars(current = t /\ (Resched \/ ReapFree))

FairSpec == Spec /\ Fairness

-----------------------------------------------------------------------------
Blocking == {"sleepSched", "joinSched", "exitSched", "halt"}
Dead(t) == task_pool[t].state = "DEAD"
Alive(k) == \E t \in used : task_pool[t].tid = k /\ ~task_pool[t].finished
Linked(t) == \E L \in Lists : t \in Nodes(list, L)
StateOn(L) == CASE L \in ReadyLists -> "READY"
                [] L = dead_queue -> "DEAD"
                [] OTHER -> "SLEEPING"

\* Every variable has its type: TCB fields, lists of slots, priorities, points.
TypeOK ==
  /\ task_pool \in [Slots -> Tcb]
  /\ used \subseteq Slots
  /\ next_tid \in Nat
  /\ list \in [Lists -> Seq(Slots)]
  /\ prio_bitmap \subseteq Prios
  /\ current \in Slots
  /\ in_schedule \in BOOLEAN
  /\ watchdog_ticks \in Nat
  /\ pc \in [Slots -> Points]
  /\ join \in [Slots -> [target : Slots \cup {Null}, tid : Nat]]
  /\ free_stacks \in Nat
  /\ cpu \in {"ok", "spin", "fault"}

\* A task has one run_node, so it is linked at most once over all the queues of
\* the scheduler and the wait queues: no list_push_back of a node still linked
\* (which would tie two lists together) and no double insertion.
OneList == LinkedOnce(list)

\* What a queue holds is what its name says: queued to run means READY, on the
\* sleep queue or a wait queue means SLEEPING, on dead_queue means DEAD and
\* finished; and no queue reaches a TCB that has been given back to tcb_bitmap.
QueueState ==
  \A L \in Lists : \A t \in Nodes(list, L) :
    /\ t \in used
    /\ task_pool[t].state = StateOn(L)
    /\ L = dead_queue => task_pool[t].finished

\* A bit of prio_bitmap is set exactly when its queue is not empty, whatever
\* priority changes, wake-ups and dispatches came between: bitmap_dequeue never
\* takes the sentinel of an empty queue for a task, and no queue is forgotten.
BitmapExact == \A p \in Prios : p \in prio_bitmap <=> ~list_empty(list, prio_queue(p))

\* Only the current task is RUNNING, and its TCB and stack have not been given
\* back: neither the reaper nor task_create touches the task on the CPU.
RunningIsCurrent ==
  /\ \A t \in Slots : task_pool[t].state = "RUNNING" => t = current
  /\ current \in used

\* The current task is linked in a queue only on its way through schedule() out
\* of a blocking call: the code it runs otherwise may queue it.
CurrentUnlinked ==
  Linked(current) => in_schedule \/ pc[current] \in Blocking

\* Each 16 KB stack is in the page allocator, under a task that has not been
\* reaped, or in the hands of the reaper between the unlock and pmm_free_pages:
\* none leaks and none is freed twice, though idle and init may reap at once.
StacksConserved ==
  free_stacks + Cardinality(used \ {InitSlot})
    + Cardinality({t \in Slots : pc[t] = "reap"}) = NumStacks

\* watchdog_check starts over before the limit of sched_tick is reached.
WatchdogBelowLimit == watchdog_ticks < WATCHDOG_THRESHOLD

\* A task that is not on the CPU is where a later step will find it: READY on a
\* ready queue, SLEEPING on a queue something wakes, DEAD on the reaper's queue.
\* Idle is kept aside and needs no queue.
NothingLost ==
  \A t \in used \ {current, IdleSlot} : Linked(t)

\* TASK_READY means "in the ready queue, waiting for CPU".
ReadyIsQueued ==
  \A t \in used \ {current, IdleSlot} :
    task_pool[t].state = "READY" =>
      \E L \in ReadyLists : t \in Nodes(list, L)

\* The deadline queue is in order of deadline and holds only tasks that have
\* one, so that edf_pick may take its head.
DeadlinesSorted ==
  LET q == list[deadline_queue]
  IN  /\ \A i \in 1 .. Len(q) : task_pool[q[i]].deadline > 0
      /\ \A i, j \in 1 .. Len(q) :
           i < j => task_pool[q[i]].deadline <= task_pool[q[j]].deadline

\* A task that has exited stays DEAD until its slot is reaped: no wake-up, no
\* late tick and no dispatch brings it back.
DeadStaysDead ==
  [][\A t \in used \cap used' :
       task_pool[t].state = "DEAD" => task_pool'[t].state = "DEAD"]_vars

\* schedule() hands the CPU to a task no other queued task should go before: the
\* earliest deadline, and without deadlines the least priority number.
BestTaken ==
  current' # current =>
    \A L \in ReadyLists : \A i \in 1 .. Len(list[L]) :
      LET t == task_pool[list[L][i]]
          n == task_pool[current']
      IN  IF L = deadline_queue THEN 0 < n.deadline /\ n.deadline <= t.deadline
          ELSE n.deadline > 0 \/ \E p \in Prios :
                 /\ p <= L[2] /\ ~list_empty(list, prio_queue(p))
                 /\ list[prio_queue(p)][1] = current'

\* Every dispatch of schedule() takes the best of the queued tasks.
BestIsDispatched == [][BestTaken]_vars

\* "Tasks with deadlines are always preferred over non-deadline tasks": a running
\* task with a deadline does not lose the CPU to one without.
DeadlinePreferred ==
  [][current' # current /\ task_pool[current].state = "RUNNING"
       /\ task_pool[current].deadline > 0 => task_pool[current'].deadline > 0]_vars

\* task_join returns 0 only when the thread it was asked for has finished.
JoinSound ==
  [][\A t \in Slots : pc[t] = "join" /\ pc'[t] = "run" => ~Alive(join[t].tid)]_vars

\* Waking the joiners of an exiting task does not stop the CPU.
ExitWakesJoiners == cpu # "spin"

\* While a thread is in task_join its target pointer is the TCB it looked up.
JoinTargetStays ==
  \A t \in used : join[t].target # Null => task_pool[join[t].target].tid = join[t].tid

\* A thread that is ready to run gets the CPU.
ReadyRuns ==
  \A t \in Slots : task_pool[t].state = "READY" /\ t \in used /\ t # IdleSlot
                     ~> task_pool[t].state = "RUNNING"

\* A thread that has exited is reaped: its slot and its stack become free.
DeadReaped == \A k \in 2 .. MaxTid :
  (\E t \in used : task_pool[t].tid = k /\ Dead(t))
    ~> ~\E t \in used : task_pool[t].tid = k

\* A thread that never gives up the CPU by itself is killed by the watchdog.
HungTaskKilled == \A k \in 2 .. MaxTid : Alive(k) ~> ~Alive(k)

=============================================================================
