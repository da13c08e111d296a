---------------------------- MODULE SchedProofs ----------------------------
(***************************************************************************)
(* Proofs about Sched, for every number of slots, stacks, thread ids, QoS  *)
(* classes, deadlines and sleep times.                                     *)
(*                                                                         *)
(* The safety invariants are proved together: that a node is linked once   *)
(* needs the states of queued tasks (a RUNNING task is on no queue), these *)
(* need the bitmap (schedule() takes a task, not a list head), and all of  *)
(* them need the current task to be off the queues while it runs.          *)
(***************************************************************************)
EXTENDS Sched, IntrusiveListsProofs

\* The inductive invariant.  The last conjuncts say that init and idle are never
\* reaped, that idle never blocks, that the watchdog branch that kills is never
\* taken, and that a thread inside task_join has a target.
IInv ==
  /\ TypeOK /\ OneList /\ QueueState /\ BitmapExact /\ RunningIsCurrent
  /\ CurrentUnlinked /\ WatchdogBelowLimit
  /\ InitSlot \in used /\ IdleSlot \in used
  /\ task_pool[InitSlot].state # "DEAD"
  /\ task_pool[IdleSlot].state \in {"READY", "RUNNING"}
  /\ pc[IdleSlot] \in {"run", "reap"}
  /\ \A t \in Slots : pc[t] \in {"join", "joinWait", "joinSched"} => join[t].target \in Slots

\* BitmapExact for a given assignment of lists and bits.
BitmapFor(ls, bm) ==
  /\ bm \subseteq Prios
  /\ \A p \in Prios : p \in bm <=> ~list_empty(ls, prio_queue(p))

-----------------------------------------------------------------------------
(* The names of the lists, and typing facts used throughout.               *)

\* The names of the lists are distinct, and a ready list is the deadline queue or a
\* priority queue.
LEMMA ListNames ==
  /\ ReadyLists \subseteq Lists
  /\ sleep_queue \in Lists /\ dead_queue \in Lists /\ deadline_queue \in ReadyLists
  /\ \A p \in Prios : prio_queue(p) \in ReadyLists /\ prio_queue(p) # deadline_queue
  /\ \A p, q \in Prios : prio_queue(p) = prio_queue(q) => p = q
  /\ \A s \in Slots : waiters(s) \in Lists
  /\ sleep_queue \notin ReadyLists /\ dead_queue \notin ReadyLists
  /\ sleep_queue # dead_queue
  /\ \A s \in Slots : waiters(s) \notin ReadyLists /\ waiters(s) # dead_queue
  /\ \A L \in ReadyLists : L = deadline_queue \/ \E p \in Prios : L = prio_queue(p)
  BY DEF ReadyLists, Lists, sleep_queue, dead_queue, deadline_queue, prio_queue, waiters

\* The state a list stands for.
LEMMA StateOnLists ==
  /\ \A L \in ReadyLists : StateOn(L) = "READY"
  /\ StateOn(dead_queue) = "DEAD"
  /\ StateOn(sleep_queue) = "SLEEPING"
  /\ \A s \in Slots : StateOn(waiters(s)) = "SLEEPING"
  /\ \A L \in Lists : StateOn(L) \in {"READY", "DEAD", "SLEEPING"}
  BY ListNames DEF StateOn

\* Slots 0 and 1 exist: sched_init fills them.
LEMMA SlotFacts == InitSlot \in Slots /\ IdleSlot \in Slots /\ InitSlot # IdleSlot /\ Null \notin Slots
  BY SizesAssumption DEF InitSlot, IdleSlot, Slots, Null

\* The priorities of the QoS table are priorities, and all are numbers.
LEMMA PrioFacts ==
  /\ TASK_PRIO_HIGH \in Prios /\ TASK_PRIO_NORMAL \in Prios
  /\ \A q \in QosClasses : qos_table[q].priority \in Prios /\ q \in 0 .. 4
  /\ Prios \subseteq Nat
<1>1. TASK_PRIO_HIGH \in Prios /\ TASK_PRIO_NORMAL \in Prios
  BY DEF Prios
<1>2. \A q \in QosClasses : qos_table[q].priority \in Prios /\ q \in 0 .. 4
  BY InputsAssumption DEF Prios
<1>3. \A q \in 0 .. 4 : qos_table[q].priority \in Nat
  BY DEF qos_table
<1>4. Prios \subseteq Nat
  <2>1. \A q \in QosClasses : qos_table[q].priority \in Nat
    BY <1>3, InputsAssumption
  <2> QED
    BY <2>1 DEF Prios, TASK_PRIO_HIGH, TASK_PRIO_NORMAL
<1> QED
  BY <1>1, <1>2, <1>4

\* A cleared TCB is well typed.
LEMMA ZeroTcbType == ZeroTcb \in Tcb
  BY PrioFacts, WrapAssumption DEF ZeroTcb, Tcb, TASK_PRIO_HIGH

\* An assignment to the state of one task.
WithState(P, t, v) == [P EXCEPT ![t].state = v]

\* It keeps the type, and changes that task only.
LEMMA SetState ==
  ASSUME NEW P \in [Slots -> Tcb], NEW t \in Slots,
         NEW v \in {"READY", "RUNNING", "SLEEPING", "DEAD"}
  PROVE  /\ WithState(P, t, v) \in [Slots -> Tcb]
         /\ WithState(P, t, v)[t].state = v
         /\ WithState(P, t, v)[t].finished = P[t].finished
         /\ \A x \in Slots : x # t => WithState(P, t, v)[x] = P[x]
<1> DEFINE r == [P[t] EXCEPT !.state = v]
<1>1. P[t] \in Tcb
  OBVIOUS
<1>2. r \in Tcb /\ r.state = v /\ r.finished = P[t].finished
  BY <1>1 DEF Tcb
<1>3. WithState(P, t, v) = [P EXCEPT ![t] = r]
  BY DEF WithState
<1> HIDE DEF r
<1> QED
  BY <1>2, <1>3

-----------------------------------------------------------------------------
(* The list operations, on the lists of the scheduler.                     *)

\* list_push_back of an unlinked task.
LEMMA PushOnto ==
  ASSUME NEW ls \in [Lists -> Seq(Slots)], NEW L \in Lists, NEW t \in Slots,
         LinkedOnce(ls), \A M \in Lists : t \notin Nodes(ls, M)
  PROVE  /\ list_push_back(ls, L, t) \in [Lists -> Seq(Slots)]
         /\ LinkedOnce(list_push_back(ls, L, t))
         /\ Nodes(list_push_back(ls, L, t), L) = Nodes(ls, L) \cup {t}
         /\ \A M \in Lists \ {L} : /\ list_push_back(ls, L, t)[M] = ls[M]
                                   /\ Nodes(list_push_back(ls, L, t), M) = Nodes(ls, M)
  BY PushBackNodes

\* Insertion of an unlinked task before position k.
LEMMA InsertInto ==
  ASSUME NEW ls \in [Lists -> Seq(Slots)], NEW L \in Lists, NEW t \in Slots, NEW k \in 1 .. Len(ls[L]),
         LinkedOnce(ls), \A M \in Lists : t \notin Nodes(ls, M)
  PROVE  /\ list_insert(ls, L, k, t) \in [Lists -> Seq(Slots)]
         /\ LinkedOnce(list_insert(ls, L, k, t))
         /\ Nodes(list_insert(ls, L, k, t), L) = Nodes(ls, L) \cup {t}
         /\ \A M \in Lists \ {L} : /\ list_insert(ls, L, k, t)[M] = ls[M]
                                   /\ Nodes(list_insert(ls, L, k, t), M) = Nodes(ls, M)
  BY ListInsertNodes

\* list_remove_node takes the task off the only list it is on.
LEMMA TakeOff ==
  ASSUME NEW ls \in [Lists -> Seq(Slots)], NEW L \in Lists, NEW k \in 1 .. Len(ls[L]), LinkedOnce(ls)
  PROVE  /\ list_remove(ls, L, k) \in [Lists -> Seq(Slots)]
         /\ LinkedOnce(list_remove(ls, L, k))
         /\ Nodes(list_remove(ls, L, k), L) = Nodes(ls, L) \ {ls[L][k]}
         /\ ls[L][k] \in Nodes(ls, L)
         /\ \A M \in Lists \ {L} : /\ list_remove(ls, L, k)[M] = ls[M]
                                   /\ Nodes(list_remove(ls, L, k), M) = Nodes(ls, M)
                                   /\ ls[L][k] \notin Nodes(ls, M)
<1>1. /\ list_remove(ls, L, k) \in [Lists -> Seq(Slots)]
      /\ LinkedOnce(list_remove(ls, L, k))
  BY RemoveListNodes
<1>2. /\ Nodes(list_remove(ls, L, k), L) = Nodes(ls, L) \ {ls[L][k]}
      /\ ls[L][k] \in Nodes(ls, L)
  BY RemoveListNodes
<1>3. ASSUME NEW M \in Lists \ {L}
      PROVE  /\ list_remove(ls, L, k)[M] = ls[M]
             /\ Nodes(list_remove(ls, L, k), M) = Nodes(ls, M)
             /\ ls[L][k] \notin Nodes(ls, M)
  BY RemoveListNodes
<1> QED
  BY <1>1, <1>2, <1>3

\* A list is empty exactly when it has no nodes, and its head is a node.
LEMMA ListBasics ==
  ASSUME NEW ls \in [Lists -> Seq(Slots)], NEW L \in Lists
  PROVE  /\ ls[L] \in Seq(Slots) /\ Len(ls[L]) \in Nat
         /\ Nodes(ls, L) \subseteq Slots
         /\ list_empty(ls, L) <=> Nodes(ls, L) = {}
         /\ ~list_empty(ls, L) => 1 \in 1 .. Len(ls[L]) /\ ls[L][1] \in Nodes(ls, L)
         /\ \A i \in 1 .. Len(ls[L]) : ls[L][i] \in Nodes(ls, L)
<1>1. ls[L] \in Seq(Slots)
  OBVIOUS
<1> QED
  BY <1>1, NodesBasics DEF Nodes, list_empty
-----------------------------------------------------------------------------
(* bitmap_enqueue and the pick of schedule().                              *)

\* bitmap_enqueue links an unlinked task on one ready list, and the bitmap stays
\* exact: only the priority queues have a bit.
LEMMA Enqueue ==
  ASSUME task_pool \in [Slots -> Tcb],
         NEW ls \in [Lists -> Seq(Slots)], NEW t \in Slots, NEW bm,
         LinkedOnce(ls), \A M \in Lists : t \notin Nodes(ls, M), BitmapFor(ls, bm)
  PROVE  \E L \in ReadyLists :
           /\ bitmap_enqueue(ls, t) \in [Lists -> Seq(Slots)]
           /\ LinkedOnce(bitmap_enqueue(ls, t))
           /\ Nodes(bitmap_enqueue(ls, t), L) = Nodes(ls, L) \cup {t}
           /\ \A M \in Lists \ {L} : Nodes(bitmap_enqueue(ls, t), M) = Nodes(ls, M)
           /\ BitmapFor(bitmap_enqueue(ls, t), bitmap_set(bm, t))
<1> DEFINE new == bitmap_enqueue(ls, t)
<1>0. /\ task_pool[t].priority \in Prios /\ task_pool[t].deadline \in Nat
      /\ \A x \in Slots : task_pool[x].deadline \in Nat
  BY DEF Tcb
<1>1. CASE task_pool[t].deadline > 0
  <2>1. /\ new \in [Lists -> Seq(Slots)] /\ LinkedOnce(new)
        /\ Nodes(new, deadline_queue) = Nodes(ls, deadline_queue) \cup {t}
        /\ \A M \in Lists \ {deadline_queue} :
             new[M] = ls[M] /\ Nodes(new, M) = Nodes(ls, M)
    <3> DEFINE q == ls[deadline_queue]
               later == {i \in 1 .. Len(q) : task_pool[t].deadline < task_pool[q[i]].deadline}
               k == CHOOSE i \in later : \A j \in later : i <= j
    <3>1. new = IF later = {} THEN list_push_back(ls, deadline_queue, t)
                ELSE list_insert(ls, deadline_queue, k, t)
      BY <1>1 DEF bitmap_enqueue, deadline_enqueue
    <3>2. deadline_queue \in Lists
      BY ListNames
    <3>3. CASE later = {}
      <4>1. new = list_push_back(ls, deadline_queue, t)
        BY <3>1, <3>3
      <4> HIDE DEF new
      <4> QED
        BY <4>1, <3>2, PushOnto
    <3>4. CASE later # {}
      <4>1. k \in 1 .. Len(q)
        <5>1. later \in SUBSET Nat
          BY <3>2, ListBasics
        <5> HIDE DEF later
        <5>2. k \in later
          BY <5>1, <3>4, LeastNat
        <5> QED
          BY <5>2 DEF later
      <4>2. new = list_insert(ls, deadline_queue, k, t)
        BY <3>1, <3>4
      <4> HIDE DEF new, k
      <4> QED
        BY <4>1, <4>2, <3>2, InsertInto
    <3> QED
      BY <3>3, <3>4
  <2>2. bitmap_set(bm, t) = bm
    BY <1>1 DEF bitmap_set
  <2> HIDE DEF new
  <2>3. \A p \in Prios : new[prio_queue(p)] = ls[prio_queue(p)]
    BY <2>1, ListNames
  <2>4. BitmapFor(new, bitmap_set(bm, t))
    BY <2>2, <2>3 DEF BitmapFor, list_empty
  <2>5. deadline_queue \in ReadyLists
    BY ListNames
  <2> QED
    BY <2>1, <2>4, <2>5 DEF new
<1>2. CASE ~(task_pool[t].deadline > 0)
  <2> DEFINE p == task_pool[t].priority
  <2>1. new = list_push_back(ls, prio_queue(p), t)
    BY <1>2 DEF bitmap_enqueue
  <2>2. bitmap_set(bm, t) = bm \cup {p}
    BY <1>2 DEF bitmap_set
  <2>3. p \in Prios /\ prio_queue(p) \in ReadyLists /\ prio_queue(p) \in Lists
    BY <1>0, ListNames
  <2> HIDE DEF new, p
  <2>4. /\ new \in [Lists -> Seq(Slots)] /\ LinkedOnce(new)
        /\ Nodes(new, prio_queue(p)) = Nodes(ls, prio_queue(p)) \cup {t}
        /\ \A M \in Lists \ {prio_queue(p)} :
             new[M] = ls[M] /\ Nodes(new, M) = Nodes(ls, M)
    BY <2>1, <2>3, PushOnto
  <2>5. ASSUME NEW r \in Prios
        PROVE  r \in bm \cup {p} <=> ~list_empty(new, prio_queue(r))
    <3>1. CASE r = p
      BY <3>1, <2>3, <2>4, ListBasics
    <3>2. CASE r # p
      <4>1. new[prio_queue(r)] = ls[prio_queue(r)]
        BY <3>2, <2>3, <2>4, ListNames
      <4> QED
        BY <4>1, <3>2 DEF BitmapFor, list_empty
    <3> QED
      BY <3>1, <3>2
  <2>6. BitmapFor(new, bitmap_set(bm, t))
    BY <2>2, <2>3, <2>5 DEF BitmapFor
  <2> QED
    BY <2>3, <2>4, <2>6 DEF new
<1> QED
  BY <1>1, <1>2

\* The bitmap has a first bit, and its queue has a first task.
LEMMA FirstBit ==
  ASSUME NEW bm \in SUBSET Prios, bm # {}
  PROVE  bitmap_find_first(bm) \in bm
<1>1. bm \in SUBSET Nat
  BY PrioFacts
<1> QED
  BY <1>1, LeastNat DEF bitmap_find_first

\* What schedule() picks: a READY task taken off the one list it was on, or idle,
\* which is then on no list; the bitmap stays exact.
LEMMA PickFacts ==
  ASSUME IInv
  PROVE  /\ Pick \in used /\ Pick \in Slots
         /\ task_pool[Pick].state \in {"READY", "RUNNING"}
         /\ ListsAfterPick \in [Lists -> Seq(Slots)]
         /\ LinkedOnce(ListsAfterPick)
         /\ \A M \in Lists : Nodes(ListsAfterPick, M) = Nodes(list, M) \ {Pick}
         /\ BitmapFor(ListsAfterPick, BitmapAfterPick)
<1>0. /\ list \in [Lists -> Seq(Slots)] /\ LinkedOnce(list) /\ BitmapFor(list, prio_bitmap)
      /\ prio_bitmap \in SUBSET Prios
  BY DEF IInv, TypeOK, OneList, BitmapExact, BitmapFor
<1>1. CASE Runnable
  <2>1. PickList \in ReadyLists /\ ~list_empty(list, PickList)
    <3>1. CASE ~list_empty(list, deadline_queue)
      BY <3>1, ListNames DEF PickList
    <3>2. CASE list_empty(list, deadline_queue)
      <4>1. PickList = prio_queue(bitmap_find_first(prio_bitmap)) /\ prio_bitmap # {}
        BY <3>2, <1>1 DEF PickList, Runnable
      <4>2. bitmap_find_first(prio_bitmap) \in prio_bitmap
        BY <4>1, <1>0, FirstBit
      <4> QED
        BY <4>1, <4>2, <1>0, ListNames DEF BitmapFor
    <3> QED
      BY <3>1, <3>2
  <2>2. PickList \in Lists /\ 1 \in 1 .. Len(list[PickList])
    BY <2>1, <1>0, ListNames, ListBasics
  <2>3. Pick = list[PickList][1] /\ ListsAfterPick = list_remove(list, PickList, 1)
    BY <1>1 DEF Pick, ListsAfterPick
  <2>4. /\ ListsAfterPick \in [Lists -> Seq(Slots)] /\ LinkedOnce(ListsAfterPick)
        /\ Nodes(ListsAfterPick, PickList) = Nodes(list, PickList) \ {Pick}
        /\ Pick \in Nodes(list, PickList)
        /\ \A M \in Lists \ {PickList} :
             /\ ListsAfterPick[M] = list[M] /\ Nodes(ListsAfterPick, M) = Nodes(list, M)
             /\ Pick \notin Nodes(list, M)
    BY <2>2, <2>3, <1>0, TakeOff
  <2>5. Pick \in used /\ Pick \in Slots /\ task_pool[Pick].state = "READY"
    BY <2>1, <2>2, <2>4, StateOnLists DEF IInv, QueueState, TypeOK
  <2>6. \A M \in Lists : Nodes(ListsAfterPick, M) = Nodes(list, M) \ {Pick}
    BY <2>4
  <2>7. BitmapFor(ListsAfterPick, BitmapAfterPick)
    <3>1. CASE ~list_empty(list, deadline_queue)
      <4>1. PickList = deadline_queue /\ BitmapAfterPick = prio_bitmap
        BY <3>1 DEF PickList, BitmapAfterPick
      <4>2. \A p \in Prios : ListsAfterPick[prio_queue(p)] = list[prio_queue(p)]
        BY <4>1, <2>4, ListNames
      <4> QED
        BY <4>1, <4>2, <1>0 DEF BitmapFor, list_empty
    <3>2. CASE list_empty(list, deadline_queue)
      <4> DEFINE p == bitmap_find_first(prio_bitmap)
      <4>1. PickList = prio_queue(p) /\ prio_bitmap # {}
        BY <3>2, <1>1 DEF PickList, Runnable
      <4>2. p \in prio_bitmap /\ p \in Prios
        BY <4>1, <1>0, FirstBit
      <4>3. BitmapAfterPick = IF Len(list[PickList]) = 1 THEN prio_bitmap \ {p} ELSE prio_bitmap
        BY <3>2, <4>1 DEF BitmapAfterPick
      <4> HIDE DEF p
      <4>4. list_empty(ListsAfterPick, PickList) <=> Len(list[PickList]) = 1
        <5>1. /\ list[PickList] \in Seq(Slots)
              /\ ListsAfterPick[PickList] = Without(list[PickList], 1)
          BY <2>2, <2>3, <1>0 DEF list_remove
        <5>2. Len(ListsAfterPick[PickList]) = Len(list[PickList]) - 1
          BY <5>1, <2>2, RemoveNodes
        <5>3. ListsAfterPick[PickList] \in Seq(Slots) /\ Len(list[PickList]) \in Nat
          BY <2>2, <2>4, <1>0
        <5>4. ListsAfterPick[PickList] = <<>> <=> Len(ListsAfterPick[PickList]) = 0
          BY <5>3
        <5> QED
          BY <5>2, <5>3, <5>4 DEF list_empty
      <4>5. ASSUME NEW r \in Prios
            PROVE  r \in BitmapAfterPick <=> ~list_empty(ListsAfterPick, prio_queue(r))
        <5>1. CASE r = p
          BY <5>1, <4>1, <4>2, <4>3, <4>4
        <5>2. CASE r # p
          <6>1. ListsAfterPick[prio_queue(r)] = list[prio_queue(r)]
            BY <5>2, <4>1, <4>2, <2>4, ListNames
          <6> QED
            BY <6>1, <5>2, <4>3, <1>0 DEF BitmapFor, list_empty
        <5> QED
          BY <5>1, <5>2
      <4> QED
        BY <4>3, <4>5, <1>0 DEF BitmapFor
    <3> QED
      BY <3>1, <3>2
  <2> QED
    BY <2>4, <2>5, <2>6, <2>7
<1>2. CASE ~Runnable
  <2>1. Pick = IdleSlot /\ ListsAfterPick = list /\ BitmapAfterPick = prio_bitmap
    BY <1>2 DEF Pick, ListsAfterPick, BitmapAfterPick, Runnable
  <2>2. ASSUME NEW M \in Lists PROVE IdleSlot \notin Nodes(list, M)
    <3>1. CASE M \in ReadyLists
      <4>1. list_empty(list, deadline_queue) /\ \A p \in Prios : list_empty(list, prio_queue(p))
        BY <1>0, <1>2 DEF Runnable, BitmapFor
      <4>2. M = deadline_queue \/ \E p \in Prios : M = prio_queue(p)
        BY <3>1, ListNames
      <4>3. list_empty(list, M)
        BY <4>1, <4>2
      <4> QED
        BY <4>3, <1>0, ListBasics
    <3>2. CASE M \notin ReadyLists
      BY <3>2 DEF IInv, QueueState, StateOn
    <3> QED
      BY <3>1, <3>2
  <2> QED
    BY <2>1, <2>2, <1>0, SlotFacts DEF IInv
<1> QED
  BY <1>1, <1>2
-----------------------------------------------------------------------------
(* Preservation of IInv, one lemma per action.                             *)

\* The facts about the lists that every step starts from.
LEMMA Facts ==
  ASSUME IInv
  PROVE  /\ list \in [Lists -> Seq(Slots)] /\ LinkedOnce(list) /\ BitmapFor(list, prio_bitmap)
         /\ task_pool \in [Slots -> Tcb] /\ used \subseteq Slots /\ current \in Slots
         /\ \A M \in Lists : Nodes(list, M) \subseteq Slots
         /\ \A M \in Lists : \A x \in Nodes(list, M) :
              x \in used /\ task_pool[x].state = StateOn(M)
<1>1. /\ list \in [Lists -> Seq(Slots)] /\ LinkedOnce(list) /\ BitmapFor(list, prio_bitmap)
      /\ task_pool \in [Slots -> Tcb] /\ used \subseteq Slots /\ current \in Slots
  BY DEF IInv, TypeOK, OneList, BitmapExact, BitmapFor
<1>2. \A M \in Lists : Nodes(list, M) \subseteq Slots
  BY <1>1, ListBasics
<1>3. \A M \in Lists : \A x \in Nodes(list, M) : x \in used /\ task_pool[x].state = StateOn(M)
  BY Zenon DEF IInv, QueueState
<1> QED
  BY <1>1, <1>2, <1>3

\* Who is on no list: a RUNNING task, a free slot, and the current task while it
\* executes its own code.
LEMMA Unlinked ==
  ASSUME IInv
  PROVE  /\ \A t \in Slots : task_pool[t].state = "RUNNING" => \A M \in Lists : t \notin Nodes(list, M)
         /\ \A t \in Slots \ used : \A M \in Lists : t \notin Nodes(list, M)
         /\ \A point \in {"run", "reap", "join", "joinWait"} :
              At(point) => \A M \in Lists : current \notin Nodes(list, M)
<1>1. ASSUME NEW t \in Slots, task_pool[t].state = "RUNNING", NEW M \in Lists
      PROVE  t \notin Nodes(list, M)
  BY <1>1, StateOnLists DEF IInv, QueueState
<1>2. ASSUME NEW t \in Slots \ used, NEW M \in Lists
      PROVE  t \notin Nodes(list, M)
  BY <1>2 DEF IInv, QueueState
<1>3. ASSUME NEW point \in {"run", "reap", "join", "joinWait"}, At(point), NEW M \in Lists
      PROVE  current \notin Nodes(list, M)
  BY <1>3 DEF IInv, CurrentUnlinked, Linked, Blocking, At
<1> QED
  BY <1>1, <1>2, <1>3

\* The conjuncts of IInv' that talk about the lists, when the lists stay as they
\* are and no task changes state.
LEMMA SameLists ==
  ASSUME IInv, UNCHANGED <<list, prio_bitmap, used, current>>,
         \A t \in Slots : /\ task_pool'[t].state = task_pool[t].state
                          /\ task_pool'[t].finished = task_pool[t].finished
  PROVE  /\ OneList' /\ QueueState' /\ BitmapExact' /\ RunningIsCurrent'
         /\ (InitSlot \in used)' /\ (IdleSlot \in used)'
         /\ (task_pool[InitSlot].state # "DEAD")'
         /\ (task_pool[IdleSlot].state \in {"READY", "RUNNING"})'
<1>1. OneList'
  BY DEF IInv, OneList
<1>2. BitmapExact'
  BY DEF IInv, BitmapExact
<1>3. RunningIsCurrent'
  BY DEF IInv, RunningIsCurrent
<1>4. QueueState'
  <2>1. \A L \in Lists : \A t \in Nodes(list, L) : t \in Slots
    BY ListBasics DEF IInv, TypeOK
  <2> QED
    BY <2>1 DEF IInv, QueueState
<1> QED
  BY <1>1, <1>2, <1>3, <1>4, SlotFacts DEF IInv

\* sched_tick: the kill branch is out of reach, so no task changes state.
LEMMA TickStep == IInv /\ sched_tick => IInv'
<1> SUFFICES ASSUME IInv, sched_tick PROVE IInv'
  OBVIOUS
<1>1. /\ ~WatchdogKills
      /\ watchdog_ticks' \in Nat /\ watchdog_ticks' < WATCHDOG_THRESHOLD
  <2>1. watchdog_ticks \in Nat /\ watchdog_ticks < WATCHDOG_THRESHOLD
    BY DEF IInv, TypeOK, WatchdogBelowLimit
  <2>2. watchdog_ticks' = watchdog_check(watchdog_ticks + 1)
    BY DEF sched_tick
  <2> QED
    BY <2>1, <2>2, WatchdogAssumption DEF WatchdogKills, watchdog_check
<1>2. Account /\ UNCHANGED <<list, prio_bitmap, used, next_tid, current, pc, join, free_stacks, cpu>>
  BY <1>1 DEF sched_tick, Account
<1>3. task_pool' \in [Slots -> Tcb]
  <2>1. ASSUME NEW t \in Slots PROVE Aged(t) \in Tcb
    <3>1. task_pool[t] \in Tcb
      BY DEF IInv, TypeOK
    <3>2. (task_pool[t].ticks_used + 1) % TickWrap \in 0 .. TickWrap - 1
      BY <3>1, WrapAssumption DEF Tcb
    <3> DEFINE left == IF task_pool[t].sleep_left > 0 THEN task_pool[t].sleep_left - 1 ELSE 0
               ticks == IF t = current THEN (task_pool[t].ticks_used + 1) % TickWrap
                        ELSE task_pool[t].ticks_used
    <3>3. left \in Nat /\ ticks \in 0 .. TickWrap - 1
      BY <3>1, <3>2 DEF Tcb
    <3> HIDE DEF left, ticks
    <3> DEFINE r == [task_pool[t] EXCEPT !.sleep_left = left]
    <3>4. r \in Tcb
      BY <3>1, <3>3 DEF Tcb
    <3>5. Aged(t) = [r EXCEPT !.ticks_used = ticks]
      BY <3>1 DEF Aged, Tcb, left, ticks
    <3> HIDE DEF r
    <3> QED
      BY <3>3, <3>4, <3>5 DEF Tcb
  <2> QED
    BY <1>2, <2>1 DEF Account
<1>4. \A t \in Slots : /\ task_pool'[t].state = task_pool[t].state
                       /\ task_pool'[t].finished = task_pool[t].finished
  <2>1. ASSUME NEW t \in Slots
        PROVE  /\ task_pool'[t].state = task_pool[t].state
               /\ task_pool'[t].finished = task_pool[t].finished
    <3>1. task_pool[t] \in Tcb /\ task_pool'[t] = Aged(t)
      BY <1>2 DEF IInv, TypeOK, Account
    <3> QED
      BY <3>1 DEF Aged, Tcb
  <2> QED
    BY <2>1
<1>5. TypeOK'
  <2>1. in_schedule' \in BOOLEAN
    BY <1>2 DEF Account, QuantumExpired
  <2> QED
    BY <1>1, <1>2, <1>3, <2>1 DEF IInv, TypeOK
<1>6. CurrentUnlinked'
  BY <1>2 DEF IInv, CurrentUnlinked, Linked, sched_tick
<1> QED
  BY <1>1, <1>2, <1>4, <1>5, <1>6, SameLists DEF IInv, WatchdogBelowLimit

\* Entering schedule(): the lists do not change.
LEMMA EnterStep == IInv /\ (sched_yield \/ Resched) => IInv'
<1> SUFFICES ASSUME IInv, sched_yield \/ Resched PROVE IInv'
  OBVIOUS
<1>1. /\ UNCHANGED <<task_pool, used, next_tid, list, prio_bitmap, current, watchdog_ticks,
                     join, free_stacks, cpu>>
      /\ in_schedule' = TRUE
  BY DEF sched_yield, Resched
<1>2. /\ pc' \in [Slots -> Points]
      /\ pc'[IdleSlot] \in {"run", "reap"}
      /\ \A t \in Slots : pc'[t] \in {"join", "joinWait", "joinSched"} => join[t].target \in Slots
  <2>1. CASE sched_yield
    BY <2>1 DEF sched_yield, IInv, TypeOK
  <2>2. CASE Resched
    <3>1. pc \in [Slots -> Points] /\ current \in Slots
      BY DEF IInv, TypeOK
    <3>2. PICK point \in {"run", "join", "halt"} :
            /\ pc' = [pc EXCEPT ![current] = point]
            /\ pc[current] \in {"sleepSched", "joinSched", "exitSched"}
            /\ point = "join" => pc[current] = "joinSched"
      BY <2>2 DEF Resched, At, Goto
    <3>3. current # IdleSlot
      BY <3>2 DEF IInv
    <3> QED
      BY <3>1, <3>2, <3>3, SlotFacts DEF IInv, Points
  <2> QED
    BY <2>1, <2>2
<1>3. TypeOK'
  BY <1>1, <1>2 DEF IInv, TypeOK
<1>4. CurrentUnlinked'
  BY <1>1 DEF CurrentUnlinked
<1> QED
  BY <1>1, <1>2, <1>3, <1>4, SameLists DEF IInv, WatchdogBelowLimit

\* QueueState after a step that puts t on L, and leaves the state of all other
\* tasks alone.
LEMMA QueueStep ==
  ASSUME IInv, NEW L \in Lists, NEW t \in Slots, used \subseteq used',
         \A M \in Lists : \A x \in Nodes(list', M) :
           (M = L /\ x = t) \/ (x \in Nodes(list, M) /\ x # t),
         \A x \in Slots : x # t =>
           /\ task_pool'[x].state = task_pool[x].state
           /\ task_pool'[x].finished = task_pool[x].finished,
         t \in used', task_pool'[t].state = StateOn(L),
         L = dead_queue => task_pool'[t].finished
  PROVE  QueueState'
<1> SUFFICES ASSUME NEW M \in Lists, NEW x \in Nodes(list', M)
             PROVE  /\ x \in used'
                    /\ task_pool'[x].state = StateOn(M)
                    /\ M = dead_queue => task_pool'[x].finished
  BY Zenon DEF QueueState, StateOn
<1>1. CASE M = L /\ x = t
  BY <1>1
<1>2. CASE x \in Nodes(list, M) /\ x # t
  <2>1. x \in Slots
    BY <1>2, Facts
  <2> QED
    BY <1>2, <2>1 DEF IInv, QueueState
<1> QED
  BY <1>1, <1>2

\* wake_sleepers moves a due sleeper from the sleep queue to a ready list.
LEMMA WakeStep == IInv /\ wake_sleepers => IInv'
<1> SUFFICES ASSUME IInv, wake_sleepers PROVE IInv'
  OBVIOUS
<1>0. /\ list \in [Lists -> Seq(Slots)] /\ LinkedOnce(list) /\ BitmapFor(list, prio_bitmap)
      /\ task_pool \in [Slots -> Tcb] /\ sleep_queue \in Lists
  BY Facts, ListNames
<1>1. PICK i \in 1 .. Len(list[sleep_queue]) :
        /\ list' = bitmap_enqueue(list_remove(list, sleep_queue, i), list[sleep_queue][i])
        /\ prio_bitmap' = bitmap_set(prio_bitmap, list[sleep_queue][i])
        /\ task_pool' = [task_pool EXCEPT ![list[sleep_queue][i]].state = "READY"]
  BY Zenon DEF wake_sleepers
<1> DEFINE t == list[sleep_queue][i]
           ls == list_remove(list, sleep_queue, i)
<1>2. /\ ls \in [Lists -> Seq(Slots)] /\ LinkedOnce(ls)
      /\ Nodes(ls, sleep_queue) = Nodes(list, sleep_queue) \ {t}
      /\ t \in Nodes(list, sleep_queue)
      /\ \A M \in Lists \ {sleep_queue} : /\ ls[M] = list[M] /\ Nodes(ls, M) = Nodes(list, M)
                                          /\ t \notin Nodes(list, M)
  BY <1>0, TakeOff
<1>3. list' = bitmap_enqueue(ls, t) /\ prio_bitmap' = bitmap_set(prio_bitmap, t)
      /\ task_pool' = [task_pool EXCEPT ![t].state = "READY"]
  BY <1>1
<1> HIDE DEF t, ls
<1>4. t \in Slots /\ t \in used /\ task_pool[t].state = "SLEEPING"
  BY <1>0, <1>2, Facts, StateOnLists
<1>5. \A M \in Lists : Nodes(ls, M) = Nodes(list, M) \ {t}
  BY <1>2
<1>6. BitmapFor(ls, prio_bitmap)
  <2>1. \A p \in Prios : ls[prio_queue(p)] = list[prio_queue(p)]
    BY <1>2, ListNames
  <2> QED
    BY <1>0, <2>1 DEF BitmapFor, list_empty
<1>7. PICK L \in ReadyLists :
        /\ list' \in [Lists -> Seq(Slots)] /\ LinkedOnce(list')
        /\ Nodes(list', L) = Nodes(ls, L) \cup {t}
        /\ \A M \in Lists \ {L} : Nodes(list', M) = Nodes(ls, M)
        /\ BitmapFor(list', prio_bitmap')
  <2>1. \A M \in Lists : t \notin Nodes(ls, M)
    BY <1>5
  <2>2. \E L \in ReadyLists :
          /\ bitmap_enqueue(ls, t) \in [Lists -> Seq(Slots)]
          /\ LinkedOnce(bitmap_enqueue(ls, t))
          /\ Nodes(bitmap_enqueue(ls, t), L) = Nodes(ls, L) \cup {t}
          /\ \A M \in Lists \ {L} : Nodes(bitmap_enqueue(ls, t), M) = Nodes(ls, M)
          /\ BitmapFor(bitmap_enqueue(ls, t), bitmap_set(prio_bitmap, t))
    <3>1. task_pool \in [Slots -> Tcb]
      BY <1>0
    <3>2. ls \in [Lists -> Seq(Slots)] /\ LinkedOnce(ls) /\ t \in Slots
      BY <1>2, <1>4
    <3> QED
      BY <3>1, <3>2, <1>6, <2>1, Enqueue, Zenon
  <2> QED
    BY <1>3, <2>2
<1>8. /\ task_pool' \in [Slots -> Tcb]
      /\ task_pool'[t].state = "READY" /\ task_pool'[t].finished = task_pool[t].finished
      /\ \A x \in Slots : x # t => task_pool'[x] = task_pool[x]
  <2>1. task_pool' = WithState(task_pool, t, "READY")
    BY <1>3 DEF WithState
  <2> QED
    BY <1>0, <1>4, <2>1, SetState
<1>9. /\ task_pool'[t].state = "READY"
      /\ \A x \in Slots : x # t => task_pool'[x] = task_pool[x]
  BY <1>8
<1>10. /\ UNCHANGED <<used, next_tid, current, in_schedule, watchdog_ticks, pc, join, free_stacks, cpu>>
       /\ in_schedule
  BY DEF wake_sleepers
<1>11. TypeOK'
  BY <1>7, <1>8, <1>10 DEF IInv, TypeOK, BitmapFor
<1>12. QueueState'
  <2>1. L \in Lists /\ StateOn(L) = "READY" /\ L # dead_queue
    BY ListNames, StateOnLists
  <2>2. \A M \in Lists : \A x \in Nodes(list', M) :
          (M = L /\ x = t) \/ (x \in Nodes(list, M) /\ x # t)
    BY <1>5, <1>7
  <2>3. \A x \in Slots : x # t =>
          /\ task_pool'[x].state = task_pool[x].state
          /\ task_pool'[x].finished = task_pool[x].finished
    BY <1>9
  <2>4. used \subseteq used' /\ t \in used' /\ task_pool'[t].state = StateOn(L)
    BY <1>4, <1>9, <1>10, <2>1
  <2> QED
    BY <1>4, <2>1, <2>2, <2>3, <2>4, QueueStep
<1>13. OneList' /\ BitmapExact' /\ CurrentUnlinked'
  BY <1>7, <1>10 DEF OneList, BitmapExact, BitmapFor, CurrentUnlinked
<1>14. RunningIsCurrent'
  BY <1>4, <1>9, <1>10 DEF IInv, RunningIsCurrent
<1>15. task_pool'[InitSlot].state # "DEAD" /\ task_pool'[IdleSlot].state \in {"READY", "RUNNING"}
  BY <1>9, SlotFacts DEF IInv
<1> QED
  BY <1>10, <1>11, <1>12, <1>13, <1>14, <1>15 DEF IInv, WatchdogBelowLimit

\* schedule() picks the task that called it.
LEMMA StayStep == IInv /\ ScheduleStay => IInv'
<1> SUFFICES ASSUME IInv, ScheduleStay PROVE IInv'
  OBVIOUS
<1>1. /\ list' = ListsAfterPick /\ prio_bitmap' = BitmapAfterPick /\ Pick = current
      /\ UNCHANGED <<task_pool, used, next_tid, current, watchdog_ticks, pc, join, free_stacks, cpu>>
      /\ in_schedule' = FALSE
  BY DEF ScheduleStay
<1>2. /\ list' \in [Lists -> Seq(Slots)] /\ LinkedOnce(list')
      /\ \A M \in Lists : Nodes(list', M) = Nodes(list, M) \ {current}
      /\ BitmapFor(list', prio_bitmap')
  BY <1>1, PickFacts
<1>3. TypeOK'
  <2>1. prio_bitmap' \subseteq Prios /\ list' \in [Lists -> Seq(Slots)]
    BY <1>2 DEF BitmapFor
  <2>2. TypeOK
    BY DEF IInv
  <2> QED
    BY <1>1, <2>1, <2>2 DEF TypeOK
<1>4. QueueState'
  <2>1. \A M \in Lists : \A x \in Nodes(list', M) : x \in Nodes(list, M)
    BY <1>2
  <2> QED
    BY <1>1, <2>1, Zenon DEF IInv, QueueState, StateOn
<1>5. OneList' /\ BitmapExact'
  BY <1>2 DEF OneList, BitmapExact, BitmapFor
<1>6. CurrentUnlinked'
  <2>1. \A M \in Lists : current' \notin Nodes(list', M)
    BY <1>1, <1>2
  <2> QED
    BY <2>1, Zenon DEF CurrentUnlinked, Linked
<1>7. RunningIsCurrent'
  BY <1>1 DEF IInv, RunningIsCurrent
<1> QED
  BY <1>1, <1>3, <1>4, <1>5, <1>6, <1>7 DEF IInv, WatchdogBelowLimit

\* schedule() switches: the picked task leaves its list, and the old one is
\* queued if it was RUNNING, hence on no list.
LEMMA SwitchStep == IInv /\ ScheduleSwitch => IInv'
<1> SUFFICES ASSUME IInv, ScheduleSwitch PROVE IInv'
  OBVIOUS
<1> DEFINE n == Pick
           v == IF Requeue THEN "READY" ELSE task_pool[current].state
<1>1. /\ list' = IF Requeue THEN bitmap_enqueue(ListsAfterPick, current) ELSE ListsAfterPick
      /\ prio_bitmap' = IF Requeue THEN bitmap_set(BitmapAfterPick, current) ELSE BitmapAfterPick
      /\ n # current /\ current' = n /\ watchdog_ticks' = 0 /\ in_schedule' = FALSE
      /\ UNCHANGED <<used, next_tid, pc, join, free_stacks, cpu>>
  BY DEF ScheduleSwitch
<1>2. /\ n \in used /\ n \in Slots /\ task_pool[n].state \in {"READY", "RUNNING"}
      /\ ListsAfterPick \in [Lists -> Seq(Slots)] /\ LinkedOnce(ListsAfterPick)
      /\ \A M \in Lists : Nodes(ListsAfterPick, M) = Nodes(list, M) \ {n}
      /\ BitmapFor(ListsAfterPick, BitmapAfterPick)
  BY PickFacts
<1>3. /\ task_pool \in [Slots -> Tcb] /\ current \in Slots
      /\ v \in {"READY", "RUNNING", "SLEEPING", "DEAD"}
  <2>1. task_pool \in [Slots -> Tcb] /\ current \in Slots
    BY Facts
  <2>2. task_pool[current] \in Tcb
    BY <2>1
  <2> QED
    BY <2>1, <2>2 DEF Tcb
<1>4. task_pool' = WithState(WithState(task_pool, current, v), n, "RUNNING")
  <2>1. task_pool' = [task_pool EXCEPT ![current].state = IF Requeue THEN "READY" ELSE @,
                                       ![Pick].state = "RUNNING"]
    BY DEF ScheduleSwitch
  <2> QED
    BY <2>1 DEF WithState
<1> HIDE DEF n, v
<1>5. /\ task_pool' \in [Slots -> Tcb]
      /\ task_pool'[n].state = "RUNNING"
      /\ task_pool'[current].state = v /\ task_pool'[current].finished = task_pool[current].finished
      /\ \A x \in Slots \ {n, current} : task_pool'[x] = task_pool[x]
  <2> DEFINE P == WithState(task_pool, current, v)
  <2>1. /\ P \in [Slots -> Tcb] /\ P[current].state = v
        /\ P[current].finished = task_pool[current].finished
        /\ \A x \in Slots : x # current => P[x] = task_pool[x]
    BY <1>3, SetState
  <2> HIDE DEF P
  <2>2. /\ WithState(P, n, "RUNNING") \in [Slots -> Tcb] /\ WithState(P, n, "RUNNING")[n].state = "RUNNING"
        /\ \A x \in Slots : x # n => WithState(P, n, "RUNNING")[x] = P[x]
    BY <1>2, <2>1, SetState
  <2>3. task_pool' = WithState(P, n, "RUNNING")
    BY <1>4 DEF P
  <2> QED
    BY <1>1, <1>3, <2>1, <2>2, <2>3
<1>6. /\ list' \in [Lists -> Seq(Slots)] /\ LinkedOnce(list') /\ BitmapFor(list', prio_bitmap')
      /\ \A M \in Lists : \A x \in Nodes(list', M) :
           \/ Requeue /\ x = current /\ M \in ReadyLists
           \/ x \in Nodes(list, M) /\ x # n /\ ~(Requeue /\ x = current)
  <2>1. CASE Requeue
    <3>1. \A M \in Lists : current \notin Nodes(list, M)
      BY <1>3, <2>1, Unlinked DEF Requeue
    <3>2. \A M \in Lists : current \notin Nodes(ListsAfterPick, M)
      BY <3>1, <1>2
    <3>3. list' = bitmap_enqueue(ListsAfterPick, current) /\ prio_bitmap' = bitmap_set(BitmapAfterPick, current)
      BY <1>1, <2>1
    <3>4. \E L \in ReadyLists :
            /\ bitmap_enqueue(ListsAfterPick, current) \in [Lists -> Seq(Slots)]
            /\ LinkedOnce(bitmap_enqueue(ListsAfterPick, current))
            /\ Nodes(bitmap_enqueue(ListsAfterPick, current), L) = Nodes(ListsAfterPick, L) \cup {current}
            /\ \A M \in Lists \ {L} : Nodes(bitmap_enqueue(ListsAfterPick, current), M) = Nodes(ListsAfterPick, M)
            /\ BitmapFor(bitmap_enqueue(ListsAfterPick, current), bitmap_set(BitmapAfterPick, current))
      <4>1. task_pool \in [Slots -> Tcb] /\ current \in Slots
        BY <1>3
      <4>2. /\ ListsAfterPick \in [Lists -> Seq(Slots)] /\ LinkedOnce(ListsAfterPick)
            /\ BitmapFor(ListsAfterPick, BitmapAfterPick)
        BY <1>2
      <4> QED
        BY <3>2, <4>1, <4>2, Enqueue, Zenon
    <3> QED
      BY <1>2, <2>1, <3>1, <3>3, <3>4
  <2>2. CASE ~Requeue
    BY <1>1, <1>2, <2>2
  <2> QED
    BY <2>1, <2>2
<1>7. TypeOK'
  <2>1. /\ prio_bitmap' \subseteq Prios /\ list' \in [Lists -> Seq(Slots)]
        /\ task_pool' \in [Slots -> Tcb] /\ current' \in Slots
    BY <1>1, <1>2, <1>5, <1>6 DEF BitmapFor
  <2>2. TypeOK
    BY DEF IInv
  <2> QED
    BY <1>1, <2>1, <2>2 DEF TypeOK
<1>8. QueueState'
  <2> SUFFICES ASSUME NEW M \in Lists, NEW x \in Nodes(list', M)
               PROVE  /\ x \in used'
                      /\ task_pool'[x].state = StateOn(M)
                      /\ M = dead_queue => task_pool'[x].finished
    BY Zenon DEF QueueState, StateOn
  <2>1. CASE Requeue /\ x = current /\ M \in ReadyLists
    BY <1>1, <1>5, <2>1, ListNames, StateOnLists DEF v, IInv, RunningIsCurrent
  <2>2. CASE x \in Nodes(list, M) /\ x # n /\ ~(Requeue /\ x = current)
    <3>1. x \in Slots /\ x \in used /\ task_pool[x].state = StateOn(M)
      BY <2>2, Facts
    <3>2. M = dead_queue => task_pool[x].finished
      BY <2>2 DEF IInv, QueueState
    <3>3. task_pool'[x].state = task_pool[x].state /\ task_pool'[x].finished = task_pool[x].finished
      BY <1>5, <2>2, <3>1 DEF v
    <3> QED
      BY <1>1, <3>1, <3>2, <3>3
  <2> QED
    BY <1>6, <2>1, <2>2
<1>9. OneList' /\ BitmapExact'
  BY <1>6 DEF OneList, BitmapExact, BitmapFor
<1>10. CurrentUnlinked'
  <2>1. \A M \in Lists : current' \notin Nodes(list', M)
    BY <1>1, <1>6
  <2> QED
    BY <2>1, Zenon DEF CurrentUnlinked, Linked
<1>11. RunningIsCurrent'
  BY <1>1, <1>2, <1>5 DEF IInv, RunningIsCurrent, Requeue, v
<1>12. task_pool'[InitSlot].state # "DEAD" /\ task_pool'[IdleSlot].state \in {"READY", "RUNNING"}
  BY <1>5, SlotFacts DEF IInv, v
<1> QED
  BY <1>1, <1>7, <1>8, <1>9, <1>10, <1>11, <1>12, WatchdogAssumption DEF IInv, WatchdogBelowLimit

\* A thread that moves to another point of its code.
LEMMA GotoFacts ==
  ASSUME IInv, NEW point \in Points, Goto(point),
         current # IdleSlot \/ point \in {"run", "reap"},
         point \in {"join", "joinWait", "joinSched"} => join'[current].target \in Slots,
         \A t \in Slots : t # current => join'[t] = join[t]
  PROVE  /\ pc' \in [Slots -> Points] /\ pc'[current] = point
         /\ pc'[IdleSlot] \in {"run", "reap"}
         /\ \A t \in Slots : pc'[t] \in {"join", "joinWait", "joinSched"} => join'[t].target \in Slots
<1>1. pc \in [Slots -> Points] /\ current \in Slots
  BY DEF IInv, TypeOK
<1>2. pc' = [pc EXCEPT ![current] = point]
  BY DEF Goto
<1>3. pc' \in [Slots -> Points] /\ pc'[current] = point
      /\ \A t \in Slots : t # current => pc'[t] = pc[t]
  BY <1>1, <1>2
<1> QED
  BY <1>3, SlotFacts DEF IInv

\* task_create fills a free slot, which is on no list.
LEMMA CreateStep == IInv /\ task_create => IInv'
<1> SUFFICES ASSUME IInv, task_create PROVE IInv'
  OBVIOUS
<1>1. /\ At("run") /\ UNCHANGED <<current, in_schedule, watchdog_ticks, cpu>>
      /\ \A M \in Lists : current \notin Nodes(list, M)
  BY Unlinked DEF task_create, Calls
<1>2. TypeOK
  BY DEF IInv
<1>3. PICK t \in Slots :
        /\ AllocTcb(t)
        /\ \/ /\ free_stacks > 0
              /\ task_pool' = [task_pool EXCEPT ![t] =
                   [ZeroTcb EXCEPT !.tid = next_tid, !.qos = QOS_DEFAULT,
                                   !.priority = TASK_PRIO_NORMAL]]
              /\ used' = used \cup {t}
              /\ next_tid' = next_tid + 1
              /\ free_stacks' = free_stacks - 1
              /\ list' = list_push_back(list, prio_queue(TASK_PRIO_NORMAL), t)
              /\ prio_bitmap' = prio_bitmap \cup {TASK_PRIO_NORMAL}
              /\ pc' = [pc EXCEPT ![t] = "run"]
              /\ join' = [join EXCEPT ![t] = NoJoin]
           \/ /\ free_stacks = 0
              /\ task_pool' = [task_pool EXCEPT ![t] = ZeroTcb]
              /\ UNCHANGED <<used, next_tid, free_stacks, list, prio_bitmap, pc, join>>
  BY Zenon DEF task_create
<1>4. t \notin used /\ t # current /\ t # InitSlot /\ t # IdleSlot
  BY <1>3 DEF AllocTcb, IInv, RunningIsCurrent
<1>5. CASE free_stacks > 0
  <2> DEFINE r == [ZeroTcb EXCEPT !.tid = next_tid, !.qos = QOS_DEFAULT,
                                  !.priority = TASK_PRIO_NORMAL]
             L == prio_queue(TASK_PRIO_NORMAL)
  <2>1. r \in Tcb /\ r.state = "READY"
    <3>1. next_tid \in Nat /\ QOS_DEFAULT \in 0 .. 4 /\ TASK_PRIO_NORMAL \in Prios
      BY <1>2, PrioFacts DEF TypeOK, QOS_DEFAULT
    <3> DEFINE r1 == [ZeroTcb EXCEPT !.tid = next_tid]
               r2 == [r1 EXCEPT !.qos = QOS_DEFAULT]
    <3>2. r1 \in Tcb /\ r1.state = "READY"
      BY <3>1, ZeroTcbType DEF Tcb, ZeroTcb
    <3>3. r = [r2 EXCEPT !.priority = TASK_PRIO_NORMAL]
      OBVIOUS
    <3> HIDE DEF r1, r
    <3>4. r2 \in Tcb /\ r2.state = "READY"
      BY <3>1, <3>2 DEF Tcb
    <3> HIDE DEF r2
    <3> QED
      BY <3>1, <3>3, <3>4 DEF Tcb
  <2>2. /\ task_pool' = [task_pool EXCEPT ![t] = r] /\ used' = used \cup {t}
        /\ next_tid' = next_tid + 1 /\ free_stacks' = free_stacks - 1
        /\ list' = list_push_back(list, L, t) /\ prio_bitmap' = prio_bitmap \cup {TASK_PRIO_NORMAL}
        /\ pc' = [pc EXCEPT ![t] = "run"] /\ join' = [join EXCEPT ![t] = NoJoin]
    BY <1>3, <1>5
  <2>3. L \in ReadyLists /\ L \in Lists /\ L # dead_queue /\ StateOn(L) = "READY"
    BY PrioFacts, ListNames, StateOnLists
  <2> HIDE DEF r, L
  <2>4. \A M \in Lists : t \notin Nodes(list, M)
    BY <1>4, Unlinked
  <2>5. /\ list' \in [Lists -> Seq(Slots)] /\ LinkedOnce(list')
        /\ Nodes(list', L) = Nodes(list, L) \cup {t}
        /\ \A M \in Lists \ {L} : list'[M] = list[M] /\ Nodes(list', M) = Nodes(list, M)
    BY <2>2, <2>3, <2>4, Facts, PushOnto
  <2>6. /\ task_pool' \in [Slots -> Tcb] /\ task_pool'[t].state = "READY"
        /\ \A x \in Slots : x # t => task_pool'[x] = task_pool[x]
    BY <2>1, <2>2, Facts
  <2>7. pc' \in [Slots -> Points] /\ pc'[t] = "run" /\ \A x \in Slots : x # t => pc'[x] = pc[x]
    BY <1>2, <2>2 DEF TypeOK, Points
  <2>8. /\ join' \in [Slots -> [target : Slots \cup {Null}, tid : Nat]]
        /\ \A x \in Slots : x # t => join'[x] = join[x]
    <3>1. NoJoin \in [target : Slots \cup {Null}, tid : Nat]
      BY DEF NoJoin
    <3> QED
      BY <1>2, <2>2, <3>1 DEF TypeOK
  <2>9. TypeOK'
    <3>1. prio_bitmap' \subseteq Prios /\ used' \subseteq Slots /\ next_tid' \in Nat /\ free_stacks' \in Nat
      <4>1. prio_bitmap \subseteq Prios /\ used \subseteq Slots /\ next_tid \in Nat /\ free_stacks \in Nat
        BY <1>2 DEF TypeOK
      <4>2. TASK_PRIO_NORMAL \in Prios /\ t \in Slots
        BY PrioFacts
      <4>3. prio_bitmap' \subseteq Prios /\ used' \subseteq Slots
        BY <2>2, <4>1, <4>2, Zenon
      <4> QED
        BY <1>5, <2>2, <4>1, <4>3
    <3> QED
      BY <1>1, <1>2, <2>5, <2>6, <2>7, <2>8, <3>1 DEF TypeOK
  <2>10. QueueState'
    <3>1. \A M \in Lists : \A x \in Nodes(list', M) :
            (M = L /\ x = t) \/ (x \in Nodes(list, M) /\ x # t)
      BY <2>4, <2>5
    <3>2. \A x \in Slots : x # t =>
            /\ task_pool'[x].state = task_pool[x].state
            /\ task_pool'[x].finished = task_pool[x].finished
      BY <2>6
    <3>3. used \subseteq used' /\ t \in used' /\ task_pool'[t].state = StateOn(L)
      BY <2>2, <2>3, <2>6
    <3> QED
      BY <2>3, <3>1, <3>2, <3>3, QueueStep
  <2>11. BitmapExact'
    <3> SUFFICES ASSUME NEW p \in Prios
                 PROVE  p \in prio_bitmap' <=> ~list_empty(list', prio_queue(p))
      BY Zenon DEF BitmapExact
    <3>1. CASE p = TASK_PRIO_NORMAL
      <4>1. t \in Nodes(list', prio_queue(p))
        BY <2>5, <3>1 DEF L
      <4>2. ~list_empty(list', prio_queue(p))
        BY <2>3, <2>5, <3>1, <4>1, ListBasics DEF L
      <4> QED
        BY <2>2, <3>1, <4>2
    <3>2. CASE p # TASK_PRIO_NORMAL
      <4>1. list'[prio_queue(p)] = list[prio_queue(p)]
        BY <2>5, <3>2, ListNames, PrioFacts DEF L
      <4> QED
        BY <2>2, <3>2, <4>1 DEF IInv, BitmapExact, list_empty
    <3> QED
      BY <3>1, <3>2
  <2>12. CurrentUnlinked'
    <3>1. \A M \in Lists : current' \notin Nodes(list', M)
      BY <1>1, <1>4, <2>5
    <3> QED
      BY <3>1, Zenon DEF CurrentUnlinked, Linked
  <2>13. RunningIsCurrent'
    BY <1>1, <2>2, <2>6 DEF IInv, RunningIsCurrent
  <2>14. /\ task_pool'[InitSlot].state # "DEAD" /\ task_pool'[IdleSlot].state \in {"READY", "RUNNING"}
         /\ pc'[IdleSlot] \in {"run", "reap"}
    BY <1>4, <2>6, <2>7, SlotFacts DEF IInv
  <2>15. \A x \in Slots : pc'[x] \in {"join", "joinWait", "joinSched"} => join'[x].target \in Slots
    BY <2>7, <2>8 DEF IInv
  <2> QED
    BY <1>1, <2>2, <2>5, <2>9, <2>10, <2>11, <2>12, <2>13, <2>14, <2>15
       DEF IInv, OneList, WatchdogBelowLimit
<1>6. CASE ~(free_stacks > 0)
  <2>1. /\ task_pool' = [task_pool EXCEPT ![t] = ZeroTcb]
        /\ UNCHANGED <<used, next_tid, free_stacks, list, prio_bitmap, pc, join>>
    BY <1>3, <1>6
  <2>2. /\ task_pool' \in [Slots -> Tcb] /\ task_pool'[t] = ZeroTcb
        /\ \A x \in Slots : x # t => task_pool'[x] = task_pool[x]
    BY <2>1, Facts, ZeroTcbType
  <2>3. TypeOK'
    BY <1>1, <1>2, <2>1, <2>2 DEF TypeOK
  <2>4. QueueState'
    <3>1. \A M \in Lists : \A x \in Nodes(list, M) : x \in Slots /\ x # t
      BY <1>4, Facts
    <3> QED
      BY <2>1, <2>2, <3>1 DEF IInv, QueueState
  <2>5. RunningIsCurrent'
    BY <1>1, <2>1, <2>2 DEF IInv, RunningIsCurrent, ZeroTcb
  <2>6. OneList' /\ BitmapExact' /\ CurrentUnlinked'
    BY <1>1, <2>1 DEF IInv, OneList, BitmapExact, CurrentUnlinked, Linked
  <2>7. task_pool'[InitSlot].state # "DEAD" /\ task_pool'[IdleSlot].state \in {"READY", "RUNNING"}
    BY <1>4, <2>2, SlotFacts DEF IInv
  <2> QED
    BY <1>1, <2>1, <2>3, <2>4, <2>5, <2>6, <2>7 DEF IInv, WatchdogBelowLimit
<1> QED
  BY <1>5, <1>6

\* list_push_back of the current task, in terms of the next state.
LEMMA PushCurrent ==
  ASSUME NEW L \in Lists, list \in [Lists -> Seq(Slots)], LinkedOnce(list), current \in Slots,
         \A M \in Lists : current \notin Nodes(list, M),
         list' = list_push_back(list, L, current)
  PROVE  /\ list' \in [Lists -> Seq(Slots)] /\ LinkedOnce(list')
         /\ Nodes(list', L) = Nodes(list, L) \cup {current}
         /\ \A M \in Lists \ {L} : list'[M] = list[M] /\ Nodes(list', M) = Nodes(list, M)
  BY PushOnto

\* The current task puts itself on a queue: task_sleep and wq_wait.
LEMMA BlockFacts ==
  ASSUME IInv, At("run") \/ At("joinWait"), NEW L \in Lists, StateOn(L) = "SLEEPING", L \notin ReadyLists,
         current # IdleSlot, NEW point \in {"sleepSched", "joinSched"}, Goto(point),
         list' = list_push_back(list, L, current),
         UNCHANGED <<used, prio_bitmap, current>>,
         task_pool' \in [Slots -> Tcb], task_pool'[current].state = "SLEEPING",
         \A x \in Slots : x # current => task_pool'[x] = task_pool[x],
         pc'[current] = point
  PROVE  /\ list' \in [Lists -> Seq(Slots)]
         /\ OneList' /\ QueueState' /\ BitmapExact' /\ RunningIsCurrent' /\ CurrentUnlinked'
         /\ task_pool'[InitSlot].state # "DEAD" /\ task_pool'[IdleSlot].state \in {"READY", "RUNNING"}
<1>1. \A M \in Lists : current \notin Nodes(list, M)
  BY Unlinked
<1>2. /\ list' \in [Lists -> Seq(Slots)] /\ LinkedOnce(list')
      /\ Nodes(list', L) = Nodes(list, L) \cup {current}
      /\ \A M \in Lists \ {L} : list'[M] = list[M] /\ Nodes(list', M) = Nodes(list, M)
  <2>1. list \in [Lists -> Seq(Slots)] /\ LinkedOnce(list) /\ current \in Slots
    BY Facts
  <2> QED
    BY <1>1, <2>1, PushCurrent
<1>3. QueueState'
  <2>1. \A M \in Lists : \A x \in Nodes(list', M) :
          (M = L /\ x = current) \/ (x \in Nodes(list, M) /\ x # current)
    BY <1>1, <1>2
  <2>2. \A x \in Slots : x # current =>
          /\ task_pool'[x].state = task_pool[x].state
          /\ task_pool'[x].finished = task_pool[x].finished
    OBVIOUS
  <2>3. used \subseteq used' /\ current \in used' /\ task_pool'[current].state = StateOn(L)
    BY DEF IInv, RunningIsCurrent
  <2>4. L # dead_queue /\ current \in Slots
    BY StateOnLists, Facts
  <2> QED
    BY <2>1, <2>2, <2>3, <2>4, QueueStep
<1>4. BitmapExact'
  <2>1. \A p \in Prios : list'[prio_queue(p)] = list[prio_queue(p)]
    BY <1>2, ListNames
  <2> QED
    BY <2>1 DEF IInv, BitmapExact, list_empty
<1>5. RunningIsCurrent' /\ CurrentUnlinked' /\ OneList'
  BY <1>2 DEF IInv, RunningIsCurrent, CurrentUnlinked, Blocking, OneList
<1>6. task_pool'[InitSlot].state # "DEAD" /\ task_pool'[IdleSlot].state \in {"READY", "RUNNING"}
  BY SlotFacts DEF IInv
<1> QED
  BY <1>2, <1>3, <1>4, <1>5, <1>6

\* task_sleep links the current task on the sleep queue.
LEMMA SleepStep == IInv /\ task_sleep => IInv'
<1> SUFFICES ASSUME IInv, task_sleep PROVE IInv'
  OBVIOUS
<1>1. PICK ms \in SleepMs :
        task_pool' = [task_pool EXCEPT
          ![current].sleep_left = IF ms \div 10 = 0 THEN 1 ELSE ms \div 10,
          ![current].state = "SLEEPING"]
  BY Zenon DEF task_sleep
<1>2. /\ At("run") /\ current # IdleSlot /\ Goto("sleepSched")
      /\ list' = list_push_back(list, sleep_queue, current)
      /\ UNCHANGED <<used, next_tid, prio_bitmap, current, in_schedule, watchdog_ticks,
                     join, free_stacks, cpu>>
  BY DEF task_sleep, Calls
<1>3. /\ task_pool' \in [Slots -> Tcb] /\ task_pool'[current].state = "SLEEPING"
      /\ \A x \in Slots : x # current => task_pool'[x] = task_pool[x]
  <2> DEFINE left == IF ms \div 10 = 0 THEN 1 ELSE ms \div 10
             r1 == [task_pool[current] EXCEPT !.sleep_left = left]
             r == [r1 EXCEPT !.state = "SLEEPING"]
  <2>1. left \in Nat
    BY InputsAssumption
  <2>2. task_pool \in [Slots -> Tcb] /\ current \in Slots /\ task_pool[current] \in Tcb
    BY Facts
  <2>3. task_pool' = [task_pool EXCEPT ![current] = r]
    BY <1>1, <2>2
  <2> HIDE DEF left
  <2>4. r1 \in Tcb
    BY <2>1, <2>2 DEF Tcb
  <2> HIDE DEF r1
  <2>5. r \in Tcb /\ r.state = "SLEEPING"
    BY <2>4 DEF Tcb
  <2> HIDE DEF r
  <2> QED
    BY <2>2, <2>3, <2>5
<1>4. /\ pc' \in [Slots -> Points] /\ pc'[current] = "sleepSched"
      /\ pc'[IdleSlot] \in {"run", "reap"}
      /\ \A t \in Slots : pc'[t] \in {"join", "joinWait", "joinSched"} => join'[t].target \in Slots
  BY <1>2, GotoFacts DEF Points
<1>5. sleep_queue \in Lists /\ sleep_queue \notin ReadyLists /\ StateOn(sleep_queue) = "SLEEPING"
  BY ListNames, StateOnLists
<1>6. /\ list' \in [Lists -> Seq(Slots)]
      /\ OneList' /\ QueueState' /\ BitmapExact' /\ RunningIsCurrent' /\ CurrentUnlinked'
      /\ task_pool'[InitSlot].state # "DEAD" /\ task_pool'[IdleSlot].state \in {"READY", "RUNNING"}
  BY <1>2, <1>3, <1>4, <1>5, BlockFacts
<1>7. TypeOK'
  <2>1. TypeOK
    BY DEF IInv
  <2> QED
    BY <1>2, <1>3, <1>4, <1>6, <2>1 DEF TypeOK
<1> QED
  BY <1>2, <1>4, <1>6, <1>7 DEF IInv, WatchdogBelowLimit

\* wq_wait inside task_join links the current task on a wait queue.
LEMMA JoinWaitStep == IInv /\ JoinWait => IInv'
<1> SUFFICES ASSUME IInv, JoinWait PROVE IInv'
  OBVIOUS
<1>0. TypeOK
  BY DEF IInv
<1>1. /\ At("joinWait") /\ UNCHANGED <<used, next_tid, prio_bitmap, current, in_schedule,
                                       watchdog_ticks, join, free_stacks>>
  BY DEF JoinWait
<1>2. CASE cpu' = "fault" /\ UNCHANGED <<task_pool, list, pc>>
  <2>1. cpu' = "fault" /\ UNCHANGED <<task_pool, list, pc>>
    BY <1>2
  <2>2. TypeOK'
    BY <1>0, <1>1, <2>1 DEF TypeOK
  <2>3. CurrentUnlinked'
    BY <1>1, <2>1 DEF IInv, CurrentUnlinked, Linked
  <2> QED
    BY <1>1, <2>1, <2>2, <2>3, SameLists DEF IInv, WatchdogBelowLimit
<1>3. CASE /\ Target.join_wq # Null
           /\ task_pool' = [task_pool EXCEPT ![current].state = "SLEEPING"]
           /\ list' = list_push_back(list, waiters(Target.join_wq), current)
           /\ Goto("joinSched") /\ UNCHANGED cpu
  <2>1. /\ task_pool' = [task_pool EXCEPT ![current].state = "SLEEPING"]
        /\ list' = list_push_back(list, waiters(Target.join_wq), current)
        /\ Goto("joinSched") /\ UNCHANGED cpu
    BY <1>3
  <2>2. join[current].target \in Slots /\ current # IdleSlot /\ current \in Slots
    BY <1>0, <1>1 DEF IInv, TypeOK, At
  <2>3. Target \in Tcb
    BY <2>2, Facts DEF Target
  <2>4. Target.join_wq \in Slots
    BY <1>3, <2>3 DEF Tcb
  <2>5. /\ task_pool' \in [Slots -> Tcb] /\ task_pool'[current].state = "SLEEPING"
        /\ \A x \in Slots : x # current => task_pool'[x] = task_pool[x]
    <3>1. task_pool' = WithState(task_pool, current, "SLEEPING")
      BY <2>1 DEF WithState
    <3>2. "SLEEPING" \in {"READY", "RUNNING", "SLEEPING", "DEAD"} /\ task_pool \in [Slots -> Tcb]
      BY Facts
    <3>3. /\ WithState(task_pool, current, "SLEEPING") \in [Slots -> Tcb]
          /\ WithState(task_pool, current, "SLEEPING")[current].state = "SLEEPING"
          /\ \A x \in Slots : x # current =>
               WithState(task_pool, current, "SLEEPING")[x] = task_pool[x]
      BY <2>2, <3>2, SetState, Zenon
    <3> QED
      BY <3>1, <3>3, Zenon
  <2>6. /\ pc' \in [Slots -> Points] /\ pc'[current] = "joinSched"
        /\ pc'[IdleSlot] \in {"run", "reap"}
        /\ \A t \in Slots : pc'[t] \in {"join", "joinWait", "joinSched"} => join'[t].target \in Slots
    BY <1>1, <2>1, <2>2, GotoFacts DEF Points
  <2> DEFINE L == waiters(Target.join_wq)
  <2>7. L \in Lists /\ L \notin ReadyLists /\ StateOn(L) = "SLEEPING"
    BY <2>4, ListNames, StateOnLists
  <2>8. list' = list_push_back(list, L, current)
    BY <2>1
  <2> HIDE DEF L
  <2>9. /\ list' \in [Lists -> Seq(Slots)]
        /\ OneList' /\ QueueState' /\ BitmapExact' /\ RunningIsCurrent' /\ CurrentUnlinked'
        /\ task_pool'[InitSlot].state # "DEAD" /\ task_pool'[IdleSlot].state \in {"READY", "RUNNING"}
    BY <1>1, <2>1, <2>2, <2>5, <2>6, <2>7, <2>8, BlockFacts
  <2>10. TypeOK'
    BY <1>0, <1>1, <2>1, <2>5, <2>6, <2>9 DEF TypeOK
  <2> QED
    BY <1>1, <2>6, <2>9, <2>10 DEF IInv, WatchdogBelowLimit
<1> QED
  BY <1>2, <1>3 DEF JoinWait

\* task_exit links the current task on dead_queue, or unlinks a joiner and spins.
LEMMA ExitStep == IInv /\ task_exit => IInv'
<1> SUFFICES ASSUME IInv, task_exit PROVE IInv'
  OBVIOUS
<1>0. TypeOK
  BY DEF IInv
<1> DEFINE w == JoinWaiters(current)
           q == waiters(task_pool[current].join_wq)
           r1 == [task_pool[current] EXCEPT !.state = "DEAD"]
           r == [r1 EXCEPT !.finished = TRUE]
<1>1. /\ At("run") /\ current # InitSlot /\ current # IdleSlot
      /\ UNCHANGED <<used, next_tid, prio_bitmap, current, in_schedule, watchdog_ticks,
                     join, free_stacks>>
  BY DEF task_exit, Calls
<1>2. \A M \in Lists : current \notin Nodes(list, M)
  BY <1>1, Unlinked
<1>3. r \in Tcb /\ r.state = "DEAD" /\ r.finished = TRUE
  <2>1. task_pool[current] \in Tcb
    BY Facts
  <2>2. r1 \in Tcb /\ r1.state = "DEAD"
    BY <2>1 DEF Tcb
  <2> HIDE DEF r1
  <2> QED
    BY <2>2 DEF Tcb
<1>4. CASE w = <<>>
  <2>1. /\ task_pool' = [task_pool EXCEPT ![current] = r]
        /\ list' = list_push_back(list, dead_queue, current)
        /\ Goto("exitSched") /\ UNCHANGED cpu
    BY <1>4 DEF task_exit
  <2> HIDE DEF w, r
  <2>2. /\ task_pool' \in [Slots -> Tcb] /\ task_pool'[current] = r
        /\ \A x \in Slots : x # current => task_pool'[x] = task_pool[x]
    BY <1>3, <2>1, Facts
  <2>3. /\ list' \in [Lists -> Seq(Slots)] /\ LinkedOnce(list')
        /\ Nodes(list', dead_queue) = Nodes(list, dead_queue) \cup {current}
        /\ \A M \in Lists \ {dead_queue} : list'[M] = list[M] /\ Nodes(list', M) = Nodes(list, M)
    <3>1. dead_queue \in Lists
      BY ListNames
    <3> QED
      BY <1>2, <2>1, <3>1, Facts, PushOnto
  <2>4. /\ pc' \in [Slots -> Points] /\ pc'[current] = "exitSched"
        /\ pc'[IdleSlot] \in {"run", "reap"}
        /\ \A t \in Slots : pc'[t] \in {"join", "joinWait", "joinSched"} => join'[t].target \in Slots
    <3>1. /\ "exitSched" \in Points /\ "exitSched" \notin {"join", "joinWait", "joinSched"}
          /\ Goto("exitSched") /\ join' = join
      BY <1>1, <2>1 DEF Points
    <3> QED
      BY <1>1, <3>1, GotoFacts
  <2>5. TypeOK'
    BY <1>0, <1>1, <2>1, <2>2, <2>3, <2>4 DEF TypeOK
  <2>6. QueueState'
    <3>1. \A M \in Lists : \A x \in Nodes(list', M) :
            (M = dead_queue /\ x = current) \/ (x \in Nodes(list, M) /\ x # current)
      BY <1>2, <2>3
    <3>2. \A x \in Slots : x # current =>
            /\ task_pool'[x].state = task_pool[x].state
            /\ task_pool'[x].finished = task_pool[x].finished
      BY <2>2
    <3>3. /\ used \subseteq used' /\ current \in used' /\ task_pool'[current].state = StateOn(dead_queue)
          /\ task_pool'[current].finished
      BY <1>1, <1>3, <2>2, StateOnLists DEF IInv, RunningIsCurrent
    <3>4. dead_queue \in Lists /\ current \in Slots
      BY ListNames, Facts
    <3> QED
      BY <3>1, <3>2, <3>3, <3>4, QueueStep
  <2>7. BitmapExact'
    <3>1. \A p \in Prios : list'[prio_queue(p)] = list[prio_queue(p)]
      BY <2>3, ListNames
    <3> QED
      BY <1>1, <3>1 DEF IInv, BitmapExact, list_empty
  <2>8. RunningIsCurrent' /\ CurrentUnlinked' /\ OneList'
    BY <1>1, <1>3, <2>2, <2>3, <2>4 DEF IInv, RunningIsCurrent, CurrentUnlinked, Blocking, OneList
  <2>9. task_pool'[InitSlot].state # "DEAD" /\ task_pool'[IdleSlot].state \in {"READY", "RUNNING"}
    BY <1>1, <2>2, SlotFacts DEF IInv
  <2> QED
    BY <1>1, <2>4, <2>5, <2>6, <2>7, <2>8, <2>9 DEF IInv, WatchdogBelowLimit
<1>5. CASE w # <<>>
  <2> DEFINE h == list[q][1]
             P == [task_pool EXCEPT ![current] = r]
  <2>1. task_pool[current].join_wq \in Slots /\ w = list[q]
    <3>1. task_pool[current].join_wq # Null /\ w = list[q]
      BY <1>5 DEF JoinWaiters
    <3>2. task_pool[current] \in Tcb
      BY Facts
    <3> QED
      BY <3>1, <3>2 DEF Tcb
  <2>2. q \in Lists /\ 1 \in 1 .. Len(list[q]) /\ StateOn(q) = "SLEEPING" /\ q \notin ReadyLists
    BY <1>5, <2>1, Facts, ListNames, StateOnLists, ListBasics DEF list_empty
  <2>3. /\ task_pool' = WithState(P, h, "READY")
        /\ list' = list_remove(list, q, 1)
        /\ cpu' = "spin" /\ UNCHANGED pc
    BY <1>5, <2>1 DEF task_exit, WithState
  <2> HIDE DEF w, r, q
  <2>4. /\ list' \in [Lists -> Seq(Slots)] /\ LinkedOnce(list')
        /\ Nodes(list', q) = Nodes(list, q) \ {h} /\ h \in Nodes(list, q)
        /\ \A M \in Lists \ {q} : /\ list'[M] = list[M] /\ Nodes(list', M) = Nodes(list, M)
                                  /\ h \notin Nodes(list, M)
    <3>1. list \in [Lists -> Seq(Slots)] /\ LinkedOnce(list)
      BY Facts
    <3>2. /\ list_remove(list, q, 1) \in [Lists -> Seq(Slots)]
          /\ LinkedOnce(list_remove(list, q, 1))
          /\ Nodes(list_remove(list, q, 1), q) = Nodes(list, q) \ {list[q][1]}
          /\ list[q][1] \in Nodes(list, q)
          /\ \A M \in Lists \ {q} : /\ list_remove(list, q, 1)[M] = list[M]
                                    /\ Nodes(list_remove(list, q, 1), M) = Nodes(list, M)
                                    /\ list[q][1] \notin Nodes(list, M)
      BY <2>2, <3>1, TakeOff, Zenon
    <3> QED
      BY <2>3, <3>2, Zenon
  <2> HIDE DEF h
  <2>5. h \in Slots /\ h # current
    BY <1>2, <2>2, <2>4, Facts
  <2>6. /\ task_pool' \in [Slots -> Tcb] /\ task_pool'[current].state = "DEAD"
        /\ task_pool'[h].state = "READY"
        /\ \A x \in Slots : x # current /\ x # h => task_pool'[x] = task_pool[x]
    <3>1. P \in [Slots -> Tcb] /\ P[current] = r /\ \A x \in Slots : x # current => P[x] = task_pool[x]
      BY <1>3, Facts
    <3> HIDE DEF P
    <3>2. /\ task_pool' \in [Slots -> Tcb] /\ task_pool'[h].state = "READY"
          /\ \A x \in Slots : x # h => task_pool'[x] = P[x]
      <4>1. "READY" \in {"READY", "RUNNING", "SLEEPING", "DEAD"}
        OBVIOUS
      <4>2. /\ WithState(P, h, "READY") \in [Slots -> Tcb]
            /\ WithState(P, h, "READY")[h].state = "READY"
            /\ \A x \in Slots : x # h => WithState(P, h, "READY")[x] = P[x]
        BY <2>5, <3>1, <4>1, SetState, Zenon
      <4> QED
        BY <2>3, <4>2, Zenon
    <3>3. current \in Slots /\ r.state = "DEAD"
      BY <1>3, Facts
    <3> QED
      BY <2>5, <3>1, <3>2, <3>3, Zenon
  <2>7. TypeOK'
    BY <1>0, <1>1, <2>3, <2>4, <2>6 DEF TypeOK
  <2>8. QueueState'
    <3>1. \A M \in Lists : \A x \in Nodes(list', M) : x \in Nodes(list, M) /\ x # h /\ x # current
      BY <1>2, <2>4
    <3>2. \A M \in Lists : \A x \in Nodes(list', M) : task_pool'[x] = task_pool[x]
      BY <2>6, <3>1, Facts
    <3> QED
      BY <1>1, <3>1, <3>2, Zenon DEF IInv, QueueState, StateOn
  <2>9. BitmapExact'
    <3>1. \A p \in Prios : list'[prio_queue(p)] = list[prio_queue(p)]
      BY <2>2, <2>4, ListNames
    <3> QED
      BY <1>1, <3>1 DEF IInv, BitmapExact, list_empty
  <2>10. CurrentUnlinked'
    <3>1. \A M \in Lists : current' \notin Nodes(list', M)
      BY <1>1, <1>2, <2>4
    <3> QED
      BY <3>1, Zenon DEF CurrentUnlinked, Linked
  <2>11. RunningIsCurrent' /\ OneList'
    BY <1>1, <2>4, <2>6 DEF IInv, RunningIsCurrent, OneList
  <2>12. task_pool'[InitSlot].state # "DEAD" /\ task_pool'[IdleSlot].state \in {"READY", "RUNNING"}
    BY <1>1, <2>6, SlotFacts DEF IInv
  <2> QED
    BY <1>1, <2>3, <2>7, <2>8, <2>9, <2>10, <2>11, <2>12 DEF IInv, WatchdogBelowLimit
<1> QED
  BY <1>4, <1>5

\* An assignment to fields that the lists do not depend on.
LEMMA FieldStep ==
  ASSUME IInv, task_pool' \in [Slots -> Tcb],
         \A x \in Slots : /\ task_pool'[x].state = task_pool[x].state
                          /\ task_pool'[x].finished = task_pool[x].finished,
         UNCHANGED <<used, next_tid, list, prio_bitmap, current, in_schedule,
                     watchdog_ticks, pc, join, free_stacks, cpu>>
  PROVE  IInv'
<1>1. TypeOK
  BY DEF IInv
<1>2. TypeOK'
  BY <1>1 DEF TypeOK
<1>3. CurrentUnlinked'
  BY DEF IInv, CurrentUnlinked, Linked
<1> QED
  BY <1>2, <1>3, SameLists DEF IInv, WatchdogBelowLimit

\* task_set_deadline writes a field of the current task.
LEMMA DeadlineStep == IInv /\ task_set_deadline => IInv'
<1> SUFFICES ASSUME IInv, task_set_deadline PROVE IInv'
  OBVIOUS
<1>1. PICK d \in Deadlines : task_pool' = [task_pool EXCEPT ![current].deadline = d]
  BY DEF task_set_deadline
<1> DEFINE r == [task_pool[current] EXCEPT !.deadline = d]
<1>2. task_pool \in [Slots -> Tcb] /\ current \in Slots /\ task_pool[current] \in Tcb /\ d \in Nat
  BY Facts, InputsAssumption
<1>3. r \in Tcb /\ r.state = task_pool[current].state /\ r.finished = task_pool[current].finished
  BY <1>2 DEF Tcb
<1>4. task_pool' = [task_pool EXCEPT ![current] = r]
  BY <1>1
<1> HIDE DEF r
<1>5. /\ task_pool' \in [Slots -> Tcb]
      /\ \A x \in Slots : /\ task_pool'[x].state = task_pool[x].state
                          /\ task_pool'[x].finished = task_pool[x].finished
  BY <1>2, <1>3, <1>4
<1> QED
  BY <1>5, FieldStep DEF task_set_deadline

\* task_set_qos writes two fields of any task.
LEMMA QosStep == IInv /\ task_set_qos => IInv'
<1> SUFFICES ASSUME IInv, task_set_qos PROVE IInv'
  OBVIOUS
<1>1. PICK t \in used \ {IdleSlot}, c \in QosClasses :
        task_pool' = [task_pool EXCEPT ![t].priority = qos_table[c].priority, ![t].qos = c]
  BY Zenon DEF task_set_qos
<1> DEFINE r1 == [task_pool[t] EXCEPT !.priority = qos_table[c].priority]
           r == [r1 EXCEPT !.qos = c]
<1>2. task_pool \in [Slots -> Tcb] /\ t \in Slots /\ task_pool[t] \in Tcb
  BY Facts
<1>3. qos_table[c].priority \in Prios /\ c \in 0 .. 4
  BY PrioFacts
<1>4. task_pool' = [task_pool EXCEPT ![t] = r]
  BY <1>1, <1>2
<1>5. r1 \in Tcb /\ r1.state = task_pool[t].state /\ r1.finished = task_pool[t].finished
  BY <1>2, <1>3 DEF Tcb
<1> HIDE DEF r1
<1>6. r \in Tcb /\ r.state = task_pool[t].state /\ r.finished = task_pool[t].finished
  BY <1>3, <1>5 DEF Tcb
<1> HIDE DEF r
<1>7. /\ task_pool' \in [Slots -> Tcb]
      /\ \A x \in Slots : /\ task_pool'[x].state = task_pool[x].state
                          /\ task_pool'[x].finished = task_pool[x].finished
  BY <1>2, <1>4, <1>6
<1> QED
  BY <1>7, FieldStep DEF task_set_qos

\* task_join empties the wait queue in its own frame and records the target.
LEMMA JoinStep == IInv /\ task_join => IInv'
<1> SUFFICES ASSUME IInv, task_join PROVE IInv'
  OBVIOUS
<1>0. TypeOK
  BY DEF IInv
<1>1. PICK t \in used \ {current, InitSlot, IdleSlot} :
        /\ join' = [join EXCEPT ![current] = [target |-> t, tid |-> task_pool[t].tid]]
        /\ task_pool' = [task_pool EXCEPT ![t].join_wq = IF @ = Null THEN current ELSE @]
  BY Zenon DEF task_join
<1>2. /\ At("run") /\ current # IdleSlot /\ Goto("join")
      /\ list' = [list EXCEPT ![waiters(current)] = <<>>]
      /\ UNCHANGED <<used, next_tid, prio_bitmap, current, in_schedule, watchdog_ticks,
                     free_stacks, cpu>>
  BY DEF task_join, Calls
<1>3. t \in Slots /\ current \in Slots /\ task_pool \in [Slots -> Tcb] /\ task_pool[t] \in Tcb
  BY Facts
<1>4. /\ task_pool' \in [Slots -> Tcb]
      /\ \A x \in Slots : /\ task_pool'[x].state = task_pool[x].state
                          /\ task_pool'[x].finished = task_pool[x].finished
  <2> DEFINE v == IF task_pool[t].join_wq = Null THEN current ELSE task_pool[t].join_wq
             r == [task_pool[t] EXCEPT !.join_wq = v]
  <2>1. task_pool' = [task_pool EXCEPT ![t] = r]
    BY <1>1, <1>3
  <2>2. v \in Slots \cup {Null}
    BY <1>3 DEF Tcb
  <2> HIDE DEF v
  <2>3. r \in Tcb /\ r.state = task_pool[t].state /\ r.finished = task_pool[t].finished
    BY <1>3, <2>2 DEF Tcb
  <2> HIDE DEF r
  <2> QED
    BY <1>3, <2>1, <2>3
<1>5. /\ join' \in [Slots -> [target : Slots \cup {Null}, tid : Nat]]
      /\ join'[current].target = t /\ \A x \in Slots : x # current => join'[x] = join[x]
  <2> DEFINE j == [target |-> t, tid |-> task_pool[t].tid]
  <2>1. j \in [target : Slots \cup {Null}, tid : Nat] /\ j.target = t
    BY <1>3 DEF Tcb
  <2>2. join' = [join EXCEPT ![current] = j]
    BY <1>1
  <2> HIDE DEF j
  <2> QED
    BY <1>0, <1>3, <2>1, <2>2 DEF TypeOK
<1>6. /\ pc' \in [Slots -> Points] /\ pc'[current] = "join"
      /\ pc'[IdleSlot] \in {"run", "reap"}
      /\ \A x \in Slots : pc'[x] \in {"join", "joinWait", "joinSched"} => join'[x].target \in Slots
  <2>1. "join" \in Points /\ join'[current].target \in Slots
    BY <1>3, <1>5 DEF Points
  <2> QED
    BY <1>2, <1>5, <2>1, GotoFacts
<1> DEFINE L == waiters(current)
<1>7. L \in Lists /\ L \notin ReadyLists
  BY <1>3, ListNames
<1>8. list' = [list EXCEPT ![L] = <<>>]
  BY <1>2
<1> HIDE DEF L
<1>9. /\ list' \in [Lists -> Seq(Slots)] /\ list'[L] = <<>>
      /\ \A M \in Lists \ {L} : list'[M] = list[M]
  BY <1>7, <1>8, Facts
<1>10. /\ LinkedOnce(list')
       /\ \A M \in Lists : \A x \in Nodes(list', M) : x \in Nodes(list, M)
  <2>1. Distinct(list'[L]) /\ Nodes(list', L) = {}
    <3>1. <<>> \in Seq(Slots) /\ Len(<<>>) = 0
      OBVIOUS
    <3>2. Elements(<<>>) = {} /\ Distinct(<<>>)
      <4>1. Elements(<<>>) = {}
        BY <3>1, NodesBasics
      <4>2. \A i, j \in 1 .. Len(<<>>) : <<>>[i] = <<>>[j] => i = j
        BY <3>1
      <4> QED
        BY <3>1, <4>1, <4>2, NodesBasics
    <3> QED
      BY <1>9, <3>2 DEF Nodes
  <2>2. DOMAIN list = Lists /\ DOMAIN list' = Lists /\ LinkedOnce(list)
    BY <1>9, Facts
  <2>3. \A x \in Nodes(list', L) : x \in Nodes(list, L) \/ \A M \in Lists : x \notin Nodes(list, M)
    BY <2>1
  <2>4. LinkedOnce(list') /\ \A M \in Lists \ {L} : Nodes(list', M) = Nodes(list, M)
    <3>1. /\ L \in Lists /\ DOMAIN list = Lists /\ DOMAIN list' = Lists /\ LinkedOnce(list)
          /\ Distinct(list'[L]) /\ \A M \in Lists \ {L} : list'[M] = list[M]
      BY <1>7, <1>9, <2>1, <2>2
    <3> QED
      BY <2>3, <3>1, ReplaceList
  <2> QED
    BY <2>1, <2>4
<1>11. TypeOK'
  BY <1>0, <1>2, <1>4, <1>5, <1>6, <1>9 DEF TypeOK
<1>12. QueueState'
  <2>1. \A M \in Lists : \A x \in Nodes(list', M) :
          /\ task_pool'[x].state = task_pool[x].state
          /\ task_pool'[x].finished = task_pool[x].finished
    BY <1>4, <1>10, Facts
  <2> QED
    BY <1>2, <1>10, <2>1 DEF IInv, QueueState
<1>13. BitmapExact'
  <2>1. \A p \in Prios : list'[prio_queue(p)] = list[prio_queue(p)]
    BY <1>7, <1>9, ListNames
  <2> QED
    BY <1>2, <2>1 DEF IInv, BitmapExact, list_empty
<1>14. CurrentUnlinked'
  <2>1. \A M \in Lists : current' \notin Nodes(list', M)
    BY <1>2, <1>10, Unlinked
  <2> QED
    BY <2>1, Zenon DEF CurrentUnlinked, Linked
<1>15. RunningIsCurrent' /\ OneList'
  BY <1>2, <1>4, <1>10 DEF IInv, RunningIsCurrent, OneList
<1>16. task_pool'[InitSlot].state # "DEAD" /\ task_pool'[IdleSlot].state \in {"READY", "RUNNING"}
  BY <1>4, SlotFacts DEF IInv
<1> QED
  BY <1>2, <1>6, <1>11, <1>12, <1>13, <1>14, <1>15, <1>16 DEF IInv, WatchdogBelowLimit

\* The loop condition of task_join only moves the thread.
LEMMA JoinTestStep == IInv /\ JoinTest => IInv'
<1> SUFFICES ASSUME IInv, JoinTest PROVE IInv'
  OBVIOUS
<1>0. TypeOK
  BY DEF IInv
<1>1. /\ At("join") /\ Goto(IF Target.finished THEN "run" ELSE "joinWait")
      /\ join' = IF Target.finished THEN [join EXCEPT ![current] = NoJoin] ELSE join
      /\ UNCHANGED <<task_pool, used, next_tid, list, prio_bitmap, current, in_schedule,
                     watchdog_ticks, free_stacks, cpu>>
  BY DEF JoinTest
<1>2. current \in Slots /\ current # IdleSlot /\ join[current].target \in Slots
  BY <1>0, <1>1 DEF At, IInv, TypeOK
<1>3. /\ join' \in [Slots -> [target : Slots \cup {Null}, tid : Nat]]
      /\ \A x \in Slots : x # current => join'[x] = join[x]
  <2>1. NoJoin \in [target : Slots \cup {Null}, tid : Nat]
    BY DEF NoJoin
  <2> QED
    BY <1>0, <1>1, <2>1 DEF TypeOK
<1>4. /\ pc' \in [Slots -> Points]
      /\ pc'[IdleSlot] \in {"run", "reap"}
      /\ \A x \in Slots : pc'[x] \in {"join", "joinWait", "joinSched"} => join'[x].target \in Slots
  <2>1. CASE Target.finished
    <3>1. Goto("run") /\ "run" \in Points /\ "run" \notin {"join", "joinWait", "joinSched"}
      BY <1>1, <2>1 DEF Points
    <3> QED
      BY <1>2, <1>3, <3>1, GotoFacts
  <2>2. CASE ~Target.finished
    <3>1. Goto("joinWait") /\ "joinWait" \in Points /\ join' = join
      BY <1>1, <2>2 DEF Points
    <3> QED
      BY <1>2, <1>3, <3>1, GotoFacts
  <2> QED
    BY <2>1, <2>2
<1>5. TypeOK'
  BY <1>0, <1>1, <1>3, <1>4 DEF TypeOK
<1>6. CurrentUnlinked'
  <2>1. \A M \in Lists : current' \notin Nodes(list', M)
    BY <1>1, Unlinked
  <2> QED
    BY <2>1, Zenon DEF CurrentUnlinked, Linked
<1> QED
  BY <1>1, <1>4, <1>5, <1>6, SameLists DEF IInv, WatchdogBelowLimit

\* The reaper gives the stack back.
LEMMA ReapFreeStep == IInv /\ ReapFree => IInv'
<1> SUFFICES ASSUME IInv, ReapFree PROVE IInv'
  OBVIOUS
<1>0. TypeOK
  BY DEF IInv
<1>1. /\ At("reap") /\ Goto("run") /\ free_stacks' = free_stacks + 1
      /\ UNCHANGED <<task_pool, used, next_tid, list, prio_bitmap, current, in_schedule,
                     watchdog_ticks, join, cpu>>
  BY DEF ReapFree
<1>2. /\ pc' \in [Slots -> Points]
      /\ pc'[IdleSlot] \in {"run", "reap"}
      /\ \A x \in Slots : pc'[x] \in {"join", "joinWait", "joinSched"} => join'[x].target \in Slots
  <2>1. "run" \in Points /\ "run" \notin {"join", "joinWait", "joinSched"} /\ join' = join
    BY <1>1 DEF Points
  <2> QED
    BY <1>1, <2>1, GotoFacts
<1>3. TypeOK'
  BY <1>0, <1>1, <1>2 DEF TypeOK
<1>4. CurrentUnlinked'
  <2>1. \A M \in Lists : current' \notin Nodes(list', M)
    BY <1>1, Unlinked
  <2> QED
    BY <2>1, Zenon DEF CurrentUnlinked, Linked
<1> QED
  BY <1>1, <1>2, <1>3, <1>4, SameLists DEF IInv, WatchdogBelowLimit

\* The reaper takes a DEAD task, which is neither current nor init nor idle.
LEMMA ReapUnlinkStep == IInv /\ ReapUnlink => IInv'
<1> SUFFICES ASSUME IInv, ReapUnlink PROVE IInv'
  OBVIOUS
<1>0. TypeOK
  BY DEF IInv
<1> DEFINE h == list[dead_queue][1]
<1>1. /\ At("run") /\ Goto("reap") /\ ~list_empty(list, dead_queue)
      /\ list' = list_remove(list, dead_queue, 1) /\ used' = used \ {h}
      /\ UNCHANGED <<task_pool, next_tid, prio_bitmap, current, in_schedule,
                     watchdog_ticks, join, free_stacks, cpu>>
  BY DEF ReapUnlink
<1>2. dead_queue \in Lists /\ 1 \in 1 .. Len(list[dead_queue])
  BY <1>1, Facts, ListNames, ListBasics
<1>3. /\ list' \in [Lists -> Seq(Slots)] /\ LinkedOnce(list')
      /\ Nodes(list', dead_queue) = Nodes(list, dead_queue) \ {h} /\ h \in Nodes(list, dead_queue)
      /\ \A M \in Lists \ {dead_queue} : /\ list'[M] = list[M] /\ Nodes(list', M) = Nodes(list, M)
                                         /\ h \notin Nodes(list, M)
  <2>1. list \in [Lists -> Seq(Slots)] /\ LinkedOnce(list)
    BY Facts
  <2>2. /\ list_remove(list, dead_queue, 1) \in [Lists -> Seq(Slots)]
        /\ LinkedOnce(list_remove(list, dead_queue, 1))
        /\ Nodes(list_remove(list, dead_queue, 1), dead_queue) = Nodes(list, dead_queue) \ {list[dead_queue][1]}
        /\ list[dead_queue][1] \in Nodes(list, dead_queue)
        /\ \A M \in Lists \ {dead_queue} : /\ list_remove(list, dead_queue, 1)[M] = list[M]
                                           /\ Nodes(list_remove(list, dead_queue, 1), M) = Nodes(list, M)
                                           /\ list[dead_queue][1] \notin Nodes(list, M)
    BY <1>2, <2>1, TakeOff
  <2> QED
    BY <1>1, <2>2, Zenon
<1> HIDE DEF h
<1>4. h \in Slots /\ task_pool[h].state = "DEAD" /\ h # current
  BY <1>1, <1>2, <1>3, Facts, StateOnLists, Unlinked
<1>5. h # InitSlot /\ h # IdleSlot
  BY <1>4 DEF IInv
<1>6. /\ pc' \in [Slots -> Points]
      /\ pc'[IdleSlot] \in {"run", "reap"}
      /\ \A x \in Slots : pc'[x] \in {"join", "joinWait", "joinSched"} => join'[x].target \in Slots
  <2>1. "reap" \in Points /\ "reap" \notin {"join", "joinWait", "joinSched"} /\ join' = join
    BY <1>1 DEF Points
  <2> QED
    BY <1>1, <2>1, GotoFacts
<1>7. TypeOK'
  BY <1>0, <1>1, <1>3, <1>6 DEF TypeOK
<1>8. QueueState'
  <2>1. \A M \in Lists : \A x \in Nodes(list', M) : x \in Nodes(list, M) /\ x # h
    BY <1>3
  <2> QED
    BY <1>1, <2>1, Zenon DEF IInv, QueueState, StateOn
<1>9. BitmapExact'
  <2>1. \A p \in Prios : list'[prio_queue(p)] = list[prio_queue(p)]
    BY <1>3, ListNames
  <2> QED
    BY <1>1, <2>1 DEF IInv, BitmapExact, list_empty
<1>10. CurrentUnlinked'
  <2>1. \A M \in Lists : current' \notin Nodes(list', M)
    BY <1>1, <1>3, Unlinked
  <2> QED
    BY <2>1, Zenon DEF CurrentUnlinked, Linked
<1>11. RunningIsCurrent' /\ OneList'
  BY <1>1, <1>3, <1>4 DEF IInv, RunningIsCurrent, OneList
<1> QED
  BY <1>1, <1>5, <1>6, <1>7, <1>8, <1>9, <1>10, <1>11 DEF IInv, WatchdogBelowLimit

-----------------------------------------------------------------------------
(* The invariant holds initially and is preserved.                         *)

\* sched_init establishes the invariant.
LEMMA InitInv == Init => IInv
<1> SUFFICES ASSUME Init PROVE IInv
  OBVIOUS
<1>0. InitSlot \in Slots /\ IdleSlot \in Slots /\ InitSlot # IdleSlot
  BY SlotFacts
<1>1. /\ task_pool \in [Slots -> Tcb]
      /\ task_pool[InitSlot].state = "RUNNING" /\ task_pool[IdleSlot].state = "READY"
      /\ \A t \in Slots : t # InitSlot => task_pool[t].state = "READY"
  <2> DEFINE a1 == [ZeroTcb EXCEPT !.state = "RUNNING"]
             a == [a1 EXCEPT !.qos = QOS_DEFAULT]
             b1 == [ZeroTcb EXCEPT !.tid = 1]
             b2 == [b1 EXCEPT !.qos = QOS_DEFAULT]
             b == [b2 EXCEPT !.priority = TASK_PRIO_NORMAL]
  <2>1. QOS_DEFAULT \in 0 .. 4 /\ TASK_PRIO_NORMAL \in Prios /\ ZeroTcb \in Tcb /\ ZeroTcb.state = "READY"
    BY PrioFacts, ZeroTcbType DEF QOS_DEFAULT, ZeroTcb
  <2>2. task_pool = [t \in Slots |-> IF t = InitSlot THEN a ELSE IF t = IdleSlot THEN b ELSE ZeroTcb]
    BY <1>0 DEF Init
  <2>3. a1 \in Tcb /\ a1.state = "RUNNING" /\ b1 \in Tcb /\ b1.state = "READY"
    BY <2>1 DEF Tcb
  <2> HIDE DEF a1, b1
  <2>4. a \in Tcb /\ a.state = "RUNNING" /\ b2 \in Tcb /\ b2.state = "READY"
    BY <2>1, <2>3 DEF Tcb
  <2> HIDE DEF a, b2
  <2>5. b \in Tcb /\ b.state = "READY"
    BY <2>1, <2>4 DEF Tcb
  <2> HIDE DEF b
  <2> QED
    BY <1>0, <2>1, <2>2, <2>4, <2>5
<1>2. /\ list \in [Lists -> Seq(Slots)] /\ \A L \in Lists : list[L] = <<>>
      /\ DOMAIN list = Lists
  BY DEF Init
<1>3. \A L \in Lists : Nodes(list, L) = {} /\ list_empty(list, L)
  BY <1>2, ListBasics DEF list_empty
<1>4. OneList
  <2>1. \A L \in Lists : Distinct(list[L])
    BY <1>2, NodesBasics
  <2> QED
    BY <1>2, <1>3, <2>1 DEF OneList, LinkedOnce
<1>5. TypeOK
  <2>1. join \in [Slots -> [target : Slots \cup {Null}, tid : Nat]]
    <3>1. NoJoin \in [target : Slots \cup {Null}, tid : Nat]
      BY DEF NoJoin
    <3> QED
      BY <3>1 DEF Init
  <2>2. free_stacks \in Nat /\ used \subseteq Slots /\ pc \in [Slots -> Points] /\ next_tid \in Nat
    BY <1>0, SizesAssumption DEF Init, Points
  <2> QED
    BY <1>0, <1>1, <1>2, <2>1, <2>2 DEF TypeOK, Init
<1>6. QueueState /\ CurrentUnlinked
  BY <1>3 DEF QueueState, CurrentUnlinked, Linked
<1>7. BitmapExact
  BY <1>3, ListNames DEF BitmapExact, Init
<1>8. RunningIsCurrent /\ WatchdogBelowLimit
  BY <1>1, WatchdogAssumption DEF RunningIsCurrent, WatchdogBelowLimit, Init
<1>9. /\ pc[IdleSlot] = "run" /\ \A t \in Slots : pc[t] = "run"
  BY <1>0 DEF Init
<1> QED
  BY <1>1, <1>4, <1>5, <1>6, <1>7, <1>8, <1>9 DEF IInv, Init

\* Every step preserves it.
LEMMA NextInv == IInv /\ [Next]_vars => IInv'
<1> SUFFICES ASSUME IInv, [Next]_vars PROVE IInv'
  OBVIOUS
<1>1. CASE Next
  BY <1>1, TickStep, EnterStep, WakeStep, StayStep, SwitchStep, CreateStep, SleepStep, ExitStep,
     JoinStep, JoinTestStep, JoinWaitStep, DeadlineStep, QosStep, ReapUnlinkStep, ReapFreeStep,
     Zenon DEF Next
<1>2. CASE UNCHANGED vars
  <2>1. TypeOK'
    BY <1>2 DEF vars, IInv, TypeOK
  <2>2. CurrentUnlinked'
    BY <1>2 DEF vars, IInv, CurrentUnlinked, Linked
  <2> QED
    BY <1>2, <2>1, <2>2, SameLists DEF vars, IInv, WatchdogBelowLimit
<1> QED
  BY <1>1, <1>2

\* IInv holds in every reachable state.
THEOREM Invariance == Spec => []IInv
  BY InitInv, NextInv, PTL DEF Spec

\* Every TCB field, list, bit and program point keeps its type under all the
\* operations of sched.c; in particular a thread waits only on a real wait queue.
THEOREM TypeCorrect == Spec => []TypeOK
<1>1. IInv => TypeOK
  BY DEF IInv
<1> QED
  BY <1>1, Invariance, PTL

\* No run_node is ever linked twice: every list_push_back of sched.c and
\* waitqueue.c is given a node that is on no list.
THEOREM NodesLinkedOnce == Spec => []OneList
<1>1. IInv => OneList
  BY DEF IInv
<1> QED
  BY <1>1, Invariance, PTL

\* The queues hold tasks in the state their name says, and no freed TCB.
THEOREM QueuesHoldTheirState == Spec => []QueueState
<1>1. IInv => QueueState
  BY DEF IInv
<1> QED
  BY <1>1, Invariance, PTL

\* prio_bitmap agrees with the priority queues outside the locked sections.
THEOREM BitmapAlwaysExact == Spec => []BitmapExact
<1>1. IInv => BitmapExact
  BY DEF IInv
<1> QED
  BY <1>1, Invariance, PTL

\* One task is RUNNING at most, it is the per-CPU current task, and neither the
\* reaper nor task_create ever takes its slot.
THEOREM OnlyCurrentRuns == Spec => []RunningIsCurrent
<1>1. IInv => RunningIsCurrent
  BY DEF IInv
<1> QED
  BY <1>1, Invariance, PTL

\* A thread that executes its own code is on no queue, so every blocking call
\* may link it.
THEOREM CurrentOffTheQueues == Spec => []CurrentUnlinked
<1>1. IInv => CurrentUnlinked
  BY DEF IInv
<1> QED
  BY <1>1, Invariance, PTL

\* With THRESHOLD < LIMIT, as in the code, the branch of sched_tick that kills a
\* hung task is never reached.
THEOREM WatchdogNeverKills == Spec => []WatchdogBelowLimit
<1>1. IInv => WatchdogBelowLimit
  BY DEF IInv
<1> QED
  BY <1>1, Invariance, PTL
=============================================================================
