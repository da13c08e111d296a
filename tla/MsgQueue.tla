------------------------------ MODULE MsgQueue ------------------------------
(***************************************************************************)
(* The message queue of kernel/msgqueue.c: a ring of messages under a spin *)
(* lock, and two wait queues (waitqueue.c).  A call locks the ring, works  *)
(* on it or goes to sleep, unlocks it, and only then wakes a thread of the *)
(* other side; each locked section is one action, and any thread may run   *)
(* between two of them.                                                    *)
(*                                                                         *)
(* A thread is SLEEPING exactly while it is linked in a wait queue.  The   *)
(* message is one value: a length above MQ_MSG_SIZE returns -EINVAL before *)
(* anything is touched.                                                    *)
(***************************************************************************)
EXTENDS IntrusiveLists, FiniteSets

CONSTANTS
  Threads,
  Data,          \* contents of messages
  NoThread,      \* the sender of an empty slot
  MQ_CAPACITY

VARIABLES
  buf,     \* the ring
  head, tail, count,
  wq,      \* send_wq and recv_wq
  pc,      \* where each thread is: in a call, at its wake-up, or about to return
  local    \* the message each thread passes in or gets out

vars == <<buf, head, tail, count, wq, pc, local>>

Slots == 0 .. MQ_CAPACITY - 1
Entries == [data : Data, sender : Threads]
NoEntry == [data |-> "none", sender |-> NoThread]
send_wq == "send_wq"
recv_wq == "recv_wq"
Points == {"none", "send", "trysend", "recv", "tryrecv", "wakeRecv", "wakeSend", "refused"}

mq_init ==
  /\ buf = [i \in Slots |-> NoEntry]
  /\ head = 0 /\ tail = 0 /\ count = 0
  /\ wq = [L \in {send_wq, recv_wq} |-> <<>>]

Init ==
  /\ mq_init
  /\ pc = [t \in Threads |-> "none"]
  /\ local = [t \in Threads |-> NoEntry]

Asleep(t) == t \in Nodes(wq, send_wq) \cup Nodes(wq, recv_wq)
At(t, points) == pc[t] \in points /\ ~Asleep(t)
Goto(t, point) == pc' = [pc EXCEPT ![t] = point]

-----------------------------------------------------------------------------
\* As if a full ring were not full until one more message had been written.
mq_full_Late == count > MQ_CAPACITY

mq_full == count >= MQ_CAPACITY

\* As if the index were not brought back to the start of the ring in time.
mq_enqueue_Wrap(t) ==
  /\ buf' = [buf EXCEPT ![tail] = local[t]]
  /\ tail' = IF tail + 1 = MQ_CAPACITY - 1 THEN 0 ELSE (tail + 1) % MQ_CAPACITY
  /\ count' = count + 1
  /\ UNCHANGED <<head, local>>

mq_enqueue(t) ==
  /\ buf' = [buf EXCEPT ![tail] = local[t]]
  /\ tail' = (tail + 1) % MQ_CAPACITY
  /\ count' = count + 1
  /\ UNCHANGED <<head, local>>

mq_dequeue(t) ==
  /\ local' = [local EXCEPT ![t] = buf[head]]
  /\ head' = (head + 1) % MQ_CAPACITY
  /\ count' = count - 1
  /\ UNCHANGED <<buf, tail>>

wq_wake_one(L) == wq' = IF list_empty(wq, L) THEN wq ELSE list_remove(wq, L, 1)

\* The thread sleeps; once woken it goes through its loop again.
Sleep(t, L) ==
  /\ wq' = list_push_back(wq, L, t)
  /\ UNCHANGED <<buf, head, tail, count, pc, local>>

-----------------------------------------------------------------------------
\* A thread enters mq_send or mq_trysend, mq_recv or mq_tryrecv.
CallSend(t) ==
  /\ At(t, {"none"})
  /\ \E d \in Data, call \in {"send", "trysend"} :
       /\ local' = [local EXCEPT ![t] = [data |-> d, sender |-> t]]
       /\ Goto(t, call)
  /\ UNCHANGED <<buf, head, tail, count, wq>>

CallRecv(t) ==
  /\ At(t, {"none"})
  /\ \E call \in {"recv", "tryrecv"} : Goto(t, call)
  /\ UNCHANGED <<buf, head, tail, count, wq, local>>

mq_send(t) ==
  /\ At(t, {"send"})
  /\ \/ ~mq_full /\ mq_enqueue(t) /\ Goto(t, "wakeRecv") /\ UNCHANGED wq
     \/ mq_full /\ Sleep(t, send_wq)

mq_recv(t) ==
  /\ At(t, {"recv"})
  /\ \/ count > 0 /\ mq_dequeue(t) /\ Goto(t, "wakeSend") /\ UNCHANGED wq
     \/ count = 0 /\ Sleep(t, recv_wq)

\* -EAGAIN
Refused(t) ==
  /\ Goto(t, "refused")
  /\ local' = [local EXCEPT ![t] = NoEntry]
  /\ UNCHANGED <<buf, head, tail, count>>

mq_trysend(t) ==
  /\ At(t, {"trysend"})
  /\ IF mq_full THEN Refused(t) ELSE mq_enqueue(t) /\ Goto(t, "wakeRecv")
  /\ UNCHANGED wq

mq_tryrecv(t) ==
  /\ At(t, {"tryrecv"})
  /\ IF count = 0 THEN Refused(t) ELSE mq_dequeue(t) /\ Goto(t, "wakeSend")
  /\ UNCHANGED wq

\* After the unlock: wake one thread of the other side, and return.
Wake(t) ==
  /\ \/ At(t, {"wakeRecv"}) /\ wq_wake_one(recv_wq)
     \/ At(t, {"wakeSend"}) /\ wq_wake_one(send_wq)
     \/ At(t, {"refused"}) /\ UNCHANGED wq
  /\ Goto(t, "none")
  /\ local' = [local EXCEPT ![t] = NoEntry]
  /\ UNCHANGED <<buf, head, tail, count>>

-----------------------------------------------------------------------------
InCall(t) == mq_send(t) \/ mq_recv(t) \/ mq_trysend(t) \/ mq_tryrecv(t) \/ Wake(t)

Next == \E t \in Threads : CallSend(t) \/ CallRecv(t) \/ InCall(t)

Spec == Init /\ [][Next]_vars

\* A thread in a call and not asleep gets the CPU again (ReadyRuns of Sched).
FairSpec == Spec /\ \A t \in Threads : WF_vars(InCall(t))

-----------------------------------------------------------------------------
\* Every variable has its type; in particular the indices stay in the ring.
TypeOK ==
  /\ buf \in [Slots -> Entries \cup {NoEntry}]
  /\ head \in Slots /\ tail \in Slots /\ count \in 0 .. MQ_CAPACITY
  /\ wq \in [{send_wq, recv_wq} -> Seq(Threads)]
  /\ pc \in [Threads -> Points]
  /\ local \in [Threads -> Entries \cup {NoEntry}]

\* The messages in the ring, oldest first.
Contents == [i \in 1 .. count |-> buf[(head + i - 1) % MQ_CAPACITY]]

\* The call a thread is in, as its caller sees it: over once the ring is done.
CallOf(t) == [call  |-> IF pc[t] \in {"wakeRecv", "wakeSend"} THEN "done" ELSE pc[t],
              entry |-> local[t]]

Calls == [t \in Threads |-> CallOf(t)]

Fifo == INSTANCE BoundedFifo WITH fifo <- Contents, op <- Calls, Capacity <- MQ_CAPACITY

\* A step the callers do not see.
Unseen == UNCHANGED <<Contents, Calls>>

\* The ring with its sleeping, waking and retrying threads implements a bounded
\* FIFO: no message is lost, duplicated, reordered or given a wrong sender, and a
\* non-blocking call is refused only when the ring is full or empty.
ImplementsFifo == Fifo!Spec

\* A thread waits in the queue of the call it is in, and is linked there once.
WaitsForItsCall ==
  /\ LinkedOnce(wq)
  /\ \A t \in Nodes(wq, send_wq) : pc[t] = "send"
  /\ \A t \in Nodes(wq, recv_wq) : pc[t] = "recv"

\* Wake-ups are sent after the unlock, so they may come late or find that a third
\* thread was faster; still, while anyone sleeps, each message (or free slot) has
\* a thread that will take it: one awake in its loop, or a wake-up on its way.
WakeupsSuffice ==
  /\ wq[recv_wq] # <<>> =>
       count <= Cardinality({t \in Threads : At(t, {"recv", "tryrecv", "wakeRecv"})})
  /\ wq[send_wq] # <<>> =>
       MQ_CAPACITY - count
         <= Cardinality({t \in Threads : At(t, {"send", "trysend", "wakeSend"})})

\* A blocking call that could be carried out now.
Servable(t) ==
  (pc[t] = "recv" /\ count > 0) \/ (pc[t] = "send" /\ count < MQ_CAPACITY)

\* No receiver sleeps on while there are messages, and no sender while there is room.
Served == \A t \in Threads : Servable(t) ~> ~Servable(t)
=============================================================================
