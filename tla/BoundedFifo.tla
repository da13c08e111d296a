---------------------------- MODULE BoundedFifo ----------------------------
(***************************************************************************)
(* What a message queue promises its callers: each call takes effect at    *)
(* one moment between its start and its return, on one first-in first-out  *)
(* queue of bounded length.  A blocking call waits for that moment; a      *)
(* non-blocking one is refused only when the queue is full, or empty.      *)
(***************************************************************************)
EXTENDS Naturals, Sequences

CONSTANTS Threads, Entries, NoEntry, Capacity

VARIABLES
  fifo,   \* the messages sent and not yet received
  op      \* the call each thread is in, with its message

Idle == [call |-> "none", entry |-> NoEntry]
Requests == [call : {"send", "trysend"}, entry : Entries]
              \cup [call : {"recv", "tryrecv"}, entry : {NoEntry}]

Init == fifo = <<>> /\ op = [t \in Threads |-> Idle]

Answer(t, call, e) == op' = [op EXCEPT ![t] = [call |-> call, entry |-> e]]

Call(t) ==
  /\ op[t] = Idle
  /\ \E r \in Requests : op' = [op EXCEPT ![t] = r]
  /\ UNCHANGED fifo

Put(t) ==
  /\ op[t].call \in {"send", "trysend"} /\ Len(fifo) < Capacity
  /\ fifo' = Append(fifo, op[t].entry)
  /\ Answer(t, "done", op[t].entry)

Get(t) ==
  /\ op[t].call \in {"recv", "tryrecv"} /\ fifo # <<>>
  /\ fifo' = Tail(fifo)
  /\ Answer(t, "done", Head(fifo))

Refuse(t) ==
  /\ \/ op[t].call = "trysend" /\ Len(fifo) = Capacity
     \/ op[t].call = "tryrecv" /\ fifo = <<>>
  /\ Answer(t, "refused", NoEntry)
  /\ UNCHANGED fifo

Return(t) ==
  /\ op[t].call \in {"done", "refused"}
  /\ op' = [op EXCEPT ![t] = Idle]
  /\ UNCHANGED fifo

Next == \E t \in Threads : Call(t) \/ Put(t) \/ Get(t) \/ Refuse(t) \/ Return(t)

Spec == Init /\ [][Next]_<<fifo, op>>
=============================================================================
