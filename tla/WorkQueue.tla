----------------------------- MODULE WorkQueue -----------------------------
(***************************************************************************)
(* The deferred work of kernel/workqueue_def.c.  Work is scheduled from    *)
(* anywhere, interrupts and work functions included, and run by the        *)
(* threads that call workqueue_process, each item outside the lock.        *)
(***************************************************************************)
EXTENDS Integers, Sequences, FiniteSets

CONSTANTS Workers, Works, NoWork

VARIABLES
  items,       \* wq->items
  pending,
  running,     \* the item whose function each worker is in
  requested    \* items scheduled since their function was last entered

vars == <<items, pending, running, requested>>

workqueue_init == items = <<>> /\ pending = [w \in Works |-> FALSE]

Init ==
  /\ workqueue_init
  /\ running = [t \in Workers |-> NoWork] /\ requested = {}

workqueue_schedule(w) ==
  /\ IF pending[w] THEN UNCHANGED <<items, pending>>
     ELSE pending' = [pending EXCEPT ![w] = TRUE] /\ items' = Append(items, w)
  /\ requested' = requested \cup {w}
  /\ UNCHANGED running

\* As if pending were cleared when the function returns.
Process_ClearLate(t) ==
  /\ running[t] = NoWork /\ items # <<>>
  /\ items' = Tail(items)
  /\ running' = [running EXCEPT ![t] = Head(items)]
  /\ requested' = requested \ {Head(items)}
  /\ UNCHANGED pending

\* One pass of workqueue_process: the first item is taken off and its function called.
Process(t) ==
  /\ running[t] = NoWork /\ items # <<>>
  /\ items' = Tail(items)
  /\ pending' = [pending EXCEPT ![Head(items)] = FALSE]
  /\ running' = [running EXCEPT ![t] = Head(items)]
  /\ requested' = requested \ {Head(items)}

\* The function returns.
Return(t) ==
  /\ running[t] # NoWork /\ running' = [running EXCEPT ![t] = NoWork]
  /\ UNCHANGED <<items, pending, requested>>

Next ==
  \/ \E w \in Works : workqueue_schedule(w)
  \/ \E t \in Workers : Process(t) \/ Return(t)

Spec == Init /\ [][Next]_vars

-----------------------------------------------------------------------------
\* Every variable has its type.
TypeOK ==
  /\ items \in Seq(Works) /\ pending \in [Works -> BOOLEAN]
  /\ running \in [Workers -> Works \cup {NoWork}] /\ requested \subseteq Works

\* No request is lost: an item scheduled since its function was last entered is
\* queued, also if it was scheduled while that function ran; and it is queued once.
RequestsKept ==
  /\ \A w \in Works : w \in requested <=> \E i \in DOMAIN items : items[i] = w
  /\ \A w \in Works : pending[w] <=> w \in requested
  /\ \A i, j \in DOMAIN items : items[i] = items[j] => i = j
=============================================================================
