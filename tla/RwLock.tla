------------------------------ MODULE RwLock -------------------------------
(***************************************************************************)
(* The read-write lock of kernel/rwlock.h.  A pass of a locking loop is    *)
(* one section under rw->lock; a pass that fails changes nothing and       *)
(* spins.  A writer announces itself in a section of its own first.        *)
(***************************************************************************)
EXTENDS Integers, FiniteSets

CONSTANT Threads

VARIABLES
  readers, writer, w_waiting,
  pc     \* "out", spinning for "read" or for "write", "reading" or "writing"

vars == <<readers, writer, w_waiting, pc>>

Points == {"out", "read", "write", "reading", "writing"}

rwlock_init == readers = 0 /\ writer = 0 /\ w_waiting = 0

Init == rwlock_init /\ pc = [t \in Threads |-> "out"]

Goto(t, from, to) == pc[t] = from /\ pc' = [pc EXCEPT ![t] = to]

CallRead(t) == Goto(t, "out", "read") /\ UNCHANGED <<readers, writer, w_waiting>>

\* As if readers came in past waiting writers.
rwlock_read_lock_Past(t) ==
  /\ writer = 0
  /\ readers' = readers + 1 /\ Goto(t, "read", "reading")
  /\ UNCHANGED <<writer, w_waiting>>

rwlock_read_lock(t) ==
  /\ writer = 0 /\ w_waiting = 0
  /\ readers' = readers + 1 /\ Goto(t, "read", "reading")
  /\ UNCHANGED <<writer, w_waiting>>

rwlock_read_unlock(t) ==
  /\ readers' = readers - 1 /\ Goto(t, "reading", "out")
  /\ UNCHANGED <<writer, w_waiting>>

\* The announcement of rwlock_write_lock.
Announce(t) ==
  /\ w_waiting' = w_waiting + 1 /\ Goto(t, "out", "write")
  /\ UNCHANGED <<readers, writer>>

rwlock_write_lock(t) ==
  /\ readers = 0 /\ writer = 0
  /\ writer' = 1 /\ w_waiting' = w_waiting - 1 /\ Goto(t, "write", "writing")
  /\ UNCHANGED readers

rwlock_write_unlock(t) ==
  /\ writer' = 0 /\ Goto(t, "writing", "out")
  /\ UNCHANGED <<readers, w_waiting>>

Next == \E t \in Threads :
  \/ CallRead(t) \/ rwlock_read_lock(t) \/ rwlock_read_unlock(t)
  \/ Announce(t) \/ rwlock_write_lock(t) \/ rwlock_write_unlock(t)

Spec == Init /\ [][Next]_vars

\* A spinning thread keeps coming back to its test, and what is locked is unlocked.
Goes(t) ==
  \/ rwlock_read_lock(t) \/ rwlock_read_unlock(t)
  \/ rwlock_write_lock(t) \/ rwlock_write_unlock(t)
FairSpec == Spec /\ \A t \in Threads : WF_vars(Goes(t))

-----------------------------------------------------------------------------
In(point) == {t \in Threads : pc[t] = point}

\* Every variable has its type.
TypeOK ==
  /\ readers \in Nat /\ writer \in {0, 1} /\ w_waiting \in Nat
  /\ pc \in [Threads -> Points]

\* "Multiple concurrent readers OR one exclusive writer".
Exclusion ==
  /\ \A t \in In("writing") : In("reading") = {} /\ In("writing") = {t}
  /\ readers = Cardinality(In("reading")) /\ w_waiting = Cardinality(In("write"))
  /\ writer = Cardinality(In("writing"))

\* "Writers take priority to prevent writer starvation": whenever writers wait, one
\* gets the lock, however many readers keep coming.
WritersServed == w_waiting > 0 ~> writer = 1
=============================================================================
