----------------------------- MODULE Semaphore -----------------------------
(***************************************************************************)
(* The counting semaphore of kernel/semaphore.c.  Each call is one section *)
(* under sem->lock; a thread that finds the count at zero links itself and *)
(* sleeps, and tries again when it is woken.  A thread that comes in       *)
(* between a post and the retry of the thread it woke may be faster.       *)
(***************************************************************************)
EXTENDS Integers, Sequences, FiniteSets

CONSTANTS
  Threads,
  InitialCount,
  MaxCount        \* bound on the count, for exploration

VARIABLES
  count, waiters,
  pc        \* "out" of any call, "asleep" in sem_wait, or "woken" in it

vars == <<count, waiters, pc>>

sem_init == count = InitialCount /\ waiters = <<>>

Init == sem_init /\ pc = [t \in Threads |-> "out"]

sem_wait(t) ==
  /\ pc[t] \in {"out", "woken"}
  /\ \/ /\ count > 0
        /\ count' = count - 1
        /\ pc' = [pc EXCEPT ![t] = "out"]
        /\ UNCHANGED waiters
     \/ /\ count <= 0
        /\ waiters' = Append(waiters, t)
        /\ pc' = [pc EXCEPT ![t] = "asleep"]
        /\ UNCHANGED count

\* As if only the post that ends the shortage woke a thread.
sem_post_AtEdge(t) ==
  /\ pc[t] = "out" /\ count < MaxCount
  /\ count' = count + 1
  /\ IF waiters # <<>> /\ count = 0
     THEN waiters' = Tail(waiters) /\ pc' = [pc EXCEPT ![Head(waiters)] = "woken"]
     ELSE UNCHANGED <<waiters, pc>>

sem_post(t) ==
  /\ pc[t] = "out" /\ count < MaxCount
  /\ count' = count + 1
  /\ IF waiters # <<>>
     THEN waiters' = Tail(waiters) /\ pc' = [pc EXCEPT ![Head(waiters)] = "woken"]
     ELSE UNCHANGED <<waiters, pc>>

sem_trywait(t) ==
  /\ pc[t] = "out" /\ count > 0
  /\ count' = count - 1
  /\ UNCHANGED <<waiters, pc>>

Next == \E t \in Threads : sem_wait(t) \/ sem_post(t) \/ sem_trywait(t)

Spec == Init /\ [][Next]_vars

\* A thread that is awake inside sem_wait goes on.
Goes(t) == pc[t] = "woken" /\ sem_wait(t)
FairSpec == Spec /\ \A t \in Threads : WF_vars(Goes(t))

-----------------------------------------------------------------------------
Woken == {t \in Threads : pc[t] = "woken"}

\* Every variable has its type.
TypeOK ==
  /\ count \in 0 .. MaxCount /\ waiters \in Seq(Threads)
  /\ pc \in [Threads -> {"out", "asleep", "woken"}]

\* A thread is linked, once, exactly while it sleeps.
LinkedAsleep ==
  /\ \A t \in Threads : pc[t] = "asleep" <=> \E i \in DOMAIN waiters : waiters[i] = t
  /\ \A i, j \in DOMAIN waiters : waiters[i] = waiters[j] => i = j

\* No wake-up is missing: while threads sleep, there is a thread on its way for
\* each unit of the count, though threads not woken may take units meanwhile.
PostsSuffice == waiters # <<>> => count <= Cardinality(Woken)

Servable(t) == pc[t] = "asleep" /\ count > 0

\* No thread sleeps on while the semaphore stays available.
PostsServed == \A t \in Threads : Servable(t) ~> ~Servable(t)
=============================================================================
