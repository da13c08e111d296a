------------------------------- MODULE Mutex -------------------------------
(***************************************************************************)
(* The mutex with priority inheritance of kernel/mutex.c.  Each pass of    *)
(* mutex_lock and each mutex_unlock is one section under the lock of the   *)
(* wait queue.  Unlocking frees the mutex and wakes the first waiter,      *)
(* which has to compete for it again.  A lower number is a higher          *)
(* priority.                                                               *)
(***************************************************************************)
EXTENDS Integers, Sequences, FiniteSets

CONSTANTS
  Threads, Mutexes,
  BasePriority,     \* priority of each thread when it holds nothing
  MaxHeld,          \* how many mutexes a thread holds at a time
  NoTask

VARIABLES
  mutex,      \* locked, owner, saved_priority and priority_boosted of each mutex
  waiters,
  priority,
  pc,         \* "out", or "asleep" or "woken" in mutex_lock
  wants,      \* the mutex a thread inside mutex_lock is after
  held        \* the mutexes whose mutex_lock has returned to the thread

vars == <<mutex, waiters, priority, pc, wants, held>>

MutexRec == [locked : BOOLEAN, owner : Threads \cup {NoTask}, saved_priority : Int,
             priority_boosted : BOOLEAN]

mutex_init ==
  /\ mutex = [m \in Mutexes |-> [locked |-> FALSE, owner |-> NoTask, saved_priority |-> 32,
                                 priority_boosted |-> FALSE]]
  /\ waiters = [m \in Mutexes |-> <<>>]

Init ==
  /\ mutex_init
  /\ priority = BasePriority
  /\ pc = [t \in Threads |-> "out"] /\ wants = [t \in Threads |-> CHOOSE m \in Mutexes : TRUE]
  /\ held = [t \in Threads |-> {}]

Acquired(t, m) ==
  /\ ~mutex[m].locked
  /\ mutex' = [mutex EXCEPT ![m] = [locked |-> TRUE, owner |-> t,
                                    saved_priority |-> priority[t],
                                    priority_boosted |-> FALSE]]
  /\ held' = [held EXCEPT ![t] = @ \cup {m}]
  /\ pc' = [pc EXCEPT ![t] = "out"]
  /\ UNCHANGED <<waiters, priority>>

\* As if every boost recorded the priority it found.
Boosted_Save(t, m) ==
  LET o == mutex[m].owner
  IN  IF o # NoTask /\ priority[t] < priority[o]
      THEN /\ mutex' = [mutex EXCEPT ![m].priority_boosted = TRUE,
                                     ![m].saved_priority = priority[o]]
           /\ priority' = [priority EXCEPT ![o] = priority[t]]
      ELSE UNCHANGED <<mutex, priority>>

Boosted(t, m) ==
  LET o == mutex[m].owner
  IN  IF o # NoTask /\ priority[t] < priority[o]
      THEN /\ mutex' = [mutex EXCEPT ![m].priority_boosted = TRUE]
           /\ priority' = [priority EXCEPT ![o] = priority[t]]
      ELSE UNCHANGED <<mutex, priority>>

mutex_lock(t, m) ==
  /\ \/ pc[t] = "out" /\ m \notin held[t] /\ Cardinality(held[t]) < MaxHeld
     \/ pc[t] = "woken" /\ wants[t] = m
  /\ wants' = [wants EXCEPT ![t] = m]
  /\ \/ Acquired(t, m)
     \/ /\ mutex[m].locked
        /\ Boosted(t, m)
        /\ waiters' = [waiters EXCEPT ![m] = Append(@, t)]
        /\ pc' = [pc EXCEPT ![t] = "asleep"]
        /\ UNCHANGED held

\* The first waiter goes to the ready queue.
Wake(m) ==
  IF waiters[m] # <<>>
  THEN /\ waiters' = [waiters EXCEPT ![m] = Tail(@)]
       /\ pc' = [pc EXCEPT ![Head(waiters[m])] = "woken"]
  ELSE UNCHANGED <<waiters, pc>>

mutex_unlock(t, m) ==
  /\ pc[t] = "out" /\ m \in held[t]
  /\ LET boosted == mutex[m].priority_boosted /\ mutex[m].owner # NoTask
     IN  /\ priority' = IF boosted
                        THEN [priority EXCEPT ![mutex[m].owner] = mutex[m].saved_priority]
                        ELSE priority
         /\ mutex' = [mutex EXCEPT ![m].locked = FALSE, ![m].owner = NoTask,
                                   ![m].priority_boosted = IF boosted THEN FALSE ELSE @]
  /\ Wake(m)
  /\ held' = [held EXCEPT ![t] = @ \ {m}]
  /\ UNCHANGED wants

mutex_trylock(t, m) ==
  /\ pc[t] = "out" /\ m \notin held[t] /\ Cardinality(held[t]) < MaxHeld
  /\ Acquired(t, m)
  /\ UNCHANGED wants

Next == \E t \in Threads, m \in Mutexes :
          mutex_lock(t, m) \/ mutex_unlock(t, m) \/ mutex_trylock(t, m)

Spec == Init /\ [][Next]_vars

\* A woken thread goes on, and what is held is given back some time.
Goes(t) ==
  \E m \in Mutexes : (pc[t] = "woken" /\ mutex_lock(t, m)) \/ mutex_unlock(t, m)
FairSpec == Spec /\ \A t \in Threads : WF_vars(Goes(t))

-----------------------------------------------------------------------------
\* Every variable has its type.
TypeOK ==
  /\ mutex \in [Mutexes -> MutexRec] /\ waiters \in [Mutexes -> Seq(Threads)]
  /\ priority \in [Threads -> Int]
  /\ pc \in [Threads -> {"out", "asleep", "woken"}] /\ wants \in [Threads -> Mutexes]
  /\ held \in [Threads -> SUBSET Mutexes]

\* A mutex is held by one thread at most, the one its owner field names, and is
\* free exactly when it is locked by nobody, so a boost goes to its holder.
OwnerHolds ==
  \A m \in Mutexes :
    /\ \A t \in Threads : m \in held[t] <=> mutex[m].owner = t
    /\ mutex[m].locked <=> mutex[m].owner # NoTask

\* A thread runs above its own priority only while it holds a mutex that will give
\* the priority back, however many boosts there were and of whatever height.
BoostGoesBack ==
  \A t \in Threads : priority[t] # BasePriority[t] =>
    \E m \in held[t] : mutex[m].priority_boosted /\ mutex[m].saved_priority = BasePriority[t]

\* Nobody sleeps on a free mutex with no thread on its way to take it.
FreeIsNoticed ==
  \A m \in Mutexes : ~mutex[m].locked /\ waiters[m] # <<>> =>
    \E t \in Threads : pc[t] = "woken" /\ wants[t] = m

\* If holders always let go, every sleeper is woken some time.
SleepersWoken == \A t \in Threads : pc[t] = "asleep" ~> pc[t] # "asleep"

\* "This prevents priority inversion" (mutex.h): the holder of a mutex runs at least
\* at the priority of every thread that sleeps on it.
NoInversion ==
  \A m \in Mutexes : mutex[m].locked =>
    \A i \in DOMAIN waiters[m] : priority[mutex[m].owner] <= priority[waiters[m][i]]
=============================================================================
