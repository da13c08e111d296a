--------------------------- MODULE AdaptiveMutex ---------------------------
(***************************************************************************)
(* The adaptive mutex of kernel/adaptive_mutex.h.  A thread first spins on *)
(* `locked`, outside any lock, then takes turns of testing it under        *)
(* `guard` and sleeping on the wait queue.  Between the test and wq_wait   *)
(* nothing is held.  A lower number is a higher priority.                  *)
(***************************************************************************)
EXTENDS Integers, Sequences, FiniteSets

CONSTANTS Threads, BasePriority, NoTask

VARIABLES
  locked, owner, waiters, owner_prio,
  priority,
  pc     \* see Points

vars == <<locked, owner, waiters, owner_prio, priority, pc>>

\* Outside; spinning; the flag taken and the owner not yet set; about to enter the
\* guarded section; about to call wq_wait; linked; inside the critical section.
Points == {"out", "spin", "set", "guard", "park", "asleep", "in"}

Init ==
  /\ locked = FALSE /\ owner = NoTask /\ waiters = <<>> /\ owner_prio = 0
  /\ priority = BasePriority
  /\ pc = [t \in Threads |-> "out"]

Goto(t, point) == pc' = [pc EXCEPT ![t] = point]

CallLock(t) ==
  /\ pc[t] = "out" /\ Goto(t, "spin")
  /\ UNCHANGED <<locked, owner, waiters, owner_prio, priority>>

\* As if the flag were read first and set afterwards.
Spin_NotAtomic(t) ==
  /\ pc[t] = "spin"
  /\ IF locked THEN Goto(t, "guard") ELSE Goto(t, "set")
  /\ UNCHANGED <<locked, owner, waiters, owner_prio, priority>>

\* The flag is taken, or has not been through ADAPTIVE_SPIN_LIMIT attempts.
Spin(t) ==
  /\ pc[t] = "spin"
  /\ locked' = TRUE
  /\ IF locked THEN Goto(t, "guard") ELSE Goto(t, "set")
  /\ UNCHANGED <<owner, waiters, owner_prio, priority>>

SetOwner(t) ==
  /\ pc[t] = "set" /\ owner' = t /\ Goto(t, "in")
  /\ UNCHANGED <<locked, waiters, owner_prio, priority>>

\* The section under guard: the mutex is taken, or its owner boosted.
Guarded(t) ==
  /\ pc[t] = "guard"
  /\ locked' = TRUE
  /\ IF ~locked
     THEN owner' = t /\ Goto(t, "in") /\ UNCHANGED <<owner_prio, priority>>
     ELSE /\ IF owner # NoTask /\ priority[t] < priority[owner]
             THEN /\ owner_prio' = priority[owner]
                  /\ priority' = [priority EXCEPT ![owner] = priority[t]]
             ELSE UNCHANGED <<owner_prio, priority>>
          /\ Goto(t, "park") /\ UNCHANGED owner
  /\ UNCHANGED waiters

wq_wait(t) ==
  /\ pc[t] = "park"
  /\ waiters' = Append(waiters, t) /\ Goto(t, "asleep")
  /\ UNCHANGED <<locked, owner, owner_prio, priority>>

adaptive_unlock(t) ==
  /\ pc[t] = "in"
  /\ IF owner_prio > 0
     THEN priority' = [priority EXCEPT ![owner] = owner_prio] /\ owner_prio' = 0
     ELSE UNCHANGED <<priority, owner_prio>>
  /\ owner' = NoTask /\ locked' = FALSE
  /\ IF waiters # <<>>
     THEN waiters' = Tail(waiters) /\ pc' = [pc EXCEPT ![t] = "out", ![Head(waiters)] = "guard"]
     ELSE UNCHANGED waiters /\ Goto(t, "out")

Next == \E t \in Threads :
  \/ CallLock(t) \/ Spin(t) \/ SetOwner(t) \/ Guarded(t) \/ wq_wait(t) \/ adaptive_unlock(t)

Spec == Init /\ [][Next]_vars

-----------------------------------------------------------------------------
\* Every variable has its type.
TypeOK ==
  /\ locked \in BOOLEAN /\ owner \in Threads \cup {NoTask} /\ waiters \in Seq(Threads)
  /\ owner_prio \in Int /\ priority \in [Threads -> Int] /\ pc \in [Threads -> Points]

Holders == {t \in Threads : pc[t] \in {"set", "in"}}

\* The flag is set exactly while one thread has the mutex, by whichever of the two
\* ways it got it; and `owner`, written outside the guard on one of them, names that
\* thread or nobody, so a boost never goes to a thread that has let go.
OwnerTruthful ==
  /\ locked <=> Holders # {}
  /\ \A s, t \in Holders : s = t
  /\ owner # NoTask => pc[owner] = "in"
  /\ \A t \in Threads : pc[t] = "in" => owner = t
=============================================================================
