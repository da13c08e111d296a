---------------------------- MODULE MutexProofs ----------------------------
(***************************************************************************)
(* The mutexes of module Mutex, for any threads, mutexes and priorities:   *)
(* the owner field is right and no wake-up is lost, however many mutexes   *)
(* threads hold; and threads that hold one mutex at a time get their own   *)
(* priority back.                                                          *)
(***************************************************************************)
EXTENDS Mutex, FiniteSetTheorems, TLAPS

\* What is asked of the constants.
Sizes ==
  /\ NoTask \notin Threads /\ BasePriority \in [Threads -> Int]
  /\ IsFiniteSet(Mutexes) /\ Mutexes # {}

\* A linked thread sleeps, is linked once, and wants the mutex it is linked at: the
\* thread that an unlock wakes will try that mutex.
Parked ==
  \A m \in Mutexes :
    /\ \A i \in DOMAIN waiters[m] : pc[waiters[m][i]] = "asleep" /\ wants[waiters[m][i]] = m
    /\ \A i, j \in DOMAIN waiters[m] : waiters[m][i] = waiters[m][j] => i = j

\* The inductive invariant.
MInv == TypeOK /\ OwnerHolds /\ Parked /\ FreeIsNoticed

\* With one mutex at a time: a thread inside mutex_lock holds none, and a held mutex
\* has saved its holder's own priority.
OneHeld ==
  \A t \in Threads :
    /\ \A m, n \in held[t] : m = n
    /\ pc[t] # "out" => held[t] = {}
    /\ \A m \in held[t] : mutex[m].saved_priority = BasePriority[t]

\* The inductive invariant for threads that hold one mutex at a time.
BInv == MInv /\ OneHeld /\ BoostGoesBack

-----------------------------------------------------------------------------
(* The parts of the steps.                                                 *)

\* What linking a thread at the end does to a queue.
LEMMA AppendWaiter ==
  ASSUME NEW q \in Seq(Threads), NEW t \in Threads
  PROVE  /\ Append(q, t) \in Seq(Threads)
         /\ DOMAIN q = 1 .. Len(q) /\ Len(q) \in Nat
         /\ DOMAIN Append(q, t) = 1 .. Len(q) + 1
         /\ \A i \in 1 .. Len(q) : Append(q, t)[i] = q[i]
         /\ Append(q, t)[Len(q) + 1] = t
         /\ Append(q, t) # <<>>
  OBVIOUS

\* What unlinking the first thread does to it.
LEMMA TailWaiter ==
  ASSUME NEW q \in Seq(Threads), q # <<>>
  PROVE  /\ Tail(q) \in Seq(Threads) /\ Head(q) \in Threads
         /\ DOMAIN q = 1 .. Len(q) /\ Len(q) \in Nat \ {0}
         /\ Head(q) = q[1]
         /\ DOMAIN Tail(q) = 1 .. Len(q) - 1
         /\ \A i \in 1 .. Len(q) - 1 : Tail(q)[i] = q[i + 1]
  OBVIOUS

\* The fields of the mutexes after one is acquired.
LEMMA AcquiredFields ==
  ASSUME TypeOK, NEW t \in Threads, NEW m \in Mutexes, Acquired(t, m)
  PROVE  /\ mutex' \in [Mutexes -> MutexRec]
         /\ mutex'[m].locked = TRUE /\ mutex'[m].owner = t
         /\ mutex'[m].saved_priority = priority[t] /\ mutex'[m].priority_boosted = FALSE
         /\ \A n \in Mutexes : n # m => mutex'[n] = mutex[n]
         /\ held' \in [Threads -> SUBSET Mutexes]
         /\ \A s \in Threads : held'[s] = IF s = t THEN held[t] \cup {m} ELSE held[s]
         /\ pc' \in [Threads -> {"out", "asleep", "woken"}]
         /\ \A s \in Threads : pc'[s] = IF s = t THEN "out" ELSE pc[s]
<1> DEFINE r == [locked |-> TRUE, owner |-> t, saved_priority |-> priority[t],
                 priority_boosted |-> FALSE]
<1>1. r \in MutexRec
  <2>1. priority[t] \in Int
    BY DEF TypeOK
  <2>2. QED
    BY <2>1 DEF MutexRec
<1>2. mutex' = [mutex EXCEPT ![m] = r]
  BY DEF Acquired
<1>3. /\ r.locked = TRUE /\ r.owner = t /\ r.saved_priority = priority[t]
      /\ r.priority_boosted = FALSE
  OBVIOUS
<1> HIDE DEF r
<1>4. mutex' \in [Mutexes -> MutexRec] /\ mutex'[m] = r
      /\ \A n \in Mutexes : n # m => mutex'[n] = mutex[n]
  BY <1>1, <1>2 DEF TypeOK
<1>5. /\ held' \in [Threads -> SUBSET Mutexes]
      /\ \A s \in Threads : held'[s] = IF s = t THEN held[t] \cup {m} ELSE held[s]
  BY DEF Acquired, TypeOK
<1>6. /\ pc' \in [Threads -> {"out", "asleep", "woken"}]
      /\ \A s \in Threads : pc'[s] = IF s = t THEN "out" ELSE pc[s]
  BY DEF Acquired, TypeOK
<1>7. QED
  BY <1>3, <1>4, <1>5, <1>6

\* The fields of the mutexes after a boost.
LEMMA BoostedFields ==
  ASSUME TypeOK, NEW t \in Threads, NEW m \in Mutexes, Boosted(t, m)
  PROVE  /\ mutex' \in [Mutexes -> MutexRec] /\ priority' \in [Threads -> Int]
         /\ mutex'[m].locked = mutex[m].locked /\ mutex'[m].owner = mutex[m].owner
         /\ mutex'[m].saved_priority = mutex[m].saved_priority
         /\ \A n \in Mutexes : n # m => mutex'[n] = mutex[n]
         /\ mutex'[m].priority_boosted \/ mutex'[m].priority_boosted = mutex[m].priority_boosted
         /\ \A s \in Threads : s # mutex[m].owner => priority'[s] = priority[s]
         /\ \/ mutex'[m].priority_boosted
            \/ mutex'[m].priority_boosted = mutex[m].priority_boosted /\ priority' = priority
<1> DEFINE o == mutex[m].owner
<1>1. mutex[m] \in MutexRec
  BY DEF TypeOK
<1>2. CASE o # NoTask /\ priority[t] < priority[o]
  <2>1. /\ mutex' = [mutex EXCEPT ![m].priority_boosted = TRUE]
        /\ priority' = [priority EXCEPT ![o] = priority[t]]
    BY <1>2 DEF Boosted
  <2>2. [mutex[m] EXCEPT !.priority_boosted = TRUE] \in MutexRec
    BY <1>1 DEF MutexRec
  <2>3. mutex' = [mutex EXCEPT ![m] = [mutex[m] EXCEPT !.priority_boosted = TRUE]]
    BY <2>1
  <2>4. /\ mutex' \in [Mutexes -> MutexRec]
        /\ mutex'[m] = [mutex[m] EXCEPT !.priority_boosted = TRUE]
        /\ \A n \in Mutexes : n # m => mutex'[n] = mutex[n]
    BY <2>2, <2>3 DEF TypeOK
  <2>5. o \in Threads
    BY <1>1, <1>2 DEF MutexRec
  <2>6. /\ priority' \in [Threads -> Int]
        /\ \A s \in Threads : s # o => priority'[s] = priority[s]
    BY <2>1, <2>5 DEF TypeOK
  <2>7. /\ mutex'[m].locked = mutex[m].locked /\ mutex'[m].owner = mutex[m].owner
        /\ mutex'[m].saved_priority = mutex[m].saved_priority /\ mutex'[m].priority_boosted
    BY <1>1, <2>4 DEF MutexRec
  <2>8. QED
    BY <2>4, <2>6, <2>7
<1>3. CASE ~(o # NoTask /\ priority[t] < priority[o])
  <2>1. mutex' = mutex /\ priority' = priority
    BY <1>3 DEF Boosted
  <2>2. QED
    BY <2>1 DEF TypeOK
<1>4. QED
  BY <1>2, <1>3

\* The fields of the mutexes after one is unlocked by its holder.
LEMMA UnlockFields ==
  ASSUME Sizes, TypeOK, OwnerHolds, NEW t \in Threads, NEW m \in Mutexes, mutex_unlock(t, m)
  PROVE  /\ mutex[m].owner = t /\ mutex[m].locked
         /\ mutex' \in [Mutexes -> MutexRec] /\ priority' \in [Threads -> Int]
         /\ ~mutex'[m].locked /\ mutex'[m].owner = NoTask
         /\ \A n \in Mutexes : n # m => mutex'[n] = mutex[n]
         /\ \A s \in Threads : s # t => priority'[s] = priority[s]
         /\ priority'[t] = IF mutex[m].priority_boosted THEN mutex[m].saved_priority
                           ELSE priority[t]
         /\ held' \in [Threads -> SUBSET Mutexes]
         /\ \A s \in Threads : held'[s] = IF s = t THEN held[t] \ {m} ELSE held[s]
<1>1. mutex[m].owner = t /\ t # NoTask /\ mutex[m].locked
  BY DEF OwnerHolds, mutex_unlock, Sizes
<1>2. mutex[m] \in MutexRec
  BY DEF TypeOK
<1> DEFINE b == mutex[m].priority_boosted
           r == [mutex[m] EXCEPT !.locked = FALSE, !.owner = NoTask,
                                 !.priority_boosted = FALSE]
<1>3. b \in BOOLEAN
  BY <1>2 DEF MutexRec
<1>4. /\ priority' = IF b THEN [priority EXCEPT ![t] = mutex[m].saved_priority] ELSE priority
      /\ mutex' = [mutex EXCEPT ![m].locked = FALSE, ![m].owner = NoTask,
                                ![m].priority_boosted = IF b THEN FALSE ELSE @]
  BY <1>1 DEF mutex_unlock
<1>5. mutex' = [mutex EXCEPT ![m] = r]
  <2>1. mutex'[m] = r
    BY <1>2, <1>3, <1>4 DEF MutexRec, TypeOK
  <2>2. QED
    BY <1>4, <2>1 DEF TypeOK
<1>6. r \in MutexRec /\ r.locked = FALSE /\ r.owner = NoTask
  BY <1>2 DEF MutexRec
<1> HIDE DEF r
<1>7. /\ mutex' \in [Mutexes -> MutexRec] /\ mutex'[m] = r
      /\ \A n \in Mutexes : n # m => mutex'[n] = mutex[n]
  BY <1>5, <1>6 DEF TypeOK
<1>8. mutex[m].saved_priority \in Int
  BY <1>2 DEF MutexRec
<1>9. /\ priority' \in [Threads -> Int]
      /\ \A s \in Threads : s # t => priority'[s] = priority[s]
      /\ priority'[t] = IF b THEN mutex[m].saved_priority ELSE priority[t]
  <2>1. CASE b
    BY <1>4, <1>8, <2>1 DEF TypeOK
  <2>2. CASE ~b
    BY <1>4, <2>2 DEF TypeOK
  <2>3. QED
    BY <2>1, <2>2
<1>10. /\ held' \in [Threads -> SUBSET Mutexes]
       /\ \A s \in Threads : held'[s] = IF s = t THEN held[t] \ {m} ELSE held[s]
  BY DEF mutex_unlock, TypeOK
<1>11. QED
  BY <1>1, <1>6, <1>7, <1>9, <1>10

\* Waking the first sleeper: nobody else's point changes, and the others stay parked.
LEMMA WakeFields ==
  ASSUME TypeOK, Parked, NEW m \in Mutexes, Wake(m), wants' = wants
  PROVE  /\ waiters' \in [Mutexes -> Seq(Threads)]
         /\ pc' \in [Threads -> {"out", "asleep", "woken"}]
         /\ \A n \in Mutexes : n # m => waiters'[n] = waiters[n]
         /\ \A s \in Threads : pc'[s] = pc[s] \/ (pc[s] = "asleep" /\ pc'[s] = "woken")
         /\ \/ waiters[m] = <<>> /\ waiters'[m] = <<>>
            \/ \E s \in Threads : pc'[s] = "woken" /\ wants[s] = m
         /\ Parked'
<1>1. waiters[m] \in Seq(Threads)
  BY DEF TypeOK
<1>2. CASE waiters[m] = <<>>
  <2>1. waiters' = waiters /\ pc' = pc
    BY <1>2 DEF Wake
  <2>2. QED
    BY <1>2, <2>1 DEF TypeOK, Parked
<1>3. CASE waiters[m] # <<>>
  <2> DEFINE q == waiters[m]
             h == Head(q)
  <2>1. waiters' = [waiters EXCEPT ![m] = Tail(q)] /\ pc' = [pc EXCEPT ![h] = "woken"]
    BY <1>3 DEF Wake
  <2>2. /\ Tail(q) \in Seq(Threads) /\ h \in Threads
        /\ DOMAIN q = 1 .. Len(q) /\ Len(q) \in Nat \ {0}
        /\ h = q[1]
        /\ DOMAIN Tail(q) = 1 .. Len(q) - 1
        /\ \A i \in 1 .. Len(q) - 1 : Tail(q)[i] = q[i + 1]
    BY <1>1, <1>3, TailWaiter
  <2> HIDE DEF h
  <2>3. /\ waiters' \in [Mutexes -> Seq(Threads)] /\ waiters'[m] = Tail(q)
        /\ \A n \in Mutexes : n # m => waiters'[n] = waiters[n]
    BY <2>1, <2>2 DEF TypeOK
  <2>4. /\ pc' \in [Threads -> {"out", "asleep", "woken"}]
        /\ \A s \in Threads : pc'[s] = IF s = h THEN "woken" ELSE pc[s]
    BY <2>1, <2>2 DEF TypeOK
  <2>5. pc[h] = "asleep" /\ wants[h] = m
    BY <2>2 DEF Parked
  <2>6. \A n \in Mutexes : \A i \in DOMAIN waiters[n] : waiters[n][i] \in Threads
    BY DEF TypeOK
  <2>7. ASSUME NEW n \in Mutexes, n # m
        PROVE  /\ \A i \in DOMAIN waiters'[n] :
                    pc'[waiters'[n][i]] = "asleep" /\ wants'[waiters'[n][i]] = n
               /\ \A i, j \in DOMAIN waiters'[n] : waiters'[n][i] = waiters'[n][j] => i = j
    <3>1. waiters'[n] = waiters[n]
      BY <2>3, <2>7
    <3>2. \A i \in DOMAIN waiters[n] : waiters[n][i] # h
      BY <2>5, <2>7 DEF Parked
    <3>3. QED
      BY <2>4, <2>6, <3>1, <3>2 DEF Parked
  <2>8. \A i \in DOMAIN Tail(q) : pc'[Tail(q)[i]] = "asleep" /\ wants'[Tail(q)[i]] = m
    <3>1. SUFFICES ASSUME NEW i \in DOMAIN Tail(q)
                   PROVE  pc'[Tail(q)[i]] = "asleep" /\ wants'[Tail(q)[i]] = m
      OBVIOUS
    <3>2. /\ i + 1 \in DOMAIN q /\ i + 1 # 1 /\ 1 \in DOMAIN q /\ Tail(q)[i] = q[i + 1]
      BY <2>2
    <3>3. q[i + 1] # h /\ pc[q[i + 1]] = "asleep" /\ wants[q[i + 1]] = m
      BY <2>2, <3>2 DEF Parked
    <3>4. q[i + 1] \in Threads
      BY <2>6, <3>2
    <3>5. QED
      BY <2>4, <3>2, <3>3, <3>4
  <2>9. \A i, j \in DOMAIN Tail(q) : Tail(q)[i] = Tail(q)[j] => i = j
    <3>1. SUFFICES ASSUME NEW i \in DOMAIN Tail(q), NEW j \in DOMAIN Tail(q),
                          Tail(q)[i] = Tail(q)[j]
                   PROVE  i = j
      OBVIOUS
    <3>2. /\ i \in Int /\ j \in Int /\ i + 1 \in DOMAIN q /\ j + 1 \in DOMAIN q
          /\ Tail(q)[i] = q[i + 1] /\ Tail(q)[j] = q[j + 1]
      BY <2>2
    <3>3. i + 1 = j + 1
      BY <3>1, <3>2 DEF Parked
    <3>4. QED
      BY <3>2, <3>3
  <2>10. Parked'
    <3>1. SUFFICES ASSUME NEW n \in Mutexes
                   PROVE  /\ \A i \in DOMAIN waiters'[n] :
                               pc'[waiters'[n][i]] = "asleep" /\ wants'[waiters'[n][i]] = n
                          /\ \A i, j \in DOMAIN waiters'[n] :
                               waiters'[n][i] = waiters'[n][j] => i = j
      BY DEF Parked
    <3>2. CASE n = m
      BY <3>2, <2>3, <2>8, <2>9
    <3>3. CASE n # m
      BY <3>3, <2>7
    <3>4. QED
      BY <3>2, <3>3
  <2>11. QED
    BY <2>2, <2>3, <2>4, <2>5, <2>10
<1>4. QED
  BY <1>2, <1>3

-----------------------------------------------------------------------------
(* The owner, the queues and the wake-ups.                                 *)

\* The initial state satisfies the invariant.
LEMMA MInitially == Sizes /\ Init => MInv
<1> SUFFICES ASSUME Sizes, Init PROVE MInv
  OBVIOUS
<1> DEFINE r == [locked |-> FALSE, owner |-> NoTask, saved_priority |-> 32,
                 priority_boosted |-> FALSE]
<1>1. r \in MutexRec /\ r.locked = FALSE /\ r.owner = NoTask
  BY DEF MutexRec
<1>2. mutex = [m \in Mutexes |-> r] /\ waiters = [m \in Mutexes |-> <<>>]
  BY DEF Init, mutex_init
<1> HIDE DEF r
<1>3. /\ mutex \in [Mutexes -> MutexRec] /\ \A m \in Mutexes : mutex[m] = r
      /\ waiters \in [Mutexes -> Seq(Threads)] /\ \A m \in Mutexes : waiters[m] = <<>>
  BY <1>1, <1>2
<1>4. (CHOOSE m \in Mutexes : TRUE) \in Mutexes
  BY DEF Sizes
<1>5. TypeOK
  BY <1>3, <1>4 DEF Init, TypeOK, Sizes
<1>6. OwnerHolds
  BY <1>1, <1>3 DEF Init, OwnerHolds, Sizes
<1>7. Parked /\ FreeIsNoticed
  BY <1>3 DEF Parked, FreeIsNoticed
<1>8. QED
  BY <1>5, <1>6, <1>7 DEF MInv

\* A thread gets a free mutex, inside mutex_lock or mutex_trylock.
LEMMA AcquireKeeps ==
  ASSUME Sizes, MInv, NEW t \in Threads, NEW m \in Mutexes, Acquired(t, m),
         pc[t] = "out" \/ (pc[t] = "woken" /\ wants[t] = m),
         wants' \in [Threads -> Mutexes], \A s \in Threads : s # t => wants'[s] = wants[s]
  PROVE  MInv'
<1>0. TypeOK /\ OwnerHolds /\ Parked /\ FreeIsNoticed
  BY DEF MInv
<1>1. /\ mutex' \in [Mutexes -> MutexRec]
      /\ mutex'[m].locked = TRUE /\ mutex'[m].owner = t
      /\ mutex'[m].saved_priority = priority[t] /\ mutex'[m].priority_boosted = FALSE
      /\ \A n \in Mutexes : n # m => mutex'[n] = mutex[n]
      /\ held' \in [Threads -> SUBSET Mutexes]
      /\ \A s \in Threads : held'[s] = IF s = t THEN held[t] \cup {m} ELSE held[s]
      /\ pc' \in [Threads -> {"out", "asleep", "woken"}]
      /\ \A s \in Threads : pc'[s] = IF s = t THEN "out" ELSE pc[s]
  BY <1>0, AcquiredFields, Zenon
<1>2. waiters' = waiters /\ priority' = priority /\ ~mutex[m].locked
  BY DEF Acquired
<1>3. TypeOK'
  BY <1>0, <1>1, <1>2 DEF TypeOK
<1>4. OwnerHolds'
  <2>1. \A s \in Threads : m \notin held[s] /\ s # NoTask
    BY <1>0, <1>2 DEF OwnerHolds, Sizes
  <2>2. SUFFICES ASSUME NEW n \in Mutexes
                 PROVE  /\ \A s \in Threads : n \in held'[s] <=> mutex'[n].owner = s
                        /\ mutex'[n].locked <=> mutex'[n].owner # NoTask
    BY DEF OwnerHolds
  <2>3. CASE n = m
    BY <1>1, <2>1, <2>3
  <2>4. CASE n # m
    <3>1. /\ mutex'[n] = mutex[n]
          /\ \A s \in Threads : n \in held'[s] <=> n \in held[s]
      BY <1>1, <2>4
    <3>2. QED
      BY <1>0, <3>1 DEF OwnerHolds
  <2>5. QED
    BY <2>3, <2>4
<1>5. Parked'
  <2>1. \A n \in Mutexes : \A i \in DOMAIN waiters[n] : waiters[n][i] \in Threads
    BY <1>0 DEF TypeOK
  <2>2. QED
    BY <1>0, <1>1, <1>2, <2>1 DEF Parked
<1>6. FreeIsNoticed'
  <2>1. SUFFICES ASSUME NEW n \in Mutexes, ~mutex'[n].locked, waiters'[n] # <<>>
                 PROVE  \E s \in Threads : pc'[s] = "woken" /\ wants'[s] = n
    BY DEF FreeIsNoticed
  <2>2. n # m /\ mutex'[n] = mutex[n] /\ waiters'[n] = waiters[n]
    BY <1>1, <1>2, <2>1
  <2>3. PICK s \in Threads : pc[s] = "woken" /\ wants[s] = n
    BY <1>0, <2>1, <2>2 DEF FreeIsNoticed
  <2>4. s # t
    BY <2>2, <2>3
  <2>5. QED
    BY <1>1, <2>3, <2>4
<1>7. QED
  BY <1>3, <1>4, <1>5, <1>6 DEF MInv

\* A thread that finds the mutex locked goes to sleep on it.
LEMMA SleepKeeps ==
  ASSUME Sizes, MInv, NEW t \in Threads, NEW m \in Mutexes,
         pc[t] = "out" \/ (pc[t] = "woken" /\ wants[t] = m),
         wants' = [wants EXCEPT ![t] = m], mutex[m].locked, Boosted(t, m),
         waiters' = [waiters EXCEPT ![m] = Append(@, t)],
         pc' = [pc EXCEPT ![t] = "asleep"], held' = held
  PROVE  MInv'
<1>0. TypeOK /\ OwnerHolds /\ Parked /\ FreeIsNoticed
  BY DEF MInv
<1>1. /\ mutex' \in [Mutexes -> MutexRec] /\ priority' \in [Threads -> Int]
      /\ mutex'[m].locked = mutex[m].locked /\ mutex'[m].owner = mutex[m].owner
      /\ \A n \in Mutexes : n # m => mutex'[n] = mutex[n]
  BY <1>0, BoostedFields, Zenon
<1> DEFINE q == waiters[m]
<1>2. q \in Seq(Threads) /\ waiters' = [waiters EXCEPT ![m] = Append(q, t)]
  BY <1>0 DEF TypeOK
<1>3. /\ Append(q, t) \in Seq(Threads)
      /\ DOMAIN q = 1 .. Len(q) /\ Len(q) \in Nat
      /\ DOMAIN Append(q, t) = 1 .. Len(q) + 1
      /\ \A i \in 1 .. Len(q) : Append(q, t)[i] = q[i]
      /\ Append(q, t)[Len(q) + 1] = t
  BY <1>2, AppendWaiter
<1>4. /\ waiters' \in [Mutexes -> Seq(Threads)] /\ waiters'[m] = Append(q, t)
      /\ \A n \in Mutexes : n # m => waiters'[n] = waiters[n]
  BY <1>0, <1>2, <1>3 DEF TypeOK
<1>5. /\ /\ pc' \in [Threads -> {"out", "asleep", "woken"}]
         /\ \A s \in Threads : pc'[s] = IF s = t THEN "asleep" ELSE pc[s]
      /\ /\ wants' \in [Threads -> Mutexes]
         /\ \A s \in Threads : wants'[s] = IF s = t THEN m ELSE wants[s]
  <2>1. /\ pc' \in [Threads -> {"out", "asleep", "woken"}]
        /\ \A s \in Threads : pc'[s] = IF s = t THEN "asleep" ELSE pc[s]
    BY <1>0 DEF TypeOK
  <2>2. /\ wants' \in [Threads -> Mutexes]
        /\ \A s \in Threads : wants'[s] = IF s = t THEN m ELSE wants[s]
    BY <1>0 DEF TypeOK
  <2>3. QED
    BY <2>1, <2>2, Zenon
<1>6. TypeOK'
  BY <1>0, <1>1, <1>4, <1>5 DEF TypeOK
<1>7. OwnerHolds'
  <2>1. \A n \in Mutexes : /\ mutex'[n].owner = mutex[n].owner
                           /\ mutex'[n].locked = mutex[n].locked
    BY <1>1
  <2>2. QED
    BY <1>0, <2>1 DEF OwnerHolds
<1>8. \A n \in Mutexes : \A i \in DOMAIN waiters[n] :
        waiters[n][i] \in Threads /\ waiters[n][i] # t
  BY <1>0 DEF TypeOK, Parked
<1>9. Parked'
  <2>1. SUFFICES ASSUME NEW n \in Mutexes
                 PROVE  /\ \A i \in DOMAIN waiters'[n] :
                             pc'[waiters'[n][i]] = "asleep" /\ wants'[waiters'[n][i]] = n
                        /\ \A i, j \in DOMAIN waiters'[n] :
                             waiters'[n][i] = waiters'[n][j] => i = j
    BY DEF Parked
  <2>2. CASE n # m
    BY <1>0, <1>4, <1>5, <1>8, <2>2 DEF Parked
  <2>3. CASE n = m
    <3>1. \A i \in 1 .. Len(q) : /\ q[i] \in Threads /\ q[i] # t /\ pc[q[i]] = "asleep"
                                 /\ wants[q[i]] = m
      BY <1>0, <1>3, <1>8 DEF Parked
    <3>2. \A i, j \in 1 .. Len(q) : q[i] = q[j] => i = j
      BY <1>0, <1>3 DEF Parked
    <3> HIDE DEF q
    <3>3. \A i \in DOMAIN Append(q, t) :
            pc'[Append(q, t)[i]] = "asleep" /\ wants'[Append(q, t)[i]] = m
      BY <1>3, <1>5, <3>1
    <3>4. \A i, j \in DOMAIN Append(q, t) : Append(q, t)[i] = Append(q, t)[j] => i = j
      BY <1>3, <3>1, <3>2
    <3>5. QED
      BY <1>4, <2>3, <3>3, <3>4
  <2>4. QED
    BY <2>2, <2>3
<1>10. FreeIsNoticed'
  <2>1. SUFFICES ASSUME NEW n \in Mutexes, ~mutex'[n].locked, waiters'[n] # <<>>
                 PROVE  \E s \in Threads : pc'[s] = "woken" /\ wants'[s] = n
    BY DEF FreeIsNoticed
  <2>2. n # m /\ mutex'[n] = mutex[n] /\ waiters'[n] = waiters[n]
    BY <1>1, <1>4, <2>1
  <2>3. PICK s \in Threads : pc[s] = "woken" /\ wants[s] = n
    BY <1>0, <2>1, <2>2 DEF FreeIsNoticed
  <2>4. s # t
    BY <2>2, <2>3
  <2>5. QED
    BY <1>5, <2>3, <2>4
<1>11. QED
  BY <1>6, <1>7, <1>9, <1>10 DEF MInv

\* The holder unlocks the mutex and wakes the first sleeper.
LEMMA UnlockKeeps ==
  ASSUME Sizes, MInv, NEW t \in Threads, NEW m \in Mutexes, mutex_unlock(t, m)
  PROVE  MInv'
<1>0. TypeOK /\ OwnerHolds /\ Parked /\ FreeIsNoticed
  BY DEF MInv
<1>1. /\ mutex[m].owner = t /\ mutex[m].locked
      /\ mutex' \in [Mutexes -> MutexRec] /\ priority' \in [Threads -> Int]
      /\ ~mutex'[m].locked /\ mutex'[m].owner = NoTask
      /\ \A n \in Mutexes : n # m => mutex'[n] = mutex[n]
      /\ \A s \in Threads : s # t => priority'[s] = priority[s]
      /\ priority'[t] = IF mutex[m].priority_boosted THEN mutex[m].saved_priority
                        ELSE priority[t]
      /\ held' \in [Threads -> SUBSET Mutexes]
      /\ \A s \in Threads : held'[s] = IF s = t THEN held[t] \ {m} ELSE held[s]
  <2>1. TypeOK /\ OwnerHolds
    BY <1>0
  <2>2. QED
    BY <2>1, UnlockFields
<1>2. wants' = wants /\ Wake(m)
  BY DEF mutex_unlock
<1>3. /\ waiters' \in [Mutexes -> Seq(Threads)]
      /\ pc' \in [Threads -> {"out", "asleep", "woken"}]
      /\ \A n \in Mutexes : n # m => waiters'[n] = waiters[n]
      /\ \A s \in Threads : pc'[s] = pc[s] \/ (pc[s] = "asleep" /\ pc'[s] = "woken")
      /\ \/ waiters[m] = <<>> /\ waiters'[m] = <<>>
         \/ \E s \in Threads : pc'[s] = "woken" /\ wants[s] = m
      /\ Parked'
  BY <1>0, <1>2, WakeFields, Zenon
<1>4. TypeOK'
  BY <1>0, <1>1, <1>2, <1>3 DEF TypeOK
<1>5. OwnerHolds'
  <2>1. SUFFICES ASSUME NEW n \in Mutexes
                 PROVE  /\ \A s \in Threads : n \in held'[s] <=> mutex'[n].owner = s
                        /\ mutex'[n].locked <=> mutex'[n].owner # NoTask
    BY DEF OwnerHolds
  <2>2. CASE n = m
    <3>1. \A s \in Threads : m \in held[s] => s = t
      BY <1>0, <1>1 DEF OwnerHolds
    <3>2. \A s \in Threads : m \notin held'[s] /\ s # NoTask
      BY <1>1, <3>1 DEF Sizes
    <3>3. QED
      BY <1>1, <2>2, <3>2
  <2>3. CASE n # m
    <3>1. /\ mutex'[n] = mutex[n]
          /\ \A s \in Threads : n \in held'[s] <=> n \in held[s]
      BY <1>1, <2>3
    <3>2. QED
      BY <1>0, <3>1 DEF OwnerHolds
  <2>4. QED
    BY <2>2, <2>3
<1>6. FreeIsNoticed'
  <2>1. SUFFICES ASSUME NEW n \in Mutexes, ~mutex'[n].locked, waiters'[n] # <<>>
                 PROVE  \E s \in Threads : pc'[s] = "woken" /\ wants'[s] = n
    BY DEF FreeIsNoticed
  <2>2. CASE n = m
    BY <1>2, <1>3, <2>1, <2>2
  <2>3. CASE n # m
    <3>1. mutex'[n] = mutex[n] /\ waiters'[n] = waiters[n]
      BY <1>1, <1>3, <2>3
    <3>2. ~mutex[n].locked /\ waiters[n] # <<>>
      BY <2>1, <3>1
    <3>3. PICK s \in Threads : pc[s] = "woken" /\ wants[s] = n
      BY <1>0, <3>2 DEF FreeIsNoticed
    <3>4. QED
      BY <1>2, <1>3, <3>3
  <2>4. QED
    BY <2>2, <2>3
<1>7. QED
  BY <1>3, <1>4, <1>5, <1>6 DEF MInv

\* A pass of mutex_lock ends with the mutex or asleep on it.
LEMMA LockKeeps ==
  ASSUME Sizes, MInv, NEW t \in Threads, NEW m \in Mutexes, mutex_lock(t, m)
  PROVE  MInv'
<1>1. pc[t] = "out" \/ (pc[t] = "woken" /\ wants[t] = m)
  BY DEF mutex_lock
<1>2. wants' = [wants EXCEPT ![t] = m]
  BY DEF mutex_lock
<1>3. CASE Acquired(t, m)
  <2>1. wants' \in [Threads -> Mutexes] /\ \A s \in Threads : s # t => wants'[s] = wants[s]
    BY <1>2 DEF MInv, TypeOK
  <2>2. QED
    BY <1>1, <1>3, <2>1, AcquireKeeps, Zenon
<1>4. CASE /\ mutex[m].locked /\ Boosted(t, m)
           /\ waiters' = [waiters EXCEPT ![m] = Append(@, t)]
           /\ pc' = [pc EXCEPT ![t] = "asleep"] /\ held' = held
  BY <1>1, <1>2, <1>4, SleepKeeps, Zenon
<1>5. QED
  BY <1>3, <1>4 DEF mutex_lock

\* Every step keeps the invariant.
LEMMA MStep == Sizes /\ MInv /\ [Next]_vars => MInv'
<1> SUFFICES ASSUME Sizes, MInv, [Next]_vars PROVE MInv'
  OBVIOUS
<1>1. ASSUME NEW t \in Threads, NEW m \in Mutexes, mutex_trylock(t, m) PROVE MInv'
  <2>1. Acquired(t, m) /\ pc[t] = "out" /\ wants' = wants
    BY <1>1 DEF mutex_trylock
  <2>2. wants' \in [Threads -> Mutexes] /\ \A s \in Threads : s # t => wants'[s] = wants[s]
    BY <2>1 DEF MInv, TypeOK
  <2>3. QED
    BY <2>1, <2>2, AcquireKeeps, Zenon
<1>2. CASE UNCHANGED vars
  BY <1>2 DEF vars, MInv, TypeOK, OwnerHolds, Parked, FreeIsNoticed
<1>3. QED
  BY <1>1, <1>2, LockKeeps, UnlockKeeps DEF Next

\* The invariant holds throughout.
THEOREM MutexInvariance ==
  ASSUME Sizes
  PROVE  Spec => []MInv
<1>1. Init => MInv
  BY MInitially
<1>2. MInv /\ [Next]_vars => MInv'
  BY MStep
<1>3. QED
  BY <1>1, <1>2, PTL DEF Spec

\* For any threads, mutexes and priorities, a mutex is held by one thread at most, the
\* one its owner field names, and by nobody exactly while it is free.
THEOREM OwnerAlwaysHolds ==
  ASSUME Sizes
  PROVE  Spec => []OwnerHolds
<1>1. MInv => OwnerHolds
  BY DEF MInv
<1>2. QED
  BY <1>1, MutexInvariance, PTL

\* For any threads and mutexes, no wake-up is lost: while threads sleep on a free mutex,
\* a woken thread is on its way to take it.
THEOREM FreeAlwaysNoticed ==
  ASSUME Sizes
  PROVE  Spec => []FreeIsNoticed
<1>1. MInv => FreeIsNoticed
  BY DEF MInv
<1>2. QED
  BY <1>1, MutexInvariance, PTL

-----------------------------------------------------------------------------
(* The priorities, where threads hold one mutex at a time.                 *)

\* A thread that may lock another mutex holds none.
LEMMA HoldsNone ==
  ASSUME Sizes, MaxHeld = 1, BInv, NEW t \in Threads,
         pc[t] # "out" \/ Cardinality(held[t]) < MaxHeld
  PROVE  held[t] = {} /\ priority[t] = BasePriority[t]
<1>1. held[t] = {}
  <2>1. held[t] \subseteq Mutexes
    BY DEF BInv, MInv, TypeOK
  <2>2. IsFiniteSet(held[t])
    BY <2>1, FS_Subset DEF Sizes
  <2>3. CASE Cardinality(held[t]) < 1
    <3>1. Cardinality(held[t]) = 0
      BY <2>2, <2>3, FS_CardinalityType
    <3>2. QED
      BY <2>2, <3>1, FS_EmptySet
  <2>4. CASE pc[t] # "out"
    BY <2>4 DEF BInv, OneHeld
  <2>5. QED
    BY <2>3, <2>4
<1>2. QED
  BY <1>1 DEF BInv, BoostGoesBack

\* A thread that acquires a mutex saves its own priority.
LEMMA AcquireSaves ==
  ASSUME Sizes, MaxHeld = 1, BInv, NEW t \in Threads, NEW m \in Mutexes, Acquired(t, m),
         pc[t] # "out" \/ Cardinality(held[t]) < MaxHeld
  PROVE  OneHeld' /\ BoostGoesBack'
<1>0. TypeOK /\ OwnerHolds /\ OneHeld /\ BoostGoesBack
  BY DEF BInv, MInv
<1>1. held[t] = {} /\ priority[t] = BasePriority[t]
  BY HoldsNone
<1>2. /\ mutex' \in [Mutexes -> MutexRec]
      /\ mutex'[m].locked = TRUE /\ mutex'[m].owner = t
      /\ mutex'[m].saved_priority = priority[t] /\ mutex'[m].priority_boosted = FALSE
      /\ \A n \in Mutexes : n # m => mutex'[n] = mutex[n]
      /\ held' \in [Threads -> SUBSET Mutexes]
      /\ \A s \in Threads : held'[s] = IF s = t THEN held[t] \cup {m} ELSE held[s]
      /\ pc' \in [Threads -> {"out", "asleep", "woken"}]
      /\ \A s \in Threads : pc'[s] = IF s = t THEN "out" ELSE pc[s]
  BY <1>0, AcquiredFields, Zenon
<1>3. priority' = priority /\ \A s \in Threads : m \notin held[s]
  BY <1>0 DEF Acquired, OwnerHolds, Sizes
<1>4. held'[t] = {m} /\ \A s \in Threads : s # t => held'[s] = held[s] /\ pc'[s] = pc[s]
  BY <1>1, <1>2
<1>5. \A s \in Threads : \A n \in held[s] : mutex'[n] = mutex[n]
  <2>1. \A s \in Threads : \A n \in held[s] : n \in Mutexes /\ n # m
    BY <1>0, <1>3 DEF TypeOK
  <2>2. QED
    BY <1>2, <2>1
<1>6. OneHeld'
  <2>1. SUFFICES ASSUME NEW s \in Threads
                 PROVE  /\ \A k, n \in held'[s] : k = n
                        /\ pc'[s] # "out" => held'[s] = {}
                        /\ \A n \in held'[s] : mutex'[n].saved_priority = BasePriority[s]
    BY DEF OneHeld
  <2>2. CASE s = t
    BY <1>1, <1>2, <1>4, <2>2
  <2>3. CASE s # t
    BY <1>0, <1>4, <1>5, <2>3 DEF OneHeld
  <2>4. QED
    BY <2>2, <2>3
<1>7. BoostGoesBack'
  <2>1. SUFFICES ASSUME NEW s \in Threads, priority'[s] # BasePriority[s]
                 PROVE  \E n \in held'[s] : /\ mutex'[n].priority_boosted
                                           /\ mutex'[n].saved_priority = BasePriority[s]
    BY DEF BoostGoesBack
  <2>2. s # t
    BY <1>1, <1>3, <2>1
  <2>3. PICK n \in held[s] : mutex[n].priority_boosted /\ mutex[n].saved_priority = BasePriority[s]
    BY <1>0, <1>3, <2>1 DEF BoostGoesBack
  <2>4. QED
    BY <1>4, <1>5, <2>2, <2>3
<1>8. QED
  BY <1>6, <1>7

\* A boost marks the mutex that will give the priority back.
LEMMA BoostMarks ==
  ASSUME Sizes, MaxHeld = 1, BInv, NEW t \in Threads, NEW m \in Mutexes, Boosted(t, m),
         pc[t] # "out" \/ Cardinality(held[t]) < MaxHeld, mutex[m].locked,
         pc' = [pc EXCEPT ![t] = "asleep"], held' = held
  PROVE  OneHeld' /\ BoostGoesBack'
<1>0. TypeOK /\ OwnerHolds /\ OneHeld /\ BoostGoesBack
  BY DEF BInv, MInv
<1>1. held[t] = {}
  BY HoldsNone
<1>2. /\ mutex' \in [Mutexes -> MutexRec] /\ priority' \in [Threads -> Int]
      /\ mutex'[m].locked = mutex[m].locked /\ mutex'[m].owner = mutex[m].owner
      /\ mutex'[m].saved_priority = mutex[m].saved_priority
      /\ \A n \in Mutexes : n # m => mutex'[n] = mutex[n]
      /\ mutex'[m].priority_boosted \/ mutex'[m].priority_boosted = mutex[m].priority_boosted
      /\ \A s \in Threads : s # mutex[m].owner => priority'[s] = priority[s]
      /\ \/ mutex'[m].priority_boosted
         \/ mutex'[m].priority_boosted = mutex[m].priority_boosted /\ priority' = priority
  BY <1>0, BoostedFields, Zenon
<1>3. \A s \in Threads : \A n \in held[s] :
        /\ n \in Mutexes /\ mutex'[n].saved_priority = mutex[n].saved_priority
        /\ mutex[n].priority_boosted => mutex'[n].priority_boosted
  <2>1. \A s \in Threads : \A n \in held[s] : n \in Mutexes
    BY <1>0 DEF TypeOK
  <2>2. QED
    BY <1>2, <2>1
<1>4. \A s \in Threads : pc'[s] = IF s = t THEN "asleep" ELSE pc[s]
  BY <1>0 DEF TypeOK
<1>5. OneHeld'
  BY <1>0, <1>1, <1>3, <1>4 DEF OneHeld
<1>6. BoostGoesBack'
  <2>1. SUFFICES ASSUME NEW s \in Threads, priority'[s] # BasePriority[s]
                 PROVE  \E n \in held[s] : /\ mutex'[n].priority_boosted
                                          /\ mutex'[n].saved_priority = BasePriority[s]
    BY DEF BoostGoesBack
  <2>2. CASE priority'[s] = priority[s]
    <3>1. PICK n \in held[s] : mutex[n].priority_boosted /\ mutex[n].saved_priority = BasePriority[s]
      BY <1>0, <2>1, <2>2 DEF BoostGoesBack
    <3>2. QED
      BY <1>3, <3>1
  <2>3. CASE priority'[s] # priority[s]
    <3>1. s = mutex[m].owner /\ mutex'[m].priority_boosted
      BY <1>2, <2>3
    <3>2. m \in held[s]
      BY <1>0, <3>1 DEF OwnerHolds
    <3>3. mutex[m].saved_priority = BasePriority[s]
      BY <1>0, <3>2 DEF OneHeld
    <3>4. QED
      BY <1>2, <3>1, <3>2, <3>3
  <2>4. QED
    BY <2>2, <2>3
<1>7. QED
  BY <1>5, <1>6

\* Unlocking gives the holder its own priority back.
LEMMA UnlockRestores ==
  ASSUME Sizes, BInv, NEW t \in Threads, NEW m \in Mutexes, mutex_unlock(t, m)
  PROVE  OneHeld' /\ BoostGoesBack'
<1>0. TypeOK /\ OwnerHolds /\ Parked /\ OneHeld /\ BoostGoesBack
  BY DEF BInv, MInv
<1>1. /\ mutex[m].owner = t /\ mutex[m].locked
      /\ mutex' \in [Mutexes -> MutexRec] /\ priority' \in [Threads -> Int]
      /\ ~mutex'[m].locked /\ mutex'[m].owner = NoTask
      /\ \A n \in Mutexes : n # m => mutex'[n] = mutex[n]
      /\ \A s \in Threads : s # t => priority'[s] = priority[s]
      /\ priority'[t] = IF mutex[m].priority_boosted THEN mutex[m].saved_priority
                        ELSE priority[t]
      /\ held' \in [Threads -> SUBSET Mutexes]
      /\ \A s \in Threads : held'[s] = IF s = t THEN held[t] \ {m} ELSE held[s]
  <2>1. TypeOK /\ OwnerHolds
    BY <1>0
  <2>2. QED
    BY <2>1, UnlockFields
<1>2. wants' = wants /\ Wake(m) /\ m \in held[t]
  BY DEF mutex_unlock
<1>3. \A s \in Threads : pc'[s] = pc[s] \/ (pc[s] = "asleep" /\ pc'[s] = "woken")
  BY <1>0, <1>2, WakeFields
<1>4. held[t] = {m} /\ held'[t] = {}
  BY <1>0, <1>1, <1>2 DEF OneHeld
<1>5. \A s \in Threads : s # t => held'[s] = held[s] /\ m \notin held[s]
  BY <1>0, <1>1 DEF OwnerHolds
<1>6. \A s \in Threads : s # t => \A n \in held[s] : mutex'[n] = mutex[n]
  <2>1. \A s \in Threads : \A n \in held[s] : n \in Mutexes
    BY <1>0 DEF TypeOK
  <2>2. QED
    BY <1>1, <1>5, <2>1
<1>7. OneHeld'
  <2>1. SUFFICES ASSUME NEW s \in Threads
                 PROVE  /\ \A k, n \in held'[s] : k = n
                        /\ pc'[s] # "out" => held'[s] = {}
                        /\ \A n \in held'[s] : mutex'[n].saved_priority = BasePriority[s]
    BY DEF OneHeld
  <2>2. CASE s = t
    BY <1>4, <2>2
  <2>3. CASE s # t
    BY <1>0, <1>3, <1>5, <1>6, <2>3 DEF OneHeld
  <2>4. QED
    BY <2>2, <2>3
<1>8. BoostGoesBack'
  <2>1. priority'[t] = BasePriority[t]
    <3>1. CASE mutex[m].priority_boosted
      BY <1>0, <1>1, <1>2, <3>1 DEF OneHeld
    <3>2. CASE ~mutex[m].priority_boosted
      BY <1>0, <1>1, <1>4, <3>2 DEF BoostGoesBack
    <3>3. QED
      BY <3>1, <3>2
  <2>2. SUFFICES ASSUME NEW s \in Threads, priority'[s] # BasePriority[s]
                 PROVE  \E n \in held'[s] : /\ mutex'[n].priority_boosted
                                           /\ mutex'[n].saved_priority = BasePriority[s]
    BY DEF BoostGoesBack
  <2>3. s # t /\ priority'[s] = priority[s]
    BY <1>1, <2>1, <2>2
  <2>4. PICK n \in held[s] : mutex[n].priority_boosted /\ mutex[n].saved_priority = BasePriority[s]
    BY <1>0, <2>2, <2>3 DEF BoostGoesBack
  <2>5. QED
    BY <1>5, <1>6, <2>3, <2>4
<1>9. QED
  BY <1>7, <1>8

\* Every step keeps the invariant of the priorities.
LEMMA BStep == Sizes /\ MaxHeld = 1 /\ BInv /\ [Next]_vars => BInv'
<1> SUFFICES ASSUME Sizes, MaxHeld = 1, BInv, [Next]_vars PROVE BInv'
  OBVIOUS
<1>0. MInv'
  BY MStep DEF BInv
<1>1. ASSUME NEW t \in Threads, NEW m \in Mutexes, mutex_lock(t, m)
      PROVE  OneHeld' /\ BoostGoesBack'
  <2>1. pc[t] # "out" \/ Cardinality(held[t]) < MaxHeld
    BY <1>1 DEF mutex_lock
  <2>2. CASE Acquired(t, m)
    BY <2>1, <2>2, AcquireSaves, Zenon
  <2>3. CASE /\ mutex[m].locked /\ Boosted(t, m)
             /\ pc' = [pc EXCEPT ![t] = "asleep"] /\ held' = held
    BY <2>1, <2>3, BoostMarks, Zenon
  <2>4. QED
    BY <1>1, <2>2, <2>3 DEF mutex_lock
<1>2. ASSUME NEW t \in Threads, NEW m \in Mutexes, mutex_trylock(t, m)
      PROVE  OneHeld' /\ BoostGoesBack'
  BY <1>2, AcquireSaves DEF mutex_trylock
<1>3. ASSUME NEW t \in Threads, NEW m \in Mutexes, mutex_unlock(t, m)
      PROVE  OneHeld' /\ BoostGoesBack'
  BY <1>3, UnlockRestores
<1>4. ASSUME UNCHANGED vars
      PROVE  OneHeld' /\ BoostGoesBack'
  BY <1>4 DEF vars, BInv, OneHeld, BoostGoesBack
<1>5. OneHeld' /\ BoostGoesBack'
  BY <1>1, <1>2, <1>3, <1>4 DEF Next
<1>6. QED
  BY <1>0, <1>5 DEF BInv

\* For any threads, mutexes and priorities, where a thread holds one mutex at a time it
\* runs at another priority than its own only while it holds a mutex that has that
\* priority saved and will restore it.
THEOREM BoostAlwaysGoesBack ==
  ASSUME Sizes, MaxHeld = 1
  PROVE  Spec => []BoostGoesBack
<1>1. Init => BInv
  BY MInitially DEF BInv, Init, OneHeld, BoostGoesBack
<1>2. BInv /\ [Next]_vars => BInv'
  BY BStep
<1>3. BInv => BoostGoesBack
  BY DEF BInv
<1>4. QED
  BY <1>1, <1>2, <1>3, PTL DEF Spec
=============================================================================
