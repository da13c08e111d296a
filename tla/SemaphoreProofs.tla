-------------------------- MODULE SemaphoreProofs --------------------------
(***************************************************************************)
(* The semaphore of module Semaphore loses no wake-up, for any finite set  *)
(* of threads and any initial count.                                       *)
(***************************************************************************)
EXTENDS Semaphore, FiniteSetTheorems, TLAPS

\* What is asked of the constants.
Sizes == IsFiniteSet(Threads) /\ MaxCount \in Nat /\ InitialCount \in 0 .. MaxCount

\* The inductive invariant: that linked threads sleep is what makes the thread a post
\* wakes a new one among the woken.
SInv == TypeOK /\ LinkedAsleep /\ PostsSuffice

\* What linking a thread at the end does to the queue.
LEMMA AppendWaiter ==
  ASSUME waiters \in Seq(Threads), NEW t \in Threads
  PROVE  /\ Append(waiters, t) \in Seq(Threads)
         /\ DOMAIN waiters = 1 .. Len(waiters) /\ Len(waiters) \in Nat
         /\ DOMAIN Append(waiters, t) = 1 .. Len(waiters) + 1
         /\ \A i \in 1 .. Len(waiters) : Append(waiters, t)[i] = waiters[i]
         /\ Append(waiters, t)[Len(waiters) + 1] = t
  OBVIOUS

\* What unlinking the first thread does to it.
LEMMA TailWaiter ==
  ASSUME waiters \in Seq(Threads), waiters # <<>>
  PROVE  /\ Tail(waiters) \in Seq(Threads) /\ Head(waiters) \in Threads
         /\ DOMAIN waiters = 1 .. Len(waiters) /\ Len(waiters) \in Nat \ {0}
         /\ Head(waiters) = waiters[1]
         /\ DOMAIN Tail(waiters) = 1 .. Len(waiters) - 1
         /\ \A i \in 1 .. Len(waiters) - 1 : Tail(waiters)[i] = waiters[i + 1]
  OBVIOUS

\* The threads on their way are finitely many.
LEMMA WokenCounts ==
  ASSUME Sizes
  PROVE  IsFiniteSet(Woken) /\ Cardinality(Woken) \in Nat
<1>1. IsFiniteSet(Woken)
  BY FS_Subset DEF Woken, Sizes
<1>2. QED
  BY <1>1, FS_CardinalityType

\* A thread that starts to sleep is linked, once.
LEMMA SleepKeeps ==
  ASSUME Sizes, SInv, NEW t \in Threads, pc[t] # "asleep", count <= 0,
         waiters' = Append(waiters, t), pc' = [pc EXCEPT ![t] = "asleep"], count' = count
  PROVE  SInv'
<1>0. TypeOK /\ LinkedAsleep /\ count = 0
  BY DEF SInv, TypeOK, Sizes
<1>1. /\ waiters' \in Seq(Threads)
      /\ DOMAIN waiters = 1 .. Len(waiters) /\ Len(waiters) \in Nat
      /\ DOMAIN waiters' = 1 .. Len(waiters) + 1
      /\ \A i \in 1 .. Len(waiters) : waiters'[i] = waiters[i]
      /\ waiters'[Len(waiters) + 1] = t
  BY <1>0, AppendWaiter DEF TypeOK
<1>2. /\ pc' \in [Threads -> {"out", "asleep", "woken"}]
      /\ \A s \in Threads : pc'[s] = IF s = t THEN "asleep" ELSE pc[s]
  BY <1>0 DEF TypeOK
<1>3. TypeOK'
  BY <1>0, <1>1, <1>2 DEF TypeOK
<1>4. \A i \in DOMAIN waiters : waiters[i] # t
  BY <1>0 DEF LinkedAsleep
<1>5. \A s \in Threads : pc'[s] = "asleep" <=> \E i \in DOMAIN waiters' : waiters'[i] = s
  <2>1. SUFFICES ASSUME NEW s \in Threads
                 PROVE  pc'[s] = "asleep" <=> \E i \in DOMAIN waiters' : waiters'[i] = s
    OBVIOUS
  <2>2. CASE s = t
    BY <2>2, <1>1, <1>2
  <2>3. CASE s # t
    <3>1. pc[s] = "asleep" <=> \E i \in DOMAIN waiters : waiters[i] = s
      BY <1>0 DEF LinkedAsleep
    <3>2. (\E i \in DOMAIN waiters : waiters[i] = s) <=> \E i \in DOMAIN waiters' : waiters'[i] = s
      BY <1>1, <2>3
    <3>3. QED
      BY <3>1, <3>2, <2>3, <1>2
  <2>4. QED
    BY <2>2, <2>3
<1>6. \A i, j \in DOMAIN waiters' : waiters'[i] = waiters'[j] => i = j
  BY <1>0, <1>1, <1>4 DEF LinkedAsleep
<1>7. PostsSuffice'
  <2>1. Woken' \subseteq Threads /\ IsFiniteSet(Threads)
    BY DEF Woken, Sizes
  <2>2. Cardinality(Woken') \in Nat
    BY <2>1, FS_Subset, FS_CardinalityType
  <2>3. QED
    BY <2>2, <1>0 DEF PostsSuffice
<1>8. QED
  BY <1>3, <1>5, <1>6, <1>7 DEF SInv, LinkedAsleep

\* A thread that takes a unit is not linked, and leaves the woken if it was one.
LEMMA TakeKeeps ==
  ASSUME Sizes, SInv, NEW t \in Threads, pc[t] # "asleep", count > 0,
         count' = count - 1, pc' = [pc EXCEPT ![t] = "out"], waiters' = waiters
  PROVE  SInv'
<1>0. TypeOK /\ LinkedAsleep /\ PostsSuffice
  BY DEF SInv
<1>1. /\ pc' \in [Threads -> {"out", "asleep", "woken"}]
      /\ \A s \in Threads : pc'[s] = IF s = t THEN "out" ELSE pc[s]
  BY <1>0 DEF TypeOK
<1>2. TypeOK'
  BY <1>0, <1>1 DEF TypeOK, Sizes
<1>3. LinkedAsleep'
  BY <1>0, <1>1 DEF LinkedAsleep
<1>4. PostsSuffice'
  <2>1. Woken' = Woken \ {t}
    BY <1>1 DEF Woken
  <2>2. IsFiniteSet(Woken) /\ Cardinality(Woken) \in Nat
    BY WokenCounts
  <2>3. Cardinality(Woken') >= Cardinality(Woken) - 1
    BY <2>1, <2>2, FS_RemoveElement
  <2>4. Cardinality(Woken') \in Nat
    BY <2>1, <2>2, FS_RemoveElement, FS_CardinalityType
  <2>5. count \in Nat
    BY <1>0 DEF TypeOK, Sizes
  <2>6. QED
    BY <1>0, <2>2, <2>3, <2>4, <2>5 DEF PostsSuffice
<1>5. QED
  BY <1>2, <1>3, <1>4 DEF SInv

\* A post that finds a thread asleep unlinks it and makes it one more of the woken.
LEMMA PostKeeps ==
  ASSUME Sizes, SInv, waiters # <<>>, count < MaxCount, count' = count + 1,
         waiters' = Tail(waiters), pc' = [pc EXCEPT ![Head(waiters)] = "woken"]
  PROVE  SInv'
<1>0. TypeOK /\ LinkedAsleep /\ PostsSuffice
  BY DEF SInv
<1> DEFINE h == Head(waiters)
<1>1. /\ waiters' \in Seq(Threads) /\ h \in Threads
      /\ DOMAIN waiters = 1 .. Len(waiters) /\ Len(waiters) \in Nat \ {0}
      /\ h = waiters[1]
      /\ DOMAIN waiters' = 1 .. Len(waiters) - 1
      /\ \A i \in 1 .. Len(waiters) - 1 : waiters'[i] = waiters[i + 1]
  BY <1>0, TailWaiter DEF TypeOK
<1>2. pc' = [pc EXCEPT ![h] = "woken"]
  OBVIOUS
<1> HIDE DEF h
<1>3. /\ pc' \in [Threads -> {"out", "asleep", "woken"}]
      /\ \A s \in Threads : pc'[s] = IF s = h THEN "woken" ELSE pc[s]
  BY <1>0, <1>1, <1>2 DEF TypeOK
<1>4. TypeOK'
  BY <1>0, <1>1, <1>3 DEF TypeOK, Sizes
<1>5. pc[h] = "asleep"
  BY <1>0, <1>1 DEF LinkedAsleep
<1>6. \A i, j \in DOMAIN waiters : waiters[i] = waiters[j] => i = j
  BY <1>0 DEF LinkedAsleep
<1>7. \A i \in DOMAIN waiters' : waiters'[i] # h
  BY <1>1, <1>6
<1>8. \A s \in Threads : pc'[s] = "asleep" <=> \E i \in DOMAIN waiters' : waiters'[i] = s
  <2>1. SUFFICES ASSUME NEW s \in Threads
                 PROVE  pc'[s] = "asleep" <=> \E i \in DOMAIN waiters' : waiters'[i] = s
    OBVIOUS
  <2>2. CASE s = h
    BY <2>2, <1>3, <1>7
  <2>3. CASE s # h
    <3>1. pc[s] = "asleep" <=> \E i \in DOMAIN waiters : waiters[i] = s
      BY <1>0 DEF LinkedAsleep
    <3>2. ASSUME NEW i \in DOMAIN waiters, waiters[i] = s
          PROVE  \E j \in DOMAIN waiters' : waiters'[j] = s
      <4>1. i # 1 /\ i - 1 \in DOMAIN waiters' /\ waiters'[i - 1] = waiters[i]
        BY <1>1, <2>3, <3>2
      <4>2. QED
        BY <4>1, <3>2
    <3>3. ASSUME NEW j \in DOMAIN waiters', waiters'[j] = s
          PROVE  \E i \in DOMAIN waiters : waiters[i] = s
      <4>1. j + 1 \in DOMAIN waiters /\ waiters[j + 1] = s
        BY <1>1, <3>3
      <4>2. QED
        BY <4>1
    <3>4. QED
      BY <3>1, <3>2, <3>3, <2>3, <1>3
  <2>4. QED
    BY <2>2, <2>3
<1>9. \A i, j \in DOMAIN waiters' : waiters'[i] = waiters'[j] => i = j
  <2>1. SUFFICES ASSUME NEW i \in DOMAIN waiters', NEW j \in DOMAIN waiters', waiters'[i] = waiters'[j]
                 PROVE  i = j
    OBVIOUS
  <2>2. /\ i \in Int /\ j \in Int /\ i + 1 \in DOMAIN waiters /\ j + 1 \in DOMAIN waiters
        /\ waiters'[i] = waiters[i + 1] /\ waiters'[j] = waiters[j + 1]
    BY <1>1
  <2>3. i + 1 = j + 1
    BY <2>1, <2>2, <1>6
  <2>4. QED
    BY <2>2, <2>3
<1>10. PostsSuffice'
  <2>1. Woken' = Woken \cup {h} /\ h \notin Woken
    BY <1>1, <1>3, <1>5 DEF Woken
  <2>2. IsFiniteSet(Woken) /\ Cardinality(Woken) \in Nat
    BY WokenCounts
  <2>3. Cardinality(Woken') = Cardinality(Woken) + 1
    BY <2>1, <2>2, FS_AddElement
  <2>4. count \in Nat
    BY <1>0 DEF TypeOK, Sizes
  <2>5. QED
    BY <1>0, <2>2, <2>3, <2>4 DEF PostsSuffice
<1>11. QED
  BY <1>4, <1>8, <1>9, <1>10 DEF SInv, LinkedAsleep

\* The initial state satisfies the invariant.
LEMMA SInitially == Sizes /\ Init => SInv
<1> SUFFICES ASSUME Sizes, Init PROVE SInv
  OBVIOUS
<1>1. waiters = <<>> /\ DOMAIN waiters = {} /\ waiters \in Seq(Threads)
  BY DEF Init, sem_init
<1>2. QED
  BY <1>1 DEF Init, sem_init, SInv, TypeOK, LinkedAsleep, PostsSuffice, Sizes

\* Every step keeps it.
LEMMA SStep == Sizes /\ SInv /\ [Next]_vars => SInv'
<1> SUFFICES ASSUME Sizes, SInv, [Next]_vars PROVE SInv'
  OBVIOUS
<1>1. ASSUME NEW t \in Threads, sem_wait(t) PROVE SInv'
  <2>1. pc[t] # "asleep"
    BY <1>1 DEF sem_wait
  <2>2. CASE count > 0
    BY <1>1, <2>1, <2>2, TakeKeeps DEF sem_wait, SInv, TypeOK, Sizes
  <2>3. CASE count <= 0
    BY <1>1, <2>1, <2>3, SleepKeeps DEF sem_wait, SInv, TypeOK, Sizes
  <2>4. QED
    BY <2>2, <2>3 DEF SInv, TypeOK, Sizes
<1>2. ASSUME NEW t \in Threads, sem_post(t) PROVE SInv'
  <2>1. CASE waiters # <<>>
    BY <1>2, <2>1, PostKeeps DEF sem_post
  <2>2. CASE waiters = <<>>
    <3>1. waiters' = waiters /\ pc' = pc /\ count' = count + 1 /\ count < MaxCount
      BY <1>2, <2>2 DEF sem_post
    <3>2. QED
      BY <3>1, <2>2 DEF SInv, TypeOK, LinkedAsleep, PostsSuffice, Sizes
  <2>3. QED
    BY <2>1, <2>2
<1>3. ASSUME NEW t \in Threads, sem_trywait(t) PROVE SInv'
  <2>1. /\ count > 0 /\ count' = count - 1 /\ waiters' = waiters /\ pc' = pc
    BY <1>3 DEF sem_trywait
  <2>2. Woken' = Woken /\ Cardinality(Woken) \in Nat
    BY <2>1, WokenCounts DEF Woken
  <2>3. QED
    BY <2>1, <2>2 DEF SInv, TypeOK, LinkedAsleep, PostsSuffice, Sizes
<1>4. CASE UNCHANGED vars
  <2>1. Woken' = Woken
    BY <1>4 DEF vars, Woken
  <2>2. QED
    BY <1>4, <2>1 DEF vars, SInv, TypeOK, LinkedAsleep, PostsSuffice
<1>5. QED
  BY <1>1, <1>2, <1>3, <1>4 DEF Next

\* The invariant holds throughout.
THEOREM SemaphoreInvariance ==
  ASSUME Sizes
  PROVE  Spec => []SInv
<1>1. Init => SInv
  BY SInitially
<1>2. SInv /\ [Next]_vars => SInv'
  BY SStep
<1>3. QED
  BY <1>1, <1>2, PTL DEF Spec

\* For any number of threads, while threads sleep in sem_wait there is a woken thread
\* for each unit of the count: no interleaving of waits, posts and trywaits loses a
\* wake-up.
THEOREM PostsAlwaysSuffice ==
  ASSUME Sizes
  PROVE  Spec => []PostsSuffice
<1>1. SInv => PostsSuffice
  BY DEF SInv
<1>2. QED
  BY <1>1, SemaphoreInvariance, PTL

\* For any number of threads, a thread is linked in the queue of the semaphore, once,
\* exactly while it sleeps in sem_wait.
THEOREM AlwaysLinkedAsleep ==
  ASSUME Sizes
  PROVE  Spec => []LinkedAsleep
<1>1. SInv => LinkedAsleep
  BY DEF SInv
<1>2. QED
  BY <1>1, SemaphoreInvariance, PTL
=============================================================================
