------------------------ MODULE AdaptiveMutexProofs ------------------------
(***************************************************************************)
(* The adaptive mutex of module AdaptiveMutex is held by one thread at a   *)
(* time and its owner field is truthful, for any set of threads.           *)
(***************************************************************************)
EXTENDS AdaptiveMutex, TLAPS

\* What is asked of the constants.
Sizes == NoTask \notin Threads /\ BasePriority \in [Threads -> Int]

\* A linked thread sleeps, and is linked once: the thread that an unlock wakes is not
\* the one that unlocks.
Parked ==
  /\ \A i \in DOMAIN waiters : pc[waiters[i]] = "asleep"
  /\ \A i, j \in DOMAIN waiters : waiters[i] = waiters[j] => i = j

\* The inductive invariant.
AInv == TypeOK /\ OwnerTruthful /\ Parked

Inside == {"set", "in"}

\* What linking a thread at the end does to the queue.
LEMMA AppendWaiter ==
  ASSUME waiters \in Seq(Threads), NEW t \in Threads
  PROVE  /\ Append(waiters, t) \in Seq(Threads)
         /\ DOMAIN waiters = 1 .. Len(waiters) /\ Len(waiters) \in Nat
         /\ DOMAIN Append(waiters, t) = 1 .. Len(waiters) + 1
         /\ \A i \in 1 .. Len(waiters) : Append(waiters, t)[i] = waiters[i]
         /\ Append(waiters, t)[Len(waiters) + 1] = t
  OBVIOUS

\* What unlinking the first thread does to it.
LEMMA TailWaiter ==
  ASSUME waiters \in Seq(Threads), waiters # <<>>
  PROVE  /\ Tail(waiters) \in Seq(Threads) /\ Head(waiters) \in Threads
         /\ DOMAIN waiters = 1 .. Len(waiters) /\ Len(waiters) \in Nat \ {0}
         /\ Head(waiters) = waiters[1]
         /\ DOMAIN Tail(waiters) = 1 .. Len(waiters) - 1
         /\ \A i \in 1 .. Len(waiters) - 1 : Tail(waiters)[i] = waiters[i + 1]
  OBVIOUS

\* A thread that is awake and goes on changes nobody else's point, and unlinks nobody.
LEMMA GotoMoves ==
  ASSUME TypeOK, Parked, NEW t \in Threads, NEW to \in Points, Goto(t, to),
         pc[t] # "asleep", waiters' = waiters
  PROVE  /\ pc' \in [Threads -> Points]
         /\ \A s \in Threads : pc'[s] = IF s = t THEN to ELSE pc[s]
         /\ Parked'
<1>1. /\ pc' \in [Threads -> Points]
      /\ \A s \in Threads : pc'[s] = IF s = t THEN to ELSE pc[s]
  BY DEF TypeOK, Goto
<1>2. \A i \in DOMAIN waiters : waiters[i] \in Threads
  BY DEF TypeOK
<1>3. QED
  BY <1>1, <1>2 DEF Parked

\* A thread that stays outside the mutex leaves the holder as it is.
LEMMA OutsideMoves ==
  ASSUME AInv, NEW t \in Threads, NEW to, pc[t] \notin Inside, to \notin Inside,
         \A s \in Threads : pc'[s] = IF s = t THEN to ELSE pc[s],
         locked' = locked, owner' = owner
  PROVE  OwnerTruthful'
<1>1. OwnerTruthful /\ owner \in Threads \cup {NoTask}
  BY DEF AInv, TypeOK
<1>2. Holders' = Holders
  BY DEF Holders, Inside
<1>3. \A s \in Threads : pc'[s] = "in" <=> pc[s] = "in"
  BY DEF Inside
<1>4. QED
  BY <1>1, <1>2, <1>3 DEF OwnerTruthful

\* While the flag is clear nobody holds the mutex and it has no owner.
LEMMA FreeHasNoOwner ==
  ASSUME AInv, ~locked
  PROVE  Holders = {} /\ owner = NoTask
<1>1. OwnerTruthful /\ owner \in Threads \cup {NoTask}
  BY DEF AInv, TypeOK
<1>2. Holders = {}
  BY <1>1 DEF OwnerTruthful
<1>3. QED
  BY <1>1, <1>2 DEF OwnerTruthful, Holders

\* A thread that is inside is the only holder.
LEMMA HolderAlone ==
  ASSUME AInv, NEW t \in Threads, pc[t] \in Inside
  PROVE  Holders = {t} /\ locked
<1>1. t \in Holders
  BY DEF Holders, Inside
<1>2. QED
  BY <1>1 DEF AInv, OwnerTruthful

\* The initial state satisfies the invariant.
LEMMA AInitially == Sizes /\ Init => AInv
<1> SUFFICES ASSUME Sizes, Init PROVE AInv
  OBVIOUS
<1>1. /\ waiters \in Seq(Threads) /\ DOMAIN waiters = {}
      /\ pc \in [Threads -> Points] /\ \A t \in Threads : pc[t] = "out"
  BY DEF Init, Points
<1>2. TypeOK
  <2>1. locked \in BOOLEAN /\ owner \in Threads \cup {NoTask}
    BY Zenon DEF Init
  <2>2. owner_prio \in Int /\ priority \in [Threads -> Int]
    BY DEF Init, Sizes
  <2>3. QED
    BY <1>1, <2>1, <2>2, Zenon DEF TypeOK
<1>3. Holders = {}
  BY <1>1 DEF Holders
<1>4. QED
  BY <1>1, <1>2, <1>3 DEF Init, AInv, OwnerTruthful, Parked

\* Taking the flag while spinning.
LEMMA SpinKeeps ==
  ASSUME Sizes, AInv, NEW t \in Threads, Spin(t)
  PROVE  AInv'
<1>0. TypeOK /\ OwnerTruthful /\ Parked /\ pc[t] = "spin"
  BY DEF AInv, Spin
<1>1. /\ locked' = TRUE /\ owner' = owner /\ waiters' = waiters
      /\ owner_prio' = owner_prio /\ priority' = priority
  BY DEF Spin
<1>2. CASE locked
  <2>1. Goto(t, "guard") /\ locked' = locked
    BY <1>0, <1>1, <1>2 DEF Spin, TypeOK
  <2>2. /\ pc' \in [Threads -> Points] /\ Parked'
        /\ \A s \in Threads : pc'[s] = IF s = t THEN "guard" ELSE pc[s]
    BY <1>0, <1>1, <2>1, GotoMoves DEF Points
  <2>3. OwnerTruthful'
    BY <1>0, <1>1, <2>1, <2>2, OutsideMoves DEF Inside
  <2>4. QED
    BY <1>0, <1>1, <2>2, <2>3 DEF AInv, TypeOK
<1>3. CASE ~locked
  <2>1. Goto(t, "set")
    BY <1>3 DEF Spin
  <2>2. /\ pc' \in [Threads -> Points] /\ Parked'
        /\ \A s \in Threads : pc'[s] = IF s = t THEN "set" ELSE pc[s]
    BY <1>0, <1>1, <2>1, GotoMoves DEF Points
  <2>3. Holders = {} /\ owner = NoTask
    BY <1>3, FreeHasNoOwner
  <2>4. Holders' = {t}
    BY <2>2, <2>3 DEF Holders
  <2>5. \A s \in Threads : pc'[s] # "in"
    BY <2>2, <2>3 DEF Holders
  <2>6. OwnerTruthful'
    BY <1>1, <2>3, <2>4, <2>5 DEF OwnerTruthful
  <2>7. QED
    BY <1>0, <1>1, <2>2, <2>6 DEF AInv, TypeOK
<1>4. QED
  BY <1>2, <1>3

\* The section under guard.
LEMMA GuardedKeeps ==
  ASSUME Sizes, AInv, NEW t \in Threads, Guarded(t)
  PROVE  AInv'
<1>0. TypeOK /\ OwnerTruthful /\ Parked /\ pc[t] = "guard"
  BY DEF AInv, Guarded
<1>1. locked' = TRUE /\ waiters' = waiters
  BY DEF Guarded
<1>2. CASE locked
  <2>1. Goto(t, "park") /\ locked' = locked /\ owner' = owner
    BY <1>0, <1>1, <1>2 DEF Guarded, TypeOK
  <2>2. /\ pc' \in [Threads -> Points] /\ Parked'
        /\ \A s \in Threads : pc'[s] = IF s = t THEN "park" ELSE pc[s]
    BY <1>0, <1>1, <2>1, GotoMoves DEF Points
  <2>3. OwnerTruthful'
    BY <1>0, <1>1, <2>1, <2>2, OutsideMoves DEF Inside
  <2>4. owner_prio' \in Int /\ priority' \in [Threads -> Int]
    <3>1. CASE owner # NoTask /\ priority[t] < priority[owner]
      <4>1. /\ owner_prio' = priority[owner] /\ owner \in Threads
            /\ priority' = [priority EXCEPT ![owner] = priority[t]]
        BY <1>0, <1>2, <3>1 DEF Guarded, TypeOK
      <4>2. QED
        BY <1>0, <4>1 DEF TypeOK
    <3>2. CASE ~(owner # NoTask /\ priority[t] < priority[owner])
      BY <1>0, <1>2, <3>2 DEF Guarded, TypeOK
    <3>3. QED
      BY <3>1, <3>2
  <2>5. QED
    BY <1>0, <1>1, <2>1, <2>2, <2>3, <2>4 DEF AInv, TypeOK
<1>3. CASE ~locked
  <2>1. /\ Goto(t, "in") /\ owner' = t /\ owner_prio' = owner_prio /\ priority' = priority
    BY <1>3 DEF Guarded
  <2>2. /\ pc' \in [Threads -> Points] /\ Parked'
        /\ \A s \in Threads : pc'[s] = IF s = t THEN "in" ELSE pc[s]
    BY <1>0, <1>1, <2>1, GotoMoves DEF Points
  <2>3. Holders = {}
    BY <1>3, FreeHasNoOwner
  <2>4. Holders' = {t} /\ \A s \in Threads : pc'[s] = "in" => s = t
    BY <2>2, <2>3 DEF Holders
  <2>5. OwnerTruthful'
    BY <1>1, <2>1, <2>2, <2>4 DEF OwnerTruthful
  <2>6. QED
    BY <1>0, <1>1, <2>1, <2>2, <2>5 DEF AInv, TypeOK
<1>4. QED
  BY <1>2, <1>3

\* The owner is written after the flag was taken.
LEMMA SetOwnerKeeps ==
  ASSUME Sizes, AInv, NEW t \in Threads, SetOwner(t)
  PROVE  AInv'
<1>0. TypeOK /\ OwnerTruthful /\ Parked /\ pc[t] = "set"
  BY DEF AInv, SetOwner
<1>1. /\ Goto(t, "in") /\ owner' = t /\ locked' = locked /\ waiters' = waiters
      /\ owner_prio' = owner_prio /\ priority' = priority
  BY DEF SetOwner
<1>2. /\ pc' \in [Threads -> Points] /\ Parked'
      /\ \A s \in Threads : pc'[s] = IF s = t THEN "in" ELSE pc[s]
  BY <1>0, <1>1, GotoMoves DEF Points
<1>3. Holders = {t} /\ locked
  BY <1>0, HolderAlone DEF Inside
<1>4. Holders' = {t} /\ \A s \in Threads : pc'[s] = "in" => s = t
  BY <1>2, <1>3 DEF Holders
<1>5. OwnerTruthful'
  BY <1>1, <1>2, <1>3, <1>4 DEF OwnerTruthful
<1>6. QED
  BY <1>0, <1>1, <1>2, <1>5 DEF AInv, TypeOK

\* A thread goes to sleep.
LEMMA WaitKeeps ==
  ASSUME Sizes, AInv, NEW t \in Threads, wq_wait(t)
  PROVE  AInv'
<1>0. TypeOK /\ OwnerTruthful /\ Parked /\ pc[t] = "park"
  BY DEF AInv, wq_wait
<1>1. /\ waiters' = Append(waiters, t) /\ pc' = [pc EXCEPT ![t] = "asleep"]
      /\ locked' = locked /\ owner' = owner /\ owner_prio' = owner_prio
      /\ priority' = priority
  BY DEF wq_wait, Goto
<1>2. /\ waiters' \in Seq(Threads)
      /\ DOMAIN waiters = 1 .. Len(waiters) /\ Len(waiters) \in Nat
      /\ DOMAIN waiters' = 1 .. Len(waiters) + 1
      /\ \A i \in 1 .. Len(waiters) : waiters'[i] = waiters[i]
      /\ waiters'[Len(waiters) + 1] = t
  BY <1>0, <1>1, AppendWaiter DEF TypeOK
<1>3. /\ pc' \in [Threads -> Points]
      /\ \A s \in Threads : pc'[s] = IF s = t THEN "asleep" ELSE pc[s]
  BY <1>0, <1>1 DEF TypeOK, Points
<1>4. \A i \in DOMAIN waiters : waiters[i] \in Threads /\ waiters[i] # t
  BY <1>0 DEF Parked, TypeOK
<1>5. \A i \in DOMAIN waiters' : pc'[waiters'[i]] = "asleep"
  BY <1>0, <1>2, <1>3, <1>4 DEF Parked
<1>6. \A i, j \in DOMAIN waiters' : waiters'[i] = waiters'[j] => i = j
  BY <1>0, <1>2, <1>4 DEF Parked
<1>7. OwnerTruthful'
  BY <1>0, <1>1, <1>3, OutsideMoves DEF Inside
<1>8. QED
  BY <1>0, <1>1, <1>2, <1>3, <1>5, <1>6, <1>7 DEF AInv, TypeOK, Parked

\* The holder lets go and wakes the first sleeper.
LEMMA UnlockKeeps ==
  ASSUME Sizes, AInv, NEW t \in Threads, adaptive_unlock(t)
  PROVE  AInv'
<1>0. TypeOK /\ OwnerTruthful /\ Parked /\ pc[t] = "in" /\ owner = t
  BY DEF AInv, adaptive_unlock, OwnerTruthful
<1>1. owner' = NoTask /\ locked' = FALSE
  BY DEF adaptive_unlock
<1>2. owner_prio' \in Int /\ priority' \in [Threads -> Int]
  <2>1. CASE owner_prio > 0
    <3>1. priority' = [priority EXCEPT ![owner] = owner_prio] /\ owner_prio' = 0
      BY <2>1 DEF adaptive_unlock
    <3>2. QED
      BY <1>0, <3>1 DEF TypeOK
  <2>2. CASE ~(owner_prio > 0)
    BY <1>0, <2>2 DEF adaptive_unlock, TypeOK
  <2>3. QED
    BY <2>1, <2>2
<1>3. Holders = {t}
  BY <1>0, HolderAlone DEF Inside
<1>4. ASSUME \A s \in Threads : pc'[s] \in Inside => s # t /\ pc[s] \in Inside
      PROVE  OwnerTruthful'
  <2>1. Holders' = {} /\ \A s \in Threads : pc'[s] # "in"
    BY <1>3, <1>4 DEF Holders, Inside
  <2>2. QED
    BY <1>1, <2>1 DEF OwnerTruthful
<1>5. CASE waiters = <<>>
  <2>1. waiters' = waiters /\ Goto(t, "out")
    BY <1>5 DEF adaptive_unlock
  <2>2. /\ pc' \in [Threads -> Points] /\ Parked'
        /\ \A s \in Threads : pc'[s] = IF s = t THEN "out" ELSE pc[s]
    BY <1>0, <2>1, GotoMoves DEF Points
  <2>3. OwnerTruthful'
    BY <1>4, <2>2 DEF Inside
  <2>4. QED
    BY <1>0, <1>1, <1>2, <2>1, <2>2, <2>3 DEF AInv, TypeOK
<1>6. CASE waiters # <<>>
  <2> DEFINE h == Head(waiters)
  <2>1. waiters' = Tail(waiters) /\ pc' = [pc EXCEPT ![t] = "out", ![h] = "guard"]
    BY <1>6 DEF adaptive_unlock
  <2>2. /\ waiters' \in Seq(Threads) /\ h \in Threads
        /\ DOMAIN waiters = 1 .. Len(waiters) /\ Len(waiters) \in Nat \ {0}
        /\ h = waiters[1]
        /\ DOMAIN waiters' = 1 .. Len(waiters) - 1
        /\ \A i \in 1 .. Len(waiters) - 1 : waiters'[i] = waiters[i + 1]
    BY <1>0, <1>6, <2>1, TailWaiter DEF TypeOK
  <2> HIDE DEF h
  <2>3. pc[h] = "asleep"
    BY <1>0, <2>2 DEF Parked
  <2>4. /\ pc' \in [Threads -> Points]
        /\ \A s \in Threads : pc'[s] = IF s = h THEN "guard" ELSE IF s = t THEN "out" ELSE pc[s]
    BY <1>0, <2>1, <2>2 DEF TypeOK, Points
  <2>5. OwnerTruthful'
    BY <1>4, <2>4 DEF Inside
  <2>6. ASSUME NEW i \in DOMAIN waiters'
        PROVE  pc'[waiters'[i]] = "asleep"
    <3>1. /\ i + 1 \in DOMAIN waiters /\ i + 1 # 1 /\ 1 \in DOMAIN waiters
          /\ waiters'[i] = waiters[i + 1]
      BY <2>2
    <3>2. waiters[i + 1] # h /\ pc[waiters[i + 1]] = "asleep"
      BY <1>0, <2>2, <3>1 DEF Parked
    <3>3. waiters[i + 1] \in Threads
      BY <1>0, <3>1 DEF TypeOK
    <3>4. QED
      BY <1>0, <2>4, <3>1, <3>2, <3>3
  <2>7. ASSUME NEW i \in DOMAIN waiters', NEW j \in DOMAIN waiters', waiters'[i] = waiters'[j]
        PROVE  i = j
    <3>1. /\ i \in Int /\ j \in Int /\ i + 1 \in DOMAIN waiters /\ j + 1 \in DOMAIN waiters
          /\ waiters'[i] = waiters[i + 1] /\ waiters'[j] = waiters[j + 1]
      BY <2>2
    <3>2. i + 1 = j + 1
      BY <1>0, <2>7, <3>1 DEF Parked
    <3>3. QED
      BY <3>1, <3>2
  <2>8. Parked'
    BY <2>6, <2>7 DEF Parked
  <2>9. QED
    BY <1>0, <1>1, <1>2, <2>2, <2>4, <2>5, <2>8 DEF AInv, TypeOK
<1>7. QED
  BY <1>5, <1>6

\* Every step keeps the invariant.
LEMMA AStep == Sizes /\ AInv /\ [Next]_vars => AInv'
<1> SUFFICES ASSUME Sizes, AInv, [Next]_vars PROVE AInv'
  OBVIOUS
<1>1. ASSUME NEW t \in Threads, CallLock(t) PROVE AInv'
  <2>0. TypeOK /\ OwnerTruthful /\ Parked /\ pc[t] = "out"
    BY <1>1 DEF AInv, CallLock
  <2>1. /\ Goto(t, "spin") /\ owner' = owner /\ locked' = locked /\ waiters' = waiters
        /\ owner_prio' = owner_prio /\ priority' = priority
    BY <1>1 DEF CallLock
  <2>2. /\ pc' \in [Threads -> Points] /\ Parked'
        /\ \A s \in Threads : pc'[s] = IF s = t THEN "spin" ELSE pc[s]
    BY <2>0, <2>1, GotoMoves DEF Points
  <2>3. OwnerTruthful'
    BY <2>0, <2>1, <2>2, OutsideMoves DEF Inside
  <2>4. QED
    BY <2>0, <2>1, <2>2, <2>3 DEF AInv, TypeOK
<1>2. CASE UNCHANGED vars
  <2>1. Holders' = Holders
    BY <1>2 DEF vars, Holders
  <2>2. QED
    BY <1>2, <2>1 DEF vars, AInv, TypeOK, OwnerTruthful, Parked
<1>3. QED
  BY <1>1, <1>2, SpinKeeps, GuardedKeeps, SetOwnerKeeps, WaitKeeps, UnlockKeeps DEF Next

\* For any threads and priorities, the flag is set exactly while one thread has the
\* mutex, and `owner` names that thread or nobody.
THEOREM OwnerAlwaysTruthful ==
  ASSUME Sizes
  PROVE  Spec => []OwnerTruthful
<1>1. Init => AInv
  BY AInitially
<1>2. AInv /\ [Next]_vars => AInv'
  BY AStep
<1>3. AInv => OwnerTruthful
  BY DEF AInv
<1>4. QED
  BY <1>1, <1>2, <1>3, PTL DEF Spec
=============================================================================
