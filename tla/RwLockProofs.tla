---------------------------- MODULE RwLockProofs ---------------------------
(***************************************************************************)
(* The read-write lock of module RwLock excludes writers from readers and  *)
(* from each other for any finite set of threads.                          *)
(***************************************************************************)
EXTENDS RwLock, FiniteSetTheorems, TLAPS

\* The inductive invariant.
RInv == TypeOK /\ Exclusion

\* A thread that goes from one point to another leaves the first set of threads and
\* enters the second.
LEMMA GotoMoves ==
  ASSUME IsFiniteSet(Threads), TypeOK, NEW t \in Threads, NEW from, NEW to \in Points,
         from # to, Goto(t, from, to)
  PROVE  /\ pc' \in [Threads -> Points]
         /\ In(from)' = In(from) \ {t} /\ t \in In(from)
         /\ In(to)' = In(to) \cup {t} /\ t \notin In(to)
         /\ \A p : p \notin {from, to} => In(p)' = In(p)
<1>1. pc' \in [Threads -> Points]
  BY DEF TypeOK, Goto
<1>2. \A s \in Threads : pc'[s] = IF s = t THEN to ELSE pc[s]
  BY DEF TypeOK, Goto
<1>3. pc[t] = from
  BY DEF Goto
<1>4. QED
  BY <1>1, <1>2, <1>3 DEF In

\* The numbers of threads change by one.
LEMMA GotoCounts ==
  ASSUME IsFiniteSet(Threads), TypeOK, NEW t \in Threads, NEW from, NEW to \in Points,
         from # to, Goto(t, from, to)
  PROVE  /\ Cardinality(In(from)') = Cardinality(In(from)) - 1
         /\ Cardinality(In(to)') = Cardinality(In(to)) + 1
         /\ Cardinality(In(from)) \in Nat /\ Cardinality(In(to)) \in Nat
         /\ Cardinality(In(from)) > 0
<1>1. IsFiniteSet(In(from)) /\ IsFiniteSet(In(to))
  BY FS_Subset DEF In
<1>2. /\ In(from)' = In(from) \ {t} /\ t \in In(from)
      /\ In(to)' = In(to) \cup {t} /\ t \notin In(to)
  BY GotoMoves
<1>3. Cardinality(In(from)') = Cardinality(In(from)) - 1
  BY <1>1, <1>2, FS_RemoveElement
<1>4. Cardinality(In(to)') = Cardinality(In(to)) + 1
  BY <1>1, <1>2, FS_AddElement
<1>5. Cardinality(In(from)) \in Nat /\ Cardinality(In(to)) \in Nat
  BY <1>1, FS_CardinalityType
<1>6. Cardinality(In(from)) > 0
  BY <1>1, <1>2, <1>5, FS_EmptySet
<1>7. QED
  BY <1>3, <1>4, <1>5, <1>6

\* No thread is where the count is zero.
LEMMA NobodyCounted ==
  ASSUME IsFiniteSet(Threads), NEW p, Cardinality(In(p)) = 0
  PROVE  In(p) = {}
<1>1. IsFiniteSet(In(p))
  BY FS_Subset DEF In
<1>2. QED
  BY <1>1, FS_EmptySet

\* The initial state satisfies the invariant.
LEMMA RInitially == IsFiniteSet(Threads) /\ Init => RInv
<1> SUFFICES ASSUME IsFiniteSet(Threads), Init PROVE RInv
  OBVIOUS
<1>1. TypeOK
  BY DEF Init, rwlock_init, TypeOK, Points
<1>2. In("reading") = {} /\ In("write") = {} /\ In("writing") = {}
  BY DEF Init, In
<1>3. QED
  BY <1>1, <1>2, FS_EmptySet DEF RInv, Exclusion, Init, rwlock_init

\* Every step keeps the invariant.
LEMMA RStep == IsFiniteSet(Threads) /\ RInv /\ [Next]_vars => RInv'
<1> SUFFICES ASSUME IsFiniteSet(Threads), RInv, [Next]_vars PROVE RInv'
  OBVIOUS
<1>0. TypeOK /\ Exclusion
  BY DEF RInv
<1>1. ASSUME NEW t \in Threads, CallRead(t) PROVE RInv'
  <2>1. Goto(t, "out", "read") /\ UNCHANGED <<readers, writer, w_waiting>>
    BY <1>1 DEF CallRead
  <2>2. /\ pc' \in [Threads -> Points]
        /\ \A p : p \notin {"out", "read"} => In(p)' = In(p)
    BY <1>0, <2>1, GotoMoves DEF Points
  <2>3. QED
    BY <1>0, <2>1, <2>2 DEF RInv, TypeOK, Exclusion
<1>2. ASSUME NEW t \in Threads, rwlock_read_lock(t) PROVE RInv'
  <2>1. Goto(t, "read", "reading") /\ readers' = readers + 1 /\ UNCHANGED <<writer, w_waiting>>
    BY <1>2 DEF rwlock_read_lock
  <2>2. /\ pc' \in [Threads -> Points]
        /\ \A p : p \notin {"read", "reading"} => In(p)' = In(p)
    BY <1>0, <2>1, GotoMoves DEF Points
  <2>3. Cardinality(In("reading")') = Cardinality(In("reading")) + 1
    BY <1>0, <2>1, GotoCounts DEF Points
  <2>4. In("writing") = {}
    BY <1>0, <1>2, NobodyCounted DEF Exclusion, rwlock_read_lock
  <2>5. QED
    BY <1>0, <2>1, <2>2, <2>3, <2>4 DEF RInv, TypeOK, Exclusion
<1>3. ASSUME NEW t \in Threads, rwlock_read_unlock(t) PROVE RInv'
  <2>1. Goto(t, "reading", "out") /\ readers' = readers - 1 /\ UNCHANGED <<writer, w_waiting>>
    BY <1>3 DEF rwlock_read_unlock
  <2>2. /\ pc' \in [Threads -> Points] /\ t \in In("reading")
        /\ \A p : p \notin {"reading", "out"} => In(p)' = In(p)
    BY <1>0, <2>1, GotoMoves DEF Points
  <2>3. /\ Cardinality(In("reading")') = Cardinality(In("reading")) - 1
        /\ Cardinality(In("reading")) \in Nat /\ Cardinality(In("reading")) > 0
    BY <1>0, <2>1, GotoCounts DEF Points
  <2>4. In("writing") = {}
    BY <1>0, <2>2 DEF Exclusion
  <2>5. QED
    BY <1>0, <2>1, <2>2, <2>3, <2>4 DEF RInv, TypeOK, Exclusion
<1>4. ASSUME NEW t \in Threads, Announce(t) PROVE RInv'
  <2>1. Goto(t, "out", "write") /\ w_waiting' = w_waiting + 1 /\ UNCHANGED <<readers, writer>>
    BY <1>4 DEF Announce
  <2>2. /\ pc' \in [Threads -> Points]
        /\ \A p : p \notin {"out", "write"} => In(p)' = In(p)
    BY <1>0, <2>1, GotoMoves DEF Points
  <2>3. Cardinality(In("write")') = Cardinality(In("write")) + 1
    BY <1>0, <2>1, GotoCounts DEF Points
  <2>4. QED
    BY <1>0, <2>1, <2>2, <2>3 DEF RInv, TypeOK, Exclusion
<1>5. ASSUME NEW t \in Threads, rwlock_write_lock(t) PROVE RInv'
  <2>1. /\ Goto(t, "write", "writing") /\ writer' = 1 /\ w_waiting' = w_waiting - 1
        /\ UNCHANGED readers
    BY <1>5 DEF rwlock_write_lock
  <2>2. /\ pc' \in [Threads -> Points]
        /\ In("writing")' = In("writing") \cup {t}
        /\ \A p : p \notin {"write", "writing"} => In(p)' = In(p)
    BY <1>0, <2>1, GotoMoves DEF Points
  <2>3. /\ Cardinality(In("write")') = Cardinality(In("write")) - 1
        /\ Cardinality(In("writing")') = Cardinality(In("writing")) + 1
        /\ Cardinality(In("write")) \in Nat /\ Cardinality(In("write")) > 0
    BY <1>0, <2>1, GotoCounts DEF Points
  <2>4. In("writing") = {} /\ In("reading") = {}
    BY <1>0, <1>5, NobodyCounted DEF Exclusion, rwlock_write_lock
  <2>5. In("writing")' = {t} /\ In("reading")' = {} /\ In("reading")' = In("reading")
    BY <2>2, <2>4
  <2>6. QED
    BY <1>0, <1>5, <2>1, <2>2, <2>3, <2>5 DEF RInv, TypeOK, Exclusion, rwlock_write_lock
<1>6. ASSUME NEW t \in Threads, rwlock_write_unlock(t) PROVE RInv'
  <2>1. Goto(t, "writing", "out") /\ writer' = 0 /\ UNCHANGED <<readers, w_waiting>>
    BY <1>6 DEF rwlock_write_unlock
  <2>2. /\ pc' \in [Threads -> Points] /\ t \in In("writing")
        /\ In("writing")' = In("writing") \ {t}
        /\ \A p : p \notin {"writing", "out"} => In(p)' = In(p)
    BY <1>0, <2>1, GotoMoves DEF Points
  <2>3. In("writing")' = {}
    BY <1>0, <2>2 DEF Exclusion
  <2>4. QED
    BY <1>0, <2>1, <2>2, <2>3, FS_EmptySet DEF RInv, TypeOK, Exclusion
<1>7. CASE UNCHANGED vars
  BY <1>7, <1>0 DEF RInv, TypeOK, Exclusion, In, vars
<1>8. QED
  BY <1>1, <1>2, <1>3, <1>4, <1>5, <1>6, <1>7 DEF Next

\* Whatever the finite set of threads, a writer is alone in its section and the three
\* fields of the lock count the readers, the waiting writers and the writer.
THEOREM AlwaysExclusive ==
  ASSUME IsFiniteSet(Threads)
  PROVE  Spec => []Exclusion
<1>1. Init => RInv
  BY RInitially
<1>2. RInv /\ [Next]_vars => RInv'
  BY RStep
<1>3. RInv => Exclusion
  BY DEF RInv
<1>4. QED
  BY <1>1, <1>2, <1>3, PTL DEF Spec
=============================================================================
