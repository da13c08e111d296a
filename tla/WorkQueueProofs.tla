-------------------------- MODULE WorkQueueProofs --------------------------
(***************************************************************************)
(* The work queue of module WorkQueue loses no request and links no item   *)
(* twice, for any sets of workers and items.                               *)
(***************************************************************************)
EXTENDS WorkQueue, TLAPS

\* The inductive invariant.
WInv == TypeOK /\ RequestsKept

\* What queueing an item does to the queue.
LEMMA AppendItem ==
  ASSUME items \in Seq(Works), NEW w \in Works
  PROVE  /\ Append(items, w) \in Seq(Works)
         /\ DOMAIN items = 1 .. Len(items) /\ Len(items) \in Nat
         /\ DOMAIN Append(items, w) = 1 .. Len(items) + 1
         /\ \A i \in 1 .. Len(items) : Append(items, w)[i] = items[i]
         /\ Append(items, w)[Len(items) + 1] = w
  OBVIOUS

\* What taking off the first item does to it.
LEMMA TailItem ==
  ASSUME items \in Seq(Works), items # <<>>
  PROVE  /\ Tail(items) \in Seq(Works) /\ Head(items) \in Works
         /\ DOMAIN items = 1 .. Len(items) /\ Len(items) \in Nat \ {0}
         /\ Head(items) = items[1]
         /\ DOMAIN Tail(items) = 1 .. Len(items) - 1
         /\ \A i \in 1 .. Len(items) - 1 : Tail(items)[i] = items[i + 1]
  OBVIOUS

\* The initial state satisfies the invariant.
LEMMA WInitially == Init => WInv
<1> SUFFICES ASSUME Init PROVE WInv
  OBVIOUS
<1>1. items = <<>> /\ DOMAIN items = {} /\ items \in Seq(Works)
  BY DEF Init, workqueue_init
<1>2. pending \in [Works -> BOOLEAN] /\ \A w \in Works : pending[w] = FALSE
  BY DEF Init, workqueue_init
<1>3. TypeOK
  BY <1>1, <1>2 DEF Init, TypeOK
<1>4. QED
  BY <1>1, <1>2, <1>3 DEF Init, WInv, RequestsKept

\* Scheduling an item that is not pending queues it once.
LEMMA ScheduleKeeps ==
  ASSUME WInv, NEW w \in Works, workqueue_schedule(w)
  PROVE  WInv'
<1>0. TypeOK /\ RequestsKept
  BY DEF WInv
<1>1. requested' = requested \cup {w} /\ running' = running
  BY DEF workqueue_schedule
<1>2. CASE pending[w]
  <2>1. items' = items /\ pending' = pending
    BY <1>2 DEF workqueue_schedule
  <2>2. requested' = requested
    BY <1>0, <1>1, <1>2 DEF RequestsKept
  <2>3. QED
    BY <1>0, <1>1, <2>1, <2>2 DEF WInv, TypeOK, RequestsKept
<1>3. CASE ~pending[w]
  <2>1. pending' = [pending EXCEPT ![w] = TRUE] /\ items' = Append(items, w)
    BY <1>3 DEF workqueue_schedule
  <2>2. /\ items' \in Seq(Works)
        /\ DOMAIN items = 1 .. Len(items) /\ Len(items) \in Nat
        /\ DOMAIN items' = 1 .. Len(items) + 1
        /\ \A i \in 1 .. Len(items) : items'[i] = items[i]
        /\ items'[Len(items) + 1] = w
    BY <1>0, <2>1, AppendItem DEF TypeOK
  <2>3. /\ pending' \in [Works -> BOOLEAN]
        /\ \A v \in Works : pending'[v] = IF v = w THEN TRUE ELSE pending[v]
    BY <1>0, <2>1 DEF TypeOK
  <2>4. TypeOK'
    BY <1>0, <1>1, <2>2, <2>3 DEF TypeOK
  <2>5. w \notin requested /\ \A i \in DOMAIN items : items[i] # w
    BY <1>0, <1>3 DEF RequestsKept
  <2>6. \A v \in Works : v \in requested' <=> \E i \in DOMAIN items' : items'[i] = v
    <3>1. SUFFICES ASSUME NEW v \in Works
                   PROVE  v \in requested' <=> \E i \in DOMAIN items' : items'[i] = v
      OBVIOUS
    <3>2. CASE v = w
      BY <3>2, <1>1, <2>2
    <3>3. CASE v # w
      <4>1. v \in requested <=> \E i \in DOMAIN items : items[i] = v
        BY <1>0 DEF RequestsKept
      <4>2. (\E i \in DOMAIN items : items[i] = v) <=> \E i \in DOMAIN items' : items'[i] = v
        BY <2>2, <3>3
      <4>3. QED
        BY <4>1, <4>2, <3>3, <1>1
    <3>4. QED
      BY <3>2, <3>3
  <2>7. \A v \in Works : pending'[v] <=> v \in requested'
    BY <1>0, <1>1, <2>3 DEF RequestsKept
  <2>8. \A i, j \in DOMAIN items' : items'[i] = items'[j] => i = j
    BY <1>0, <2>2, <2>5 DEF RequestsKept
  <2>9. QED
    BY <2>4, <2>6, <2>7, <2>8 DEF WInv, RequestsKept
<1>4. QED
  BY <1>2, <1>3

\* The item a worker takes off is not queued a second time.
LEMMA ProcessKeeps ==
  ASSUME WInv, NEW t \in Workers, Process(t)
  PROVE  WInv'
<1>0. TypeOK /\ RequestsKept
  BY DEF WInv
<1> DEFINE h == Head(items)
<1>1. /\ items' = Tail(items) /\ items # <<>> /\ pending' = [pending EXCEPT ![h] = FALSE]
      /\ running' = [running EXCEPT ![t] = h] /\ requested' = requested \ {h}
  BY DEF Process
<1>2. /\ items' \in Seq(Works) /\ h \in Works
      /\ DOMAIN items = 1 .. Len(items) /\ Len(items) \in Nat \ {0}
      /\ h = items[1]
      /\ DOMAIN items' = 1 .. Len(items) - 1
      /\ \A i \in 1 .. Len(items) - 1 : items'[i] = items[i + 1]
  BY <1>0, <1>1, TailItem DEF TypeOK
<1> HIDE DEF h
<1>3. /\ pending' \in [Works -> BOOLEAN]
      /\ \A v \in Works : pending'[v] = IF v = h THEN FALSE ELSE pending[v]
  BY <1>0, <1>1, <1>2 DEF TypeOK
<1>4. TypeOK'
  BY <1>0, <1>1, <1>2, <1>3 DEF TypeOK
<1>5. \A i, j \in DOMAIN items : items[i] = items[j] => i = j
  BY <1>0 DEF RequestsKept
<1>6. \A i \in DOMAIN items' : items'[i] # h
  BY <1>2, <1>5
<1>7. \A v \in Works : v \in requested' <=> \E i \in DOMAIN items' : items'[i] = v
  <2>1. SUFFICES ASSUME NEW v \in Works
                 PROVE  v \in requested' <=> \E i \in DOMAIN items' : items'[i] = v
    OBVIOUS
  <2>2. CASE v = h
    BY <2>2, <1>1, <1>6
  <2>3. CASE v # h
    <3>1. v \in requested <=> \E i \in DOMAIN items : items[i] = v
      BY <1>0 DEF RequestsKept
    <3>2. ASSUME NEW i \in DOMAIN items, items[i] = v
          PROVE  \E j \in DOMAIN items' : items'[j] = v
      <4>1. i # 1 /\ i - 1 \in DOMAIN items' /\ items'[i - 1] = items[i]
        BY <1>2, <2>3, <3>2
      <4>2. QED
        BY <4>1, <3>2
    <3>3. ASSUME NEW j \in DOMAIN items', items'[j] = v
          PROVE  \E i \in DOMAIN items : items[i] = v
      <4>1. j + 1 \in DOMAIN items /\ items[j + 1] = v
        BY <1>2, <3>3
      <4>2. QED
        BY <4>1
    <3>4. QED
      BY <3>1, <3>2, <3>3, <2>3, <1>1
  <2>4. QED
    BY <2>2, <2>3
<1>8. \A v \in Works : pending'[v] <=> v \in requested'
  BY <1>0, <1>1, <1>3 DEF RequestsKept
<1>9. \A i, j \in DOMAIN items' : items'[i] = items'[j] => i = j
  <2>1. SUFFICES ASSUME NEW i \in DOMAIN items', NEW j \in DOMAIN items', items'[i] = items'[j]
                 PROVE  i = j
    OBVIOUS
  <2>2. /\ i \in Int /\ j \in Int /\ i + 1 \in DOMAIN items /\ j + 1 \in DOMAIN items
        /\ items'[i] = items[i + 1] /\ items'[j] = items[j + 1]
    BY <1>2
  <2>3. i + 1 = j + 1
    BY <2>1, <2>2, <1>5
  <2>4. QED
    BY <2>2, <2>3
<1>10. QED
  BY <1>4, <1>7, <1>8, <1>9 DEF WInv, RequestsKept

\* Every step keeps the invariant.
LEMMA WStep == WInv /\ [Next]_vars => WInv'
<1> SUFFICES ASSUME WInv, [Next]_vars PROVE WInv'
  OBVIOUS
<1>1. ASSUME NEW t \in Workers, Return(t) PROVE WInv'
  BY <1>1 DEF WInv, TypeOK, RequestsKept, Return
<1>2. CASE UNCHANGED vars
  BY <1>2 DEF vars, WInv, TypeOK, RequestsKept
<1>3. QED
  BY <1>1, <1>2, ScheduleKeeps, ProcessKeeps DEF Next

\* For any workers and items, an item scheduled since its function was last entered is
\* queued exactly once, also when it was scheduled while that function ran.
THEOREM RequestsAlwaysKept == Spec => []RequestsKept
<1>1. WInv => RequestsKept
  BY DEF WInv
<1>2. QED
  BY <1>1, WInitially, WStep, PTL DEF Spec
=============================================================================
