----------------------------- MODULE PitProofs -----------------------------
(***************************************************************************)
(* The timer of module Pit for any table size and any intervals: the flag  *)
(* tells the truth outside the switch, no interrupt tears the switch, and  *)
(* the interrupt never meets a slot that is counted and not filled.        *)
(***************************************************************************)
EXTENDS Pit, TLAPS

\* What the code relies on: a table with room for a number of callbacks, and intervals
\* that are numbers of ticks.
Sizes == MAX_TIMER_CALLBACKS \in Nat /\ Intervals \subseteq Nat

\* Inside the switch the flag is still down, and the counter is in the mode of the last
\* port write but for a single shot that has gone off.
Switching ==
  /\ pc \in {"command", "low", "high", "flag"} => pit_oneshot_mode = 0
  /\ pc = "command" => channel0 = "periodic"
  /\ pc = "flag" => channel0 \in {"oneshot", "expired"}

\* The slot timer_register has filled is there and is the next to be counted.
Filling ==
  filling => timer_cb_count < MAX_TIMER_CALLBACKS /\ timer_cbs[timer_cb_count].fn
                                                  /\ timer_cbs[timer_cb_count].counter = 0

\* The inductive invariant.
PInv == TypeOK /\ FlagTruthful /\ Switching /\ CallbacksReady /\ Filling

\* What pit_tick counts stays a callback below its interval.
LEMMA CountedBelow ==
  ASSUME Intervals \subseteq Nat, NEW cb \in Callback
  PROVE  /\ Counted(cb) \in Callback
         /\ Counted(cb).fn = cb.fn
         /\ Counted(cb).counter = 0 \/ Counted(cb).counter < Counted(cb).interval
BY DEF Counted, Callback

\* Start-up establishes the invariant.
LEMMA PInitially == Sizes /\ Init => PInv
<1> SUFFICES ASSUME Sizes, Init PROVE PInv
  OBVIOUS
<1>1. NoCb \in Callback
  BY DEF NoCb, Callback
<1>2. timer_cbs \in [Cbs -> Callback]
  BY <1>1 DEF Init
<1>3. TypeOK
  <2>1. pit_oneshot_mode \in 0 .. 1 /\ timer_cb_count \in 0 .. MAX_TIMER_CALLBACKS
    BY DEF Sizes, Init
  <2>2. /\ channel0 \in Channel /\ running \in Threads /\ pc \in Points
        /\ irq0 \in BOOLEAN /\ filling \in BOOLEAN
    BY Zenon DEF Init, Channel, Threads, Points
  <2>3. QED
    BY <1>2, <2>1, <2>2 DEF TypeOK
<1>4. FlagTruthful /\ Switching /\ Filling
  BY DEF Init, FlagTruthful, Switching, Filling
<1>5. CallbacksReady
  BY DEF Sizes, Init, CallbacksReady, Cbs
<1>6. QED
  BY <1>3, <1>4, <1>5 DEF PInv

\* The interrupt keeps the invariant.
LEMMA TickKeeps == Sizes /\ PInv /\ pit_tick => PInv'
<1> SUFFICES ASSUME Sizes, PInv, pit_tick PROVE PInv'
  OBVIOUS
<1> USE DEF Sizes, PInv, pit_tick
<1>1. \A i \in Cbs : /\ timer_cbs'[i] \in Callback
                     /\ timer_cbs'[i].fn = timer_cbs[i].fn
                     /\ i < timer_cb_count =>
                          timer_cbs'[i].counter = 0 \/ timer_cbs'[i].counter < timer_cbs'[i].interval
                     /\ ~(i < timer_cb_count) => timer_cbs'[i] = timer_cbs[i]
  <2> TAKE i \in Cbs
  <2>1. timer_cbs[i] \in Callback
    BY DEF TypeOK
  <2>2. timer_cbs'[i] = IF i < timer_cb_count THEN Counted(timer_cbs[i]) ELSE timer_cbs[i]
    OBVIOUS
  <2>3. QED
    BY <2>1, <2>2, CountedBelow
<1>2. timer_cbs' \in [Cbs -> Callback]
  BY <1>1
<1>3. TypeOK'
  <2>1. pit_oneshot_mode' \in 0 .. 1 /\ timer_cb_count' \in 0 .. MAX_TIMER_CALLBACKS
    BY DEF TypeOK
  <2>2. /\ channel0' \in Channel /\ running' \in Threads /\ pc' \in Points
        /\ irq0' \in BOOLEAN /\ filling' \in BOOLEAN
    BY DEF TypeOK, Channel, Points
  <2>3. QED
    BY <1>2, <2>1, <2>2 DEF TypeOK
<1>4. FlagTruthful' /\ Switching'
  <2>1. CASE pit_oneshot_mode = 0
    BY <2>1 DEF FlagTruthful, Switching
  <2>2. CASE pit_oneshot_mode # 0
    BY <2>2 DEF TypeOK, FlagTruthful, Switching, Points
  <2>3. QED
    BY <2>1, <2>2
<1>5. CallbacksReady'
  BY <1>1 DEF TypeOK, CallbacksReady
<1>6. Filling'
  <2> SUFFICES ASSUME filling
               PROVE  /\ timer_cb_count < MAX_TIMER_CALLBACKS
                      /\ timer_cbs'[timer_cb_count].fn /\ timer_cbs'[timer_cb_count].counter = 0
    BY DEF Filling
  <2>1. timer_cb_count \in Cbs /\ ~(timer_cb_count < timer_cb_count)
    BY DEF Filling, TypeOK, Cbs
  <2>2. QED
    BY <1>1, <2>1 DEF Filling
<1>7. QED
  BY <1>3, <1>4, <1>5, <1>6

\* Registration keeps the invariant: the slot it fills is not yet counted.
LEMMA RegisterKeeps == Sizes /\ PInv /\ timer_register => PInv'
<1> SUFFICES ASSUME Sizes, PInv, timer_register PROVE PInv'
  OBVIOUS
<1> USE DEF Sizes, PInv
<1>1. FlagTruthful' /\ Switching'
  BY DEF FlagTruthful, Switching, timer_register
<1>2. CASE ~filling
  <2>1. PICK k \in Intervals : timer_cbs' = [timer_cbs EXCEPT ![timer_cb_count] =
                                   [interval |-> k, counter |-> 0, fn |-> TRUE]]
    BY <1>2 DEF timer_register
  <2>2. timer_cb_count < MAX_TIMER_CALLBACKS /\ timer_cb_count' = timer_cb_count /\ filling'
    BY <1>2 DEF timer_register
  <2>3. timer_cb_count \in Cbs /\ [interval |-> k, counter |-> 0, fn |-> TRUE] \in Callback
    BY <2>2 DEF TypeOK, Cbs, Callback
  <2>4. timer_cbs' \in [Cbs -> Callback]
    BY <2>1, <2>3 DEF TypeOK
  <2>5. TypeOK'
    BY <2>2, <2>4 DEF TypeOK, timer_register
  <2>6. CallbacksReady'
    BY <2>1, <2>2, <2>3 DEF TypeOK, CallbacksReady, Cbs
  <2>7. Filling'
    BY <2>1, <2>2, <2>3 DEF Filling, TypeOK
  <2>8. QED
    BY <1>1, <2>5, <2>6, <2>7
<1>3. CASE filling
  <2>1. timer_cbs' = timer_cbs /\ timer_cb_count' = timer_cb_count + 1 /\ filling' = FALSE
    BY <1>3 DEF timer_register
  <2>2. TypeOK'
    <3>1. timer_cb_count' \in 0 .. MAX_TIMER_CALLBACKS
      BY <1>3, <2>1 DEF TypeOK, Filling
    <3>2. QED
      BY <2>1, <3>1 DEF TypeOK, timer_register
  <2>3. CallbacksReady'
    BY <1>3, <2>1 DEF TypeOK, CallbacksReady, Filling, Cbs
  <2>4. QED
    BY <1>1, <2>1, <2>2, <2>3 DEF Filling
<1>4. QED
  BY <1>2, <1>3

\* Every step keeps the invariant.
LEMMA PStep == Sizes /\ PInv /\ [Next]_vars => PInv'
<1> SUFFICES ASSUME Sizes, PInv, [Next]_vars PROVE PInv'
  OBVIOUS
<1>1. CASE Expire
  BY <1>1 DEF Expire, PInv, TypeOK, FlagTruthful, Switching, CallbacksReady, Filling, Channel
<1>2. CASE pit_tick
  BY <1>2, TickKeeps
<1>3. CASE Keyboard
  BY <1>3 DEF Keyboard, PInv, TypeOK, FlagTruthful, Switching, CallbacksReady, Filling, Points
<1>4. CASE TestTickless
  BY <1>4 DEF TestTickless, Step, PInv, TypeOK, FlagTruthful, Switching, CallbacksReady,
              Filling, Points
<1>5. CASE pit_set_oneshot
  BY <1>5 DEF pit_set_oneshot, Step, PInv, TypeOK, FlagTruthful, Switching, CallbacksReady,
              Filling, Points, Channel
<1>6. CASE Yield
  BY <1>6 DEF Yield, PInv, TypeOK, FlagTruthful, Switching, CallbacksReady, Filling, Threads
<1>7. CASE timer_register
  BY <1>7, RegisterKeeps
<1>8. CASE UNCHANGED vars
  BY <1>8 DEF vars, PInv, TypeOK, FlagTruthful, Switching, CallbacksReady, Filling
<1>9. QED
  BY <1>1, <1>2, <1>3, <1>4, <1>5, <1>6, <1>7, <1>8 DEF Next

\* The invariant holds throughout.
THEOREM PitInvariance == ASSUME Sizes PROVE Spec => []PInv
<1>1. Init => PInv
  BY PInitially
<1>2. PInv /\ [Next]_vars => PInv'
  BY PStep
<1>3. QED
  BY <1>1, <1>2, PTL DEF Spec

\* Outside pit_set_oneshot the flag says what the counter does, for any interleaving of
\* interrupts, switches and port writes.
THEOREM FlagAlwaysTruthful == ASSUME Sizes PROVE Spec => []FlagTruthful
<1>1. PInv => FlagTruthful
  BY DEF PInv
<1>2. QED
  BY <1>1, PitInvariance, PTL

\* pit_tick never meets a slot of the table that is counted and not filled, whatever
\* the size of the table and the intervals.
THEOREM CallbacksAlwaysReady == ASSUME Sizes PROVE Spec => []CallbacksReady
<1>1. PInv => CallbacksReady
  BY DEF PInv
<1>2. QED
  BY <1>1, PitInvariance, PTL

\* No timer interrupt reprograms the counter between two port writes of pit_set_oneshot.
THEOREM ProgramNeverTorn == ASSUME Sizes PROVE Spec => NoTornProgram
<1>1. PInv /\ [Next]_vars => [Untorn]_vars
  <2> SUFFICES ASSUME PInv, Next PROVE Untorn
    BY DEF vars, Untorn
  <2>1. CASE pit_tick
    BY <2>1 DEF pit_tick, PInv, Switching, Untorn
  <2>2. CASE Expire \/ Keyboard \/ TestTickless \/ pit_set_oneshot \/ Yield \/ timer_register
    BY <2>2 DEF Expire, Keyboard, TestTickless, pit_set_oneshot, Step, Yield, timer_register,
                Untorn, PInv, TypeOK
  <2>3. QED
    BY <2>1, <2>2 DEF Next
<1>2. QED
  BY <1>1, PitInvariance, PTL DEF Spec, NoTornProgram
=============================================================================
