------------------------------- MODULE KTimer ------------------------------
(***************************************************************************)
(* The timer wheel of kernel/ktimer.c.  ktimer_tick runs in the timer      *)
(* interrupt with interrupts off; it releases timer_lock around each       *)
(* callback, and only the callback can change the wheel meanwhile: it may  *)
(* start and cancel timers.  Between ticks threads do so.                  *)
(*                                                                         *)
(* left[t] stands for expires - now while t is active, and is 0 otherwise; *)
(* `now` is kept modulo the wheel.                                         *)
(***************************************************************************)
EXTENDS IntrusiveLists, FiniteSets

CONSTANTS
  Timers, NoTimer,
  TIMER_WHEEL_SIZE,
  Delays,          \* milliseconds given to ktimer_start and ktimer_start_repeating
  CallbackOnSelf   \* may a callback start or cancel its own timer if that repeats

VARIABLES
  now,             \* pit_get_ticks() modulo TIMER_WHEEL_SIZE
  timer_wheel,     \* the slots, lists of timers
  left, interval, active,
  active_timers,
  walk             \* where ktimer_tick is: the phase, and the timers at pos and tmp

vars == <<now, timer_wheel, left, interval, active, active_timers, walk>>

WheelSlots == 0 .. TIMER_WHEEL_SIZE - 1
NoWalk == [phase |-> "none", pos |-> NoTimer, tmp |-> NoTimer]

ktimer_init_subsystem ==
  /\ timer_wheel = [s \in WheelSlots |-> <<>>] /\ active_timers = 0

Init ==
  /\ ktimer_init_subsystem
  /\ now = 0 /\ walk = NoWalk
  /\ left = [t \in Timers |-> 0] /\ interval = [t \in Timers |-> 0]
  /\ active = [t \in Timers |-> FALSE]

\* list_remove_node: the timer is unlinked where it is linked.
Unlinked(t) == [s \in WheelSlots |-> SelectSeq(timer_wheel[s], LAMBDA u : u # t)]

Slot(ticks) == (now + ticks) % TIMER_WHEEL_SIZE

\* timer_insert of t, to expire in that many ticks, into wheel w.
timer_insert(w, t, ticks) == list_push_back(w, Slot(ticks), t)

Ticks(ms) == IF ms \div 10 = 0 THEN 1 ELSE ms \div 10

\* ktimer_start and ktimer_start_repeating.
Start(t, ms, repeat) ==
  /\ timer_wheel' = timer_insert(IF active[t] THEN Unlinked(t) ELSE timer_wheel, t, Ticks(ms))
  /\ left' = [left EXCEPT ![t] = Ticks(ms)]
  /\ interval' = [interval EXCEPT ![t] = IF repeat THEN Ticks(ms) ELSE 0]
  /\ active' = [active EXCEPT ![t] = TRUE]
  /\ active_timers' = IF active[t] THEN active_timers ELSE active_timers + 1

ktimer_start(t, ms) == Start(t, ms, FALSE)
ktimer_start_repeating(t, ms) == Start(t, ms, TRUE)

ktimer_cancel(t) ==
  /\ IF active[t]
     THEN /\ timer_wheel' = Unlinked(t)
          /\ active' = [active EXCEPT ![t] = FALSE]
          /\ active_timers' = active_timers - 1
          /\ left' = [left EXCEPT ![t] = 0]
     ELSE UNCHANGED <<timer_wheel, active, active_timers, left>>
  /\ UNCHANGED interval

Operation(t) ==
  \/ \E ms \in Delays : ktimer_start(t, ms) \/ ktimer_start_repeating(t, ms)
  \/ ktimer_cancel(t)

-----------------------------------------------------------------------------
(* ktimer_tick.                                                            *)

\* The timer linked after t in its slot, or none.
After(w, t) ==
  LET s == CHOOSE r \in WheelSlots : t \in Nodes(w, r)
      i == CHOOSE k \in 1 .. Len(w[s]) : w[s][k] = t
  IN  IF i < Len(w[s]) THEN w[s][i + 1] ELSE NoTimer

\* The tick begins: pit_tick counts it, and the walk starts at the first timer of
\* the slot.  Nothing is done for an empty slot.
Tick ==
  /\ walk = NoWalk
  /\ now' = (now + 1) % TIMER_WHEEL_SIZE
  /\ left' = [t \in Timers |-> IF active[t] THEN left[t] - 1 ELSE left[t]]
  /\ walk' = IF timer_wheel[now'] = <<>> THEN NoWalk
             ELSE LET t == Head(timer_wheel[now'])
                  IN  [phase |-> "visit", pos |-> t, tmp |-> After(timer_wheel, t)]
  /\ UNCHANGED <<timer_wheel, interval, active, active_timers>>

\* On to the timer at tmp, in wheel w.
Advance(w) ==
  walk' = IF walk.tmp = NoTimer THEN NoWalk
          ELSE [phase |-> "visit", pos |-> walk.tmp, tmp |-> After(w, walk.tmp)]

\* As if a timer went off only when its tick has passed.
Visit_Late ==
  /\ walk.phase = "visit"
  /\ IF left[walk.pos] < 0
     THEN /\ timer_wheel' = Unlinked(walk.pos)
          /\ active' = [active EXCEPT ![walk.pos] = FALSE]
          /\ active_timers' = active_timers - 1
          /\ walk' = [walk EXCEPT !.phase = "callback"]
     ELSE Advance(timer_wheel) /\ UNCHANGED <<timer_wheel, active, active_timers>>
  /\ UNCHANGED <<now, left, interval>>

Visit ==
  /\ walk.phase = "visit"
  /\ IF left[walk.pos] <= 0
     THEN /\ timer_wheel' = Unlinked(walk.pos)
          /\ active' = [active EXCEPT ![walk.pos] = FALSE]
          /\ active_timers' = active_timers - 1
          /\ walk' = [walk EXCEPT !.phase = "callback"]
     ELSE Advance(timer_wheel) /\ UNCHANGED <<timer_wheel, active, active_timers>>
  /\ UNCHANGED <<now, left, interval>>

\* The callback does one thing with a timer, or nothing.  It leaves alone the timer
\* at tmp, which the walk already points at.
Callback ==
  /\ walk.phase = "callback"
  /\ \/ UNCHANGED <<timer_wheel, left, interval, active, active_timers>>
     \/ \E t \in Timers \ {walk.tmp} :
          /\ Operation(t)
          /\ t = walk.pos => CallbackOnSelf \/ (interval[t] = 0 /\ interval'[t] = 0)
  /\ walk' = [walk EXCEPT !.phase = "rearm"]
  /\ UNCHANGED now

\* The interval is read after the callback; a one-shot timer is not linked again.
Rearm ==
  /\ walk.phase = "rearm"
  /\ LET t == walk.pos
     IN  IF interval[t] > 0
         THEN LET w == timer_insert(timer_wheel, t, interval[t])
              IN  /\ timer_wheel' = w /\ Advance(w)
                  /\ left' = [left EXCEPT ![t] = interval[t]]
                  /\ active' = [active EXCEPT ![t] = TRUE]
                  /\ active_timers' = active_timers + 1
         ELSE /\ Advance(timer_wheel)
              /\ UNCHANGED <<timer_wheel, left, active, active_timers>>
  /\ UNCHANGED <<now, interval>>

Next ==
  \/ walk = NoWalk /\ (\E t \in Timers : Operation(t)) /\ UNCHANGED <<now, walk>>
  \/ Tick \/ Visit \/ Callback \/ Rearm

Spec == Init /\ [][Next]_vars

-----------------------------------------------------------------------------
\* Every variable has its type.
TypeOK ==
  /\ now \in WheelSlots /\ timer_wheel \in [WheelSlots -> Seq(Timers)]
  /\ left \in [Timers -> Int] /\ interval \in [Timers -> Nat]
  /\ active \in [Timers -> BOOLEAN] /\ active_timers \in 0 .. Cardinality(Timers)

\* A timer is linked exactly while it is active, once, in the slot of the tick it
\* expires at; and active_timers counts them, callbacks that start and cancel timers
\* in the middle of the walk included.
WheelExact ==
  /\ LinkedOnce(timer_wheel)
  /\ \A t \in Timers : active[t] <=> \E s \in WheelSlots : t \in Nodes(timer_wheel, s)
  /\ \A s \in WheelSlots : \A t \in Nodes(timer_wheel, s) : s = Slot(left[t])
  /\ active_timers = Cardinality({t \in Timers : active[t]})

\* When the interrupt handler is done no timer is overdue: each goes off on its tick,
\* whatever its delay is in turns of the wheel, and not one turn later.
OnTime == walk = NoWalk => \A t \in Timers : active[t] => left[t] > 0

\* A timer goes off on its own tick only, not when the wheel passes its slot before.
FiresDue == walk.phase = "visit" /\ walk'.phase = "callback" => left[walk.pos] = 0

\* No step fires a timer before its tick.
NotEarly == [][FiresDue]_vars
=============================================================================
