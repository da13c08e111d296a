-------------------------------- MODULE Pit --------------------------------
(***************************************************************************)
(* The programmable interval timer as kernel/pic.c drives it: the tickless *)
(* switch of the main loop (kernel/main.c), the timer interrupt, and the   *)
(* table of timer callbacks.                                               *)
(*                                                                         *)
(* The loop of init reprograms channel 0 with interrupts on, one port      *)
(* write at a time, so the timer interrupt and a switch to another thread  *)
(* fall between any two of the writes.  The interrupt handler itself runs  *)
(* with interrupts off and is one action.                                  *)
(***************************************************************************)
EXTENDS Integers

CONSTANTS
  MAX_TIMER_CALLBACKS,
  Intervals             \* intervals, in ticks, given to timer_register

VARIABLES
  channel0,          \* the counter: see Channel
  irq0,              \* the interrupt request latched by the PIC
  pit_oneshot_mode,
  running,           \* the thread on the CPU
  pc,                \* where init is in its loop
  timer_cbs,         \* filled slots of the table of callbacks
  timer_cb_count,
  filling            \* timer_register has filled its slot and not yet counted it

vars == <<channel0, irq0, pit_oneshot_mode, running, pc, timer_cbs, timer_cb_count,
          filling>>

Threads == {"init", "other"}

\* Rate generator; command or low byte written and the rest awaited; counting
\* once down to zero; and past zero, silent until it is programmed again.
Channel == {"periodic", "command", "low", "oneshot", "expired"}

\* The next thing init does: the test, the three port writes, the flag, the halt.
Points == {"test", "command", "low", "high", "flag", "halt"}

Cbs == 0 .. MAX_TIMER_CALLBACKS - 1
NoCb == [interval |-> 0, counter |-> 0, fn |-> FALSE]
Callback == [interval : Intervals \cup {0}, counter : Nat, fn : BOOLEAN]

Init ==
  /\ channel0 = "periodic" /\ irq0 = FALSE
  /\ pit_oneshot_mode = 0
  /\ running = "init" /\ pc = "test"
  /\ timer_cbs = [i \in Cbs |-> NoCb] /\ timer_cb_count = 0 /\ filling = FALSE

-----------------------------------------------------------------------------
(* The hardware.                                                           *)

Expire ==
  /\ channel0 = "oneshot" \/ (channel0 = "periodic" /\ ~irq0)
  /\ irq0' = TRUE
  /\ channel0' = IF channel0 = "oneshot" THEN "expired" ELSE channel0
  /\ UNCHANGED <<pit_oneshot_mode, running, pc, timer_cbs, timer_cb_count, filling>>

-----------------------------------------------------------------------------
(* pit_tick and the rest of the timer interrupt.  schedule() at its end     *)
(* leaves the CPU to either thread.                                        *)

Counted(cb) ==
  [cb EXCEPT !.counter = IF @ + 1 >= cb.interval THEN 0 ELSE @ + 1]

pit_tick ==
  /\ irq0 /\ irq0' = FALSE
  /\ IF pit_oneshot_mode # 0
     THEN channel0' = "periodic" /\ pit_oneshot_mode' = 0
     ELSE UNCHANGED <<channel0, pit_oneshot_mode>>
  /\ timer_cbs' = [i \in Cbs |->
       IF i < timer_cb_count THEN Counted(timer_cbs[i]) ELSE timer_cbs[i]]
  /\ running' \in Threads
  /\ pc' = IF running = "init" /\ pc = "halt" THEN "test" ELSE pc
  /\ UNCHANGED <<timer_cb_count, filling>>

\* Another interrupt (the keyboard) ends the halt too.
Keyboard ==
  /\ running = "init" /\ pc = "halt" /\ pc' = "test"
  /\ UNCHANGED <<channel0, irq0, pit_oneshot_mode, running, timer_cbs, timer_cb_count,
                 filling>>

-----------------------------------------------------------------------------
(* The loop of init.                                                       *)

\* init goes from one point of its loop to the next.
Step(from, to) ==
  /\ running = "init" /\ pc = from /\ pc' = to
  /\ UNCHANGED <<irq0, running, timer_cbs, timer_cb_count, filling>>

\* if (pit_is_tickless() == 0) pit_set_oneshot(...); cpu_idle()
TestTickless ==
  /\ Step("test", IF pit_oneshot_mode = 0 THEN "command" ELSE "halt")
  /\ UNCHANGED <<channel0, pit_oneshot_mode>>

\* As if the flag were raised before the counter is programmed.
pit_set_oneshot_FlagFirst ==
  \/ Step("command", "low") /\ channel0' = "command" /\ pit_oneshot_mode' = 1
  \/ Step("low", "high") /\ channel0' = "low" /\ UNCHANGED pit_oneshot_mode
  \/ Step("high", "flag") /\ channel0' = "oneshot" /\ UNCHANGED pit_oneshot_mode
  \/ Step("flag", "halt") /\ UNCHANGED <<channel0, pit_oneshot_mode>>

pit_set_oneshot ==
  \/ Step("command", "low") /\ channel0' = "command" /\ UNCHANGED pit_oneshot_mode
  \/ Step("low", "high") /\ channel0' = "low" /\ UNCHANGED pit_oneshot_mode
  \/ Step("high", "flag") /\ channel0' = "oneshot" /\ UNCHANGED pit_oneshot_mode
  \/ Step("flag", "halt") /\ pit_oneshot_mode' = 1 /\ UNCHANGED channel0

-----------------------------------------------------------------------------
(* The other thread.                                                       *)

Yield ==
  /\ running = "other" /\ running' = "init"
  /\ UNCHANGED <<channel0, irq0, pit_oneshot_mode, pc, timer_cbs, timer_cb_count,
                 filling>>

\* As if the room in the table were not tested.
timer_register_NoTest ==
  /\ running = "other"
  /\ \/ /\ ~filling
        /\ \E k \in Intervals : timer_cbs' = [i \in Cbs |->
             IF i = timer_cb_count THEN [interval |-> k, counter |-> 0, fn |-> TRUE]
             ELSE timer_cbs[i]]
        /\ filling' = TRUE /\ UNCHANGED timer_cb_count
     \/ /\ filling /\ filling' = FALSE
        /\ timer_cb_count' = timer_cb_count + 1
        /\ UNCHANGED timer_cbs
  /\ UNCHANGED <<channel0, irq0, pit_oneshot_mode, running, pc>>

\* timer_register fills a slot, then counts it; a full table returns -ENOSPC.
timer_register ==
  /\ running = "other"
  /\ \/ /\ ~filling /\ timer_cb_count < MAX_TIMER_CALLBACKS
        /\ \E k \in Intervals : timer_cbs' = [timer_cbs EXCEPT ![timer_cb_count] =
                                   [interval |-> k, counter |-> 0, fn |-> TRUE]]
        /\ filling' = TRUE /\ UNCHANGED timer_cb_count
     \/ /\ filling /\ filling' = FALSE
        /\ timer_cb_count' = timer_cb_count + 1
        /\ UNCHANGED timer_cbs
  /\ UNCHANGED <<channel0, irq0, pit_oneshot_mode, running, pc>>

-----------------------------------------------------------------------------
Next ==
  \/ Expire \/ pit_tick \/ Keyboard \/ TestTickless \/ pit_set_oneshot
  \/ Yield \/ timer_register

Spec == Init /\ [][Next]_vars

\* The counter counts, a latched interrupt is taken, and init goes on whenever
\* it has the CPU.  Nothing makes the other thread yield.
FairSpec ==
  /\ Spec
  /\ WF_vars(Expire) /\ WF_vars(pit_tick)
  /\ WF_vars(TestTickless) /\ WF_vars(pit_set_oneshot)

-----------------------------------------------------------------------------
\* Every variable has its type.
TypeOK ==
  /\ channel0 \in Channel /\ irq0 \in BOOLEAN
  /\ pit_oneshot_mode \in 0 .. 1
  /\ running \in Threads /\ pc \in Points
  /\ timer_cbs \in [Cbs -> Callback]
  /\ timer_cb_count \in 0 .. MAX_TIMER_CALLBACKS /\ filling \in BOOLEAN

\* Outside pit_set_oneshot the flag says what the counter does: periodic mode
\* exactly when it is 0, whatever interrupts came between the port writes.
FlagTruthful ==
  pc \in {"test", "halt"} => (pit_oneshot_mode = 0 <=> channel0 = "periodic")

\* The interrupt handler never reprograms the counter between two port writes of
\* pit_set_oneshot, which would take the rest of its bytes for a count.
Untorn == irq0 /\ ~irq0' /\ channel0' # channel0 => pc \notin {"low", "high", "flag"}

\* No timer interrupt tears the programming of the counter apart.
NoTornProgram == [][Untorn]_vars

\* pit_tick finds a function in every slot it counts, and no counter at or past
\* its interval, though registration is not locked against the interrupt.
CallbacksReady ==
  \A i \in Cbs : i < timer_cb_count =>
    /\ timer_cbs[i].fn
    /\ timer_cbs[i].counter = 0 \/ timer_cbs[i].counter < timer_cbs[i].interval

\* "If we were in one-shot/stopped mode, resume periodic": timer interrupts go
\* on for ever, though the loop of init keeps switching to one-shot mode.
TicksGoOn == []<>irq0
=============================================================================
