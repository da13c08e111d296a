------------------------------- MODULE Lapic -------------------------------
(***************************************************************************)
(* The local APIC timer of kernel/lapic.c: its calibration against channel *)
(* 2 of the PIT, start, stop and interrupt.  Interrupts are on all the     *)
(* time, so counting goes on between any two steps of the code.            *)
(***************************************************************************)
EXTENDS Integers

CONSTANTS
  Rates,             \* counts in the 10 ms of the calibration, on this machine
  Frequencies,       \* arguments of lapic_timer_init
  PER_SEC,           \* calibrations in a second: 100
  WORD,              \* 2^32
  PIT_TIMEOUT,       \* reads before the calibration gives up
  FALLBACK,          \* counts assumed then
  MaxDelay           \* bound on the counts that pass before the code goes on

VARIABLES
  rate, pit_works,   \* of this machine
  tpr, svr, lint0, timer_lvt, initial, current,   \* registers
  irr, isr,          \* timer interrupt requested, in service
  pc, pit_timeout, pit,
  lapic_enabled, lapic_ticks_per_sec, lapic_timer_ticks,
  late               \* ticks since lapic_timer_stop, -1 unless stopped

machine == <<rate, pit_works>>
regs == <<tpr, svr, lint0, timer_lvt, initial>>
code == <<pc, pit_timeout, lapic_enabled, lapic_ticks_per_sec>>
vars == <<machine, regs, current, irr, isr, code, pit, lapic_timer_ticks, late>>

Init ==
  /\ rate \in Rates /\ pit_works \in BOOLEAN
  /\ tpr = "any" /\ svr = FALSE /\ lint0 = "extint" /\ timer_lvt = "masked"
  /\ initial = 0 /\ current = 0 /\ irr = FALSE /\ isr = FALSE
  /\ pc = "init" /\ pit_timeout = 0 /\ pit = 0
  /\ lapic_enabled = FALSE /\ lapic_ticks_per_sec = 0 /\ lapic_timer_ticks = 0
  /\ late = -1

-----------------------------------------------------------------------------
(* The hardware: one count, with a reload and a request at zero.  Channel 2 *)
(* counts the 10 ms of the calibration in the same unit.                   *)

Calibrating == pc \in {"gate", "poll", "read"}

Count ==
  /\ current > 0 \/ pc = "gate"
  /\ Calibrating => pit < MaxDelay + (IF pc = "gate" THEN 0 ELSE rate)
  /\ pit' = IF Calibrating THEN pit + 1 ELSE pit
  /\ current' = IF current > 1 THEN current - 1
                ELSE IF timer_lvt = "periodic" THEN initial ELSE 0
  /\ irr' = (irr \/ (current = 1 /\ timer_lvt = "periodic"))
  /\ UNCHANGED <<machine, regs, isr, code, lapic_timer_ticks, late>>

\* Output of channel 2.
PitDone == pit_works /\ pit >= rate

-----------------------------------------------------------------------------
(* lapic_init.                                                             *)

\* Up to the calibration, and its beginning: the gate of channel 2 is opened.
lapic_init ==
  /\ pc = "init" /\ pc' = "gate"
  /\ tpr' = "all" /\ svr' = TRUE /\ lint0' = "masked" /\ timer_lvt' = "masked"
  /\ pit' = 0
  /\ UNCHANGED <<machine, initial, current, irr, isr, pit_timeout, lapic_enabled,
                 lapic_ticks_per_sec, lapic_timer_ticks, late>>

\* The timer starts from the full count.
StartCount ==
  /\ pc = "gate" /\ pc' = "poll"
  /\ initial' = WORD - 1 /\ current' = WORD - 1 /\ pit_timeout' = PIT_TIMEOUT
  /\ UNCHANGED <<machine, tpr, svr, lint0, timer_lvt, irr, isr, pit, lapic_enabled,
                 lapic_ticks_per_sec, lapic_timer_ticks, late>>

\* while (!(inb(0x61) & 0x20) && --pit_timeout > 0)
PollPit ==
  /\ pc = "poll"
  /\ IF PitDone THEN pc' = "read" /\ UNCHANGED pit_timeout
     ELSE pit_timeout' = pit_timeout - 1 /\ pc' = IF pit_timeout > 1 THEN "poll" ELSE "read"
  /\ UNCHANGED <<machine, regs, current, irr, isr, pit, lapic_enabled,
                 lapic_ticks_per_sec, lapic_timer_ticks, late>>

\* The counts gone by, or the fallback; scaled to a second in 32 bits.
Measured == IF pit_timeout = 0 THEN FALLBACK ELSE (WORD - 1) - current

lapic_calibrate_timer ==
  /\ pc = "read" /\ pc' = "ready"
  /\ lapic_ticks_per_sec' = (Measured * PER_SEC) % WORD
  /\ lapic_enabled' = TRUE
  /\ UNCHANGED <<machine, regs, current, irr, isr, pit_timeout, pit,
                 lapic_timer_ticks, late>>

-----------------------------------------------------------------------------
(* The timer.                                                              *)

lapic_timer_init(f) ==
  /\ pc = "ready" /\ lapic_enabled /\ lapic_ticks_per_sec # 0
  /\ lapic_ticks_per_sec \div f # 0
  /\ timer_lvt' = "periodic"
  /\ initial' = lapic_ticks_per_sec \div f /\ current' = initial'
  /\ late' = -1
  /\ UNCHANGED <<machine, tpr, svr, lint0, irr, isr, code, pit, lapic_timer_ticks>>

\* A request already made stays.
lapic_timer_stop ==
  /\ pc = "ready"
  /\ timer_lvt' = "masked" /\ initial' = 0 /\ current' = 0
  /\ late' = 0
  /\ UNCHANGED <<machine, tpr, svr, lint0, irr, isr, code, pit, lapic_timer_ticks>>

Deliver ==
  /\ irr /\ ~isr /\ irr' = FALSE /\ isr' = TRUE
  /\ UNCHANGED <<machine, regs, current, code, pit, lapic_timer_ticks, late>>

\* The ticks are counted modulo 2: nothing reads more of them here.
lapic_timer_handler_c ==
  /\ isr
  /\ lapic_timer_ticks' = (lapic_timer_ticks + 1) % 2
  /\ isr' = FALSE
  /\ late' = IF late >= 0 THEN late + 1 ELSE late
  /\ UNCHANGED <<machine, regs, current, irr, code, pit>>

Next ==
  \/ Count \/ lapic_init \/ StartCount \/ PollPit \/ lapic_calibrate_timer
  \/ \E f \in Frequencies : lapic_timer_init(f)
  \/ lapic_timer_stop \/ Deliver \/ lapic_timer_handler_c

Spec == Init /\ [][Next]_vars

-----------------------------------------------------------------------------
\* Unless channel 2 is silent, the rate is wrong by no more than what passes between
\* the two starts and between the end of the 10 ms and the reading; and a timer that
\* runs has a count, though the rate may be too low for the frequency.
RateMeasured ==
  /\ pc = "ready" /\ pit_timeout > 0 =>
       /\ lapic_ticks_per_sec >= (rate - MaxDelay) * PER_SEC
       /\ lapic_ticks_per_sec <= (rate + MaxDelay) * PER_SEC
  /\ timer_lvt = "periodic" => initial > 0

\* After lapic_timer_stop come at most the interrupt in service and the one already
\* requested.
StopsSoon == late <= 2
=============================================================================
