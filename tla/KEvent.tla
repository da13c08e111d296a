------------------------------ MODULE KEvent -------------------------------
(***************************************************************************)
(* The event object of kernel/kevent.h.  kevent_wait tests the flag under  *)
(* the event's lock, unlocks, and links itself in wq_wait: another thread  *)
(* may run in between.                                                     *)
(***************************************************************************)
EXTENDS Integers, Sequences

CONSTANTS
  Threads,
  MaxSignals    \* bound on calls of kevent_signal, for exploration

VARIABLES
  type, signaled, waiters,
  pc,         \* "out", at the "test" of the flag, about to "park", or "asleep"
  signals,    \* calls of kevent_signal
  returns     \* returns of kevent_wait from an automatic event

vars == <<type, signaled, waiters, pc, signals, returns>>

AUTO_RESET == "auto"
MANUAL_RESET == "manual"

kevent_init ==
  /\ signaled = 0 /\ type \in {AUTO_RESET, MANUAL_RESET} /\ waiters = <<>>

Init == kevent_init /\ pc = [t \in Threads |-> "out"] /\ signals = 0 /\ returns = 0

\* wq_wake_one or wq_wake_all: those woken go back to the test.
kevent_signal(t) ==
  /\ pc[t] = "out" /\ signals < MaxSignals
  /\ signaled' = 1
  /\ IF waiters = <<>> THEN UNCHANGED <<waiters, pc>>
     ELSE IF type = AUTO_RESET
     THEN waiters' = Tail(waiters) /\ pc' = [pc EXCEPT ![Head(waiters)] = "test"]
     ELSE /\ waiters' = <<>>
          /\ pc' = [s \in Threads |-> IF pc[s] = "asleep" THEN "test" ELSE pc[s]]
  /\ signals' = signals + 1
  /\ UNCHANGED <<type, returns>>

CallWait(t) ==
  /\ pc[t] = "out" /\ pc' = [pc EXCEPT ![t] = "test"]
  /\ UNCHANGED <<type, signaled, waiters, signals, returns>>

\* As if a return left the flag as it is.
kevent_wait_NoClear(t) ==
  /\ pc[t] = "test"
  /\ IF signaled = 0
     THEN pc' = [pc EXCEPT ![t] = "park"] /\ UNCHANGED <<signaled, returns>>
     ELSE /\ pc' = [pc EXCEPT ![t] = "out"] /\ UNCHANGED signaled
          /\ returns' = IF type = AUTO_RESET THEN returns + 1 ELSE returns
  /\ UNCHANGED <<type, waiters, signals>>

kevent_wait(t) ==
  /\ pc[t] = "test"
  /\ IF signaled = 0
     THEN pc' = [pc EXCEPT ![t] = "park"] /\ UNCHANGED <<signaled, returns>>
     ELSE /\ pc' = [pc EXCEPT ![t] = "out"]
          /\ IF type = AUTO_RESET THEN signaled' = 0 /\ returns' = returns + 1
             ELSE UNCHANGED <<signaled, returns>>
  /\ UNCHANGED <<type, waiters, signals>>

wq_wait(t) ==
  /\ pc[t] = "park"
  /\ waiters' = Append(waiters, t) /\ pc' = [pc EXCEPT ![t] = "asleep"]
  /\ UNCHANGED <<type, signaled, signals, returns>>

kevent_reset(t) ==
  /\ pc[t] = "out" /\ signaled' = 0
  /\ UNCHANGED <<type, waiters, pc, signals, returns>>

Next == \E t \in Threads :
  kevent_signal(t) \/ CallWait(t) \/ kevent_wait(t) \/ wq_wait(t) \/ kevent_reset(t)

Spec == Init /\ [][Next]_vars

-----------------------------------------------------------------------------
\* Every variable has its type.
TypeOK ==
  /\ type \in {AUTO_RESET, MANUAL_RESET} /\ signaled \in {0, 1}
  /\ waiters \in Seq(Threads) /\ pc \in [Threads -> {"out", "test", "park", "asleep"}]
  /\ signals \in 0 .. MaxSignals /\ returns \in Nat

\* "Auto-clears after waking one": a signal of an automatic event lets one call of
\* kevent_wait return at most, the flag's being set counting as one still to come.
OneReturnPerSignal == type = AUTO_RESET => returns + signaled <= signals

\* "Thread B: kevent_signal(&evt); // wakes A": nobody sleeps on a manual event that
\* is signalled.
SignalWakes == type = MANUAL_RESET /\ signaled = 1 => waiters = <<>>
=============================================================================
