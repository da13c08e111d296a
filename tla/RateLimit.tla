----------------------------- MODULE RateLimit -----------------------------
(***************************************************************************)
(* The rate limiter of kernel/kprintf.c.  Ticks go by and callers ask      *)
(* whether they may print.                                                 *)
(***************************************************************************)
EXTENDS Integers, Sequences, FiniteSetsExt

CONSTANTS
  interval_ticks, burst,
  MaxTick, MaxAsked     \* bounds on the time and on the number of calls

VARIABLES
  now, count, last_tick,
  asked,                \* the ticks of all calls, and whether each was allowed
  reported              \* messages reported as suppressed

vars == <<now, count, last_tick, asked, reported>>

Init ==
  /\ now = 0
  /\ count = 0 /\ last_tick = 0
  /\ asked = <<>> /\ reported = 0

\* pit_tick
Tick ==
  /\ now < MaxTick /\ now' = now + 1
  /\ UNCHANGED <<count, last_tick, asked, reported>>

NewWindow == now - last_tick >= interval_ticks

kprintf_rl_allow ==
  /\ Len(asked) < MaxAsked
  /\ LET c == IF NewWindow THEN 0 ELSE count IN
       /\ last_tick' = IF NewWindow THEN now ELSE last_tick
       /\ reported' = IF NewWindow /\ count > burst THEN reported + count - burst
                      ELSE reported
       /\ count' = c + 1
       /\ asked' = Append(asked, [at |-> now, allowed |-> c + 1 <= burst])
  /\ UNCHANGED now

Next == Tick \/ kprintf_rl_allow

Spec == Init /\ [][Next]_vars

-----------------------------------------------------------------------------
Allowed(from, to) == {i \in DOMAIN asked : asked[i].allowed /\ asked[i].at \in from .. to}
Refused == {i \in DOMAIN asked : ~asked[i].allowed}

\* Any stretch of interval_ticks meets at most two windows: no more than twice the
\* burst gets through in it, whenever the calls come and however long a silence was.
RateBounded ==
  \A t \in 0 .. now : Cardinality(Allowed(t, t + interval_ticks - 1)) <= 2 * burst

\* The messages refused are the ones reported so far and those of the last window,
\* which its successor will report.
NoneForgotten ==
  Cardinality(Refused) = reported + Max({count - burst, 0})
=============================================================================
