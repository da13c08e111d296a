---------------------------- MODULE MemPressure ----------------------------
(***************************************************************************)
(* The memory pressure monitor, kernel/mempressure.c.  The main loop of    *)
(* init calls mempressure_check; other threads allocate and free pages and *)
(* register callbacks meanwhile.  The two page counters are read one after *)
(* the other, and each callback is a step of its own.                      *)
(***************************************************************************)
EXTENDS Integers, FiniteSetsExt

CONSTANTS
  Total,                   \* pages the allocator manages
  Orders,                  \* sizes of the blocks allocated and freed
  MAX_PRESSURE_CALLBACKS,
  MEM_THRESHOLD_WARNING, MEM_THRESHOLD_CRITICAL

VARIABLES
  used_pages,       \* of the allocator; the others are free
  callback_count,
  last_level,
  told,             \* the level each callback was called with last, or NotTold
  pc,               \* where mempressure_check is
  seen              \* the levels there have been since it began

vars == <<used_pages, callback_count, last_level, told, pc, seen>>

Callbacks == 0 .. MAX_PRESSURE_CALLBACKS - 1
NORMAL == 0
WARNING == 1
CRITICAL == 2
NotTold == -1
Idle == [at |-> "idle", free_pg |-> 0, level |-> NORMAL, i |-> 0]

LevelOf(free_pg, total) ==
  LET free_pct == (free_pg * 100) \div total
  IN  IF free_pct < MEM_THRESHOLD_CRITICAL THEN CRITICAL
      ELSE IF free_pct < MEM_THRESHOLD_WARNING THEN WARNING
      ELSE NORMAL

Init ==
  /\ used_pages = 0 /\ callback_count = 0 /\ last_level = NORMAL
  /\ told = [i \in Callbacks |-> NotTold] /\ pc = Idle /\ seen = {}

\* pmm_alloc_pages and pmm_free_pages: n pages change hands.
Pages(n) ==
  /\ used_pages + n \in 0 .. Total
  /\ used_pages' = used_pages + n
  /\ seen' = IF pc = Idle THEN seen ELSE seen \cup {LevelOf(Total - used_pages', Total)}
  /\ UNCHANGED <<callback_count, last_level, told, pc>>

mempressure_register ==
  /\ callback_count < MAX_PRESSURE_CALLBACKS
  /\ callback_count' = callback_count + 1
  /\ UNCHANGED <<used_pages, last_level, told, pc, seen>>

ReadFree ==
  /\ pc = Idle
  /\ pc' = [Idle EXCEPT !.at = "free", !.free_pg = Total - used_pages]
  /\ seen' = {LevelOf(Total - used_pages, Total)}
  /\ UNCHANGED <<used_pages, callback_count, last_level, told>>

\* As if the second counter were taken for the number of pages.
ReadUsed_NoSum ==
  /\ pc.at = "free"
  /\ LET level == LevelOf(pc.free_pg, used_pages)
     IN  pc' = IF used_pages = 0 \/ level = last_level THEN Idle
               ELSE [at |-> "notify", free_pg |-> 0, level |-> level, i |-> 0]
  /\ seen' = IF pc' = Idle THEN {} ELSE seen
  /\ UNCHANGED <<used_pages, callback_count, last_level, told>>

\* The second counter, the level, and the tests for no pages and for a transition.
ReadUsed ==
  /\ pc.at = "free"
  /\ LET level == LevelOf(pc.free_pg, pc.free_pg + used_pages)
     IN  pc' = IF pc.free_pg + used_pages = 0 \/ level = last_level THEN Idle
               ELSE [at |-> "notify", free_pg |-> 0, level |-> level, i |-> 0]
  /\ seen' = IF pc' = Idle THEN {} ELSE seen
  /\ UNCHANGED <<used_pages, callback_count, last_level, told>>

Notify ==
  /\ pc.at = "notify" /\ pc.i < callback_count
  /\ told' = [told EXCEPT ![pc.i] = pc.level]
  /\ pc' = [pc EXCEPT !.i = @ + 1]
  /\ UNCHANGED <<used_pages, callback_count, last_level, seen>>

Finish ==
  /\ pc.at = "notify" /\ pc.i >= callback_count
  /\ last_level' = pc.level /\ pc' = Idle /\ seen' = {}
  /\ UNCHANGED <<used_pages, callback_count, told>>

Next ==
  \/ \E n \in Orders : Pages(n) \/ Pages(-n)
  \/ mempressure_register
  \/ ReadFree \/ ReadUsed \/ Notify \/ Finish

Spec == Init /\ [][Next]_vars

-----------------------------------------------------------------------------
\* Every variable has its type.
TypeOK ==
  /\ used_pages \in 0 .. Total /\ callback_count \in 0 .. MAX_PRESSURE_CALLBACKS
  /\ last_level \in NORMAL .. CRITICAL
  /\ told \in [Callbacks -> {NotTold} \cup (NORMAL .. CRITICAL)]
  /\ pc \in [at : {"idle", "free", "notify"}, free_pg : 0 .. Total, level : NORMAL .. CRITICAL,
             i : 0 .. MAX_PRESSURE_CALLBACKS]
  /\ seen \subseteq NORMAL .. CRITICAL

\* Between checks every callback that was ever called knows the level the monitor
\* acts on, callbacks registered during a check included.
CallbacksInStep ==
  pc.at # "notify" => \A i \in Callbacks : told[i] \in {NotTold, last_level}

\* "Only notify on level transitions": no callback hears the same level twice.
TellsNew == Notify => told[pc.i] # pc.level

\* Every call of a callback tells it a level it has not heard last.
OnlyTransitions == [][TellsNew]_vars

\* The counters are read one after the other while pages change hands, so their
\* sum may be wrong; the level is still none beyond those there really were.
LevelReal ==
  pc.at = "notify" => Min(seen) <= pc.level /\ pc.level <= Max(seen)
=============================================================================
