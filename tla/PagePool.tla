------------------------------ MODULE PagePool ------------------------------
(***************************************************************************)
(* What the physical memory manager promises: a pool of pages from which a *)
(* caller takes a free, naturally aligned run of 2^order pages, and to     *)
(* which it gives the same run back.  Which run it gets is left open.      *)
(***************************************************************************)
EXTENDS Integers

CONSTANT MaxOrder

VARIABLES
  free,   \* the free pages
  held    \* the runs given out, as <<first page, order>>

Run(p, o) == p .. p + 2^o - 1
FreeRuns(o) == {p \in free : p % 2^o = 0 /\ Run(p, o) \subseteq free}

Alloc(o) == \E p \in FreeRuns(o) :
              held' = held \cup {<<p, o>>} /\ free' = free \ Run(p, o)

Free(b) == held' = held \ {b} /\ free' = free \cup Run(b[1], b[2])

\* At boot, pages nobody holds join the pool.
Feed == held' = held /\ free \subseteq free'
          /\ \A b \in held : Run(b[1], b[2]) \cap free' = {}

Init == free = {} /\ held = {}
Next == Feed \/ (\E o \in 0 .. MaxOrder : Alloc(o)) \/ (\E b \in held : Free(b))
Spec == Init /\ [][Next]_<<free, held>>
=============================================================================
