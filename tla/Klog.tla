-------------------------------- MODULE Klog -------------------------------
(***************************************************************************)
(* The kernel log of kernel/klog.c: a ring that keeps the newest           *)
(* characters.  klog_putchar and klog_dump are sections under klog_lock.   *)
(***************************************************************************)
EXTENDS RingOps

CONSTANTS Size, Chars

VARIABLES
  klog_ring,
  newest      \* the last characters logged, Size at most

vars == <<klog_ring, newest>>

Init == klog_ring = ring_init(Size) /\ newest = <<>>

klog_putchar(c) ==
  /\ klog_ring' = ring_write(IF ring_full(klog_ring) THEN ring_read(klog_ring, 1)
                             ELSE klog_ring, <<c>>)
  /\ newest' = IF Len(newest) < Size THEN Append(newest, c) ELSE Append(Tail(newest), c)

Next == \E c \in Chars : klog_putchar(c)

Spec == Init /\ [][Next]_vars

\* What klog_dump prints between its two lines.
klog_dump ==
  [i \in 1 .. ring_used(klog_ring) |-> klog_ring.data[At(klog_ring, klog_ring.tail + i - 1)]]

\* "Overwrite oldest": the dump is the newest characters, in the order they came,
\* also when the counters have wrapped round.
DumpIsNewest == klog_dump = newest
=============================================================================
