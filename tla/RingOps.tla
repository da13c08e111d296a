------------------------------ MODULE RingOps ------------------------------
(***************************************************************************)
(* The ring buffer of kernel/ringbuf.h: two free-running counters of       *)
(* bounded width, INDICES values each (2^32 in the code), and `size` bytes *)
(* of data; size divides INDICES.                                          *)
(***************************************************************************)
EXTENDS Integers, Sequences

CONSTANT INDICES

ring_init(size) == [data |-> [i \in 0 .. size - 1 |-> 0], size |-> size, head |-> 0, tail |-> 0]

ring_used(r) == (r.head - r.tail) % INDICES

ring_free(r) == r.size - ring_used(r)

ring_full(r) == ring_used(r) = r.size

Clipped(count, avail) == IF count > avail THEN avail ELSE count

At(r, k) == (k % INDICES) % r.size

\* Data after ring_write has stored the bytes src.
Stored(r, src) ==
  [i \in DOMAIN r.data |->
     IF \E k \in DOMAIN src : At(r, r.head + k - 1) = i
     THEN src[CHOOSE k \in DOMAIN src : At(r, r.head + k - 1) = i]
     ELSE r.data[i]]

ring_write(r, src) ==
  LET count == Clipped(Len(src), ring_free(r))
  IN  [r EXCEPT !.data = Stored(r, SubSeq(src, 1, count)), !.head = (@ + count) % INDICES]

\* The bytes are copied out in RingBuf; here they are only passed over.
ring_read(r, count) == [r EXCEPT !.tail = (@ + Clipped(count, ring_used(r))) % INDICES]
=============================================================================
