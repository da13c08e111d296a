------------------------------ MODULE RingBuf ------------------------------
(***************************************************************************)
(* One producer and one consumer on a ring of kernel/ringbuf.h without a   *)
(* lock: each access to memory that the other side can see is a step.      *)
(* Bytes are numbers that follow each other, so a byte that comes out late,*)
(* twice or not at all shows.                                              *)
(***************************************************************************)
EXTENDS RingOps

CONSTANTS
  Size,
  Counts      \* how many bytes the two sides ask for

VARIABLES
  ring,
  writing,    \* bytes of the ring_write under way, each stored before `head` moves
  stored,     \* how many of them are stored
  reading,    \* how many bytes the ring_read under way will take
  taken,      \* how many of them it has read
  next_in, next_out    \* the next byte to send, and the next one expected

vars == <<ring, writing, stored, reading, taken, next_in, next_out>>

BYTES == Size + 1
Init ==
  /\ ring = ring_init(Size) /\ writing = 0 /\ stored = 0 /\ reading = 0 /\ taken = 0
  /\ next_in = 0 /\ next_out = 0

BeginWrite ==
  /\ writing = 0
  /\ \E n \in Counts : writing' = Clipped(n, ring_free(ring))
  /\ UNCHANGED <<ring, stored, reading, taken, next_in, next_out>>

Store ==
  /\ stored < writing
  /\ ring' = [ring EXCEPT !.data[At(ring, ring.head + stored)] = next_in]
  /\ stored' = stored + 1 /\ next_in' = (next_in + 1) % BYTES
  /\ UNCHANGED <<writing, reading, taken, next_out>>

\* As if head moved before the last byte is stored.
Publish_Early ==
  /\ writing > 0 /\ stored = writing - 1
  /\ ring' = [ring EXCEPT !.head = (@ + writing) % INDICES]
  /\ writing' = 0 /\ stored' = 0
  /\ next_in' = (next_in + 1) % BYTES
  /\ UNCHANGED <<reading, taken, next_out>>

\* After the barrier.
Publish ==
  /\ writing > 0 /\ stored = writing
  /\ ring' = [ring EXCEPT !.head = (@ + writing) % INDICES]
  /\ writing' = 0 /\ stored' = 0
  /\ UNCHANGED <<reading, taken, next_in, next_out>>

BeginRead ==
  /\ reading = 0
  /\ \E n \in Counts : reading' = Clipped(n, ring_used(ring))
  /\ UNCHANGED <<ring, writing, stored, taken, next_in, next_out>>

Load ==
  /\ taken < reading
  /\ taken' = taken + 1 /\ next_out' = (next_out + 1) % BYTES
  /\ UNCHANGED <<ring, writing, stored, reading, next_in>>

Release ==
  /\ reading > 0 /\ taken = reading
  /\ ring' = [ring EXCEPT !.tail = (@ + reading) % INDICES]
  /\ reading' = 0 /\ taken' = 0
  /\ UNCHANGED <<writing, stored, next_in, next_out>>

Next == BeginWrite \/ Store \/ Publish \/ BeginRead \/ Load \/ Release

Spec == Init /\ [][Next]_vars

-----------------------------------------------------------------------------
\* Every variable has its type.
TypeOK ==
  /\ ring.head \in 0 .. INDICES - 1 /\ ring.tail \in 0 .. INDICES - 1
  /\ \A i \in 0 .. Size - 1 : ring.data[i] \in 0 .. BYTES - 1
  /\ stored \in 0 .. writing /\ taken \in 0 .. reading
  /\ writing \in 0 .. Size /\ reading \in 0 .. Size

\* The consumer gets the bytes the producer sent, each once and in order, while the
\* producer overwrites the ring and the counters wrap round.
BytesInOrder == taken < reading => ring.data[At(ring, ring.tail + taken)] = next_out
=============================================================================
