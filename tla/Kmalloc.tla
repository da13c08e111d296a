------------------------------ MODULE Kmalloc ------------------------------
(***************************************************************************)
(* The kernel heap of kernel/kmalloc.c: slab pages cut into slots of one   *)
(* size class, a ring that keeps freed slots for a while, and whole pages  *)
(* for large requests.  Pages come from the pool of PagePool, which Pmm    *)
(* implements.                                                             *)
(*                                                                         *)
(* A pointer is <<page, offset>>.  Each locked section is one action; when *)
(* the slot pushed out of the ring belongs to another class, kfree lets go *)
(* of its own class first, and other threads run before it takes the       *)
(* other.  Of the bytes of an object only the four that the double free    *)
(* test reads are modelled: do they hold the poison.  The statistics       *)
(* counters are left out.                                                  *)
(***************************************************************************)
EXTENDS Integers, SequencesExt, FiniteSetsExt

CONSTANTS
  Threads,
  AllPages,          \* the pages of the pool
  PAGE_SIZE, HEADER_SIZE, SLAB_MIN_SIZE, SLAB_NUM_CLASSES,
  QUARANTINE_SIZE, PMM_MAX_ORDER,
  Sizes,             \* sizes asked for
  MaxLive            \* bound on the objects in use

VARIABLES
  free, held,        \* the pool of pages
  slabs,             \* the list of slab pages of each class
  slab,              \* the header of each slab page
  quarantine,        \* freed slots, oldest first
  poisoned,          \* objects whose bytes 8 to 11 hold the poison
  live,              \* objects in use, each with the size asked for
  pc                 \* calls under way: a pointer to free, or one to put back

vars == <<free, held, slabs, slab, quarantine, poisoned, live, pc>>

Classes == 0 .. SLAB_NUM_CLASSES - 1
obj_size(c) == SLAB_MIN_SIZE * 2^c
SLAB_MAX_SIZE == obj_size(SLAB_NUM_CLASSES - 1)
NoSlab == [cls |-> -1, used |-> 0, free |-> <<>>]
Idle == [at |-> "none", ptr |-> <<0, 0>>]
Pool == INSTANCE PagePool WITH MaxOrder <- PMM_MAX_ORDER

size_to_class(size) ==
  IF size > SLAB_MAX_SIZE THEN -1 ELSE Min({c \in Classes : size <= obj_size(c)})

Slots(c) == {HEADER_SIZE + i * obj_size(c) :
               i \in 0 .. ((PAGE_SIZE - HEADER_SIZE) \div obj_size(c)) - 1}
IsLarge(ptr) == ptr[2] = 8
Ptrs == AllPages \X ({8} \cup UNION {Slots(c) : c \in Classes})

kmalloc_init ==
  /\ free = AllPages /\ held = {}
  /\ slabs = [c \in Classes |-> <<>>] /\ slab = [p \in AllPages |-> NoSlab]
  /\ quarantine = <<>> /\ poisoned = {}
  /\ live = <<>> /\ pc = [t \in Threads |-> Idle]

-----------------------------------------------------------------------------
(* Allocation.  Each operator below gives out ptr.                         *)

\* Slots are chained from the first, so the list starts with the last.
slab_new(c, p) ==
  [cls |-> c, used |-> 0,
   free |-> LET s == SetToSortSeq(Slots(c), >) IN [i \in DOMAIN s |-> <<p, s[i]>>]]

SlabAlloc(c, ptr) ==
  LET ready == {i \in DOMAIN slabs[c] : slab[slabs[c][i]].free # <<>>}
      Take(h) == [h EXCEPT !.free = Tail(@), !.used = @ + 1]
      p == ptr[1]
  IN  \/ /\ ready # {} /\ p = slabs[c][Min(ready)]
         /\ ptr = slab[p].free[1]
         /\ slab' = [slab EXCEPT ![p] = Take(@)]
         /\ UNCHANGED <<free, held, slabs>>
      \/ /\ ready = {} /\ p \in free
         /\ ptr = slab_new(c, p).free[1]
         /\ free' = free \ {p} /\ held' = held \cup {<<p, 0>>}
         /\ slabs' = [slabs EXCEPT ![c] = <<p>> \o @]
         /\ slab' = [slab EXCEPT ![p] = Take(slab_new(c, p))]

\* The smallest order that holds the size and its header, or the largest there is.
LargeOrder(size) ==
  Min({o \in 0 .. PMM_MAX_ORDER : 2^o * PAGE_SIZE >= size + 8} \cup {PMM_MAX_ORDER})

LargeAlloc(size, ptr) ==
  LET o == LargeOrder(size)
  IN  /\ IsLarge(ptr) /\ ptr[1] \in Pool!FreeRuns(o)
      /\ free' = free \ Pool!Run(ptr[1], o) /\ held' = held \cup {<<ptr[1], o>>}
      /\ UNCHANGED <<slabs, slab>>

Alloc(size, ptr) ==
  IF size_to_class(size) = -1 THEN LargeAlloc(size, ptr)
  ELSE SlabAlloc(size_to_class(size), ptr)

\* The poison left once the pages taken from the pool have been zeroed.
Kept == {q \in poisoned : q[1] \notin free \ free'}

Order(p) == CHOOSE o \in 0 .. PMM_MAX_ORDER : <<p, o>> \in held

kmalloc_usable_size(ptr) ==
  IF IsLarge(ptr) THEN 2^Order(ptr[1]) * PAGE_SIZE - 8 ELSE obj_size(slab[ptr[1]].cls)

With(ptr, size) == [q \in DOMAIN live \cup {ptr} |-> IF q = ptr THEN size ELSE live[q]]
Minus(f, ptr) == [q \in DOMAIN f \ {ptr} |-> f[q]]

kmalloc(t, size) ==
  /\ pc[t] = Idle /\ Cardinality(DOMAIN live) < MaxLive
  /\ \E ptr \in Ptrs : Alloc(size, ptr) /\ live' = With(ptr, size)
  /\ poisoned' = Kept
  /\ UNCHANGED <<quarantine, pc>>

\* The owner writes to the object, as kzmalloc does at once.
Write(ptr) ==
  /\ ptr \in poisoned /\ poisoned' = poisoned \ {ptr}
  /\ UNCHANGED <<free, held, slabs, slab, quarantine, live, pc>>

-----------------------------------------------------------------------------
(* Release.                                                                *)

\* As if a slab with one slot left in use counted as empty.
Return_TooEarly(ptr) ==
  LET p == ptr[1]  h == slab[p]
  IN  IF h.used <= 2
      THEN /\ slab' = [slab EXCEPT ![p] = NoSlab]
           /\ slabs' = [slabs EXCEPT ![h.cls] = Remove(@, p)]
           /\ free' = free \cup {p} /\ held' = held \ {<<p, 0>>}
      ELSE /\ slab' = [slab EXCEPT ![p] = [h EXCEPT !.free = <<ptr>> \o @, !.used = @ - 1]]
           /\ UNCHANGED <<free, held, slabs>>

\* A slot goes back to its slab; an empty slab goes back to the pool.
Return(ptr) ==
  LET p == ptr[1]  h == slab[p]
  IN  IF h.used = 1
      THEN /\ slab' = [slab EXCEPT ![p] = NoSlab]
           /\ slabs' = [slabs EXCEPT ![h.cls] = Remove(@, p)]
           /\ free' = free \cup {p} /\ held' = held \ {<<p, 0>>}
      ELSE /\ slab' = [slab EXCEPT ![p] = [h EXCEPT !.free = <<ptr>> \o @, !.used = @ - 1]]
           /\ UNCHANGED <<free, held, slabs>>

\* A thread calls kfree on an object of its own.
CallFree(t, ptr) ==
  /\ pc[t] = Idle
  /\ live' = Minus(live, ptr)
  /\ pc' = [pc EXCEPT ![t] = [at |-> "kfree", ptr |-> ptr]]
  /\ UNCHANGED <<free, held, slabs, slab, quarantine, poisoned>>

\* The large path.
kfree_large(t) ==
  LET ptr == pc[t].ptr  o == Order(ptr[1])
  IN  /\ pc[t].at = "kfree" /\ IsLarge(ptr)
      /\ free' = free \cup Pool!Run(ptr[1], o) /\ held' = held \ {<<ptr[1], o>>}
      /\ pc' = [pc EXCEPT ![t] = Idle]
      /\ UNCHANGED <<slabs, slab, quarantine, poisoned, live>>

Quarantined(ptr) ==
  /\ quarantine' = Append(IF Len(quarantine) = QUARANTINE_SIZE THEN Tail(quarantine)
                          ELSE quarantine, ptr)
  /\ poisoned' = poisoned \cup {ptr}

\* The slot goes into the ring; the one it pushes out goes back to its slab, now
\* if it is of the same class.  A slot that looks freed already stops the machine.
kfree(t) ==
  LET ptr == pc[t].ptr
      full == Len(quarantine) = QUARANTINE_SIZE
      out == quarantine[1]
      same == slab[out[1]].cls = slab[ptr[1]].cls
  IN  /\ pc[t].at = "kfree" /\ ~IsLarge(ptr) /\ ptr \notin poisoned
      /\ Quarantined(ptr)
      /\ IF full /\ same THEN Return(out) ELSE UNCHANGED <<free, held, slabs, slab>>
      /\ pc' = [pc EXCEPT ![t] = IF full /\ ~same THEN [at |-> "evict", ptr |-> out]
                                 ELSE Idle]
      /\ UNCHANGED live

\* The section under the lock of the other class.
kfree_evict(t) ==
  /\ pc[t].at = "evict"
  /\ Return(pc[t].ptr)
  /\ pc' = [pc EXCEPT ![t] = Idle]
  /\ UNCHANGED <<quarantine, poisoned, live>>

\* As if an object kept its place whenever the new size fits into its page.
InPlace_AnyFit(ptr, size) == size <= PAGE_SIZE - HEADER_SIZE

InPlace(ptr, size) ==
  LET old == kmalloc_usable_size(ptr)
  IN  size <= old /\ size_to_class(old) = size_to_class(size) /\ size_to_class(old) >= 0

\* A new object, a copy of the bytes both have, and a kfree of the old one.
krealloc(t, ptr, size) ==
  LET copies == kmalloc_usable_size(ptr) >= 12 /\ size >= 12
  IN  /\ pc[t] = Idle
      /\ \/ /\ InPlace(ptr, size) /\ live' = With(ptr, size)
            /\ UNCHANGED <<free, held, slabs, slab, quarantine, poisoned, pc>>
         \/ /\ ~InPlace(ptr, size)
            /\ \E q \in Ptrs :
                 /\ Alloc(size, q) /\ live' = Minus(With(q, size), ptr)
                 /\ poisoned' = IF ~copies THEN Kept
                                ELSE IF ptr \in poisoned THEN Kept \cup {q} ELSE Kept \ {q}
            /\ pc' = [pc EXCEPT ![t] = [at |-> "kfree", ptr |-> ptr]]
            /\ UNCHANGED quarantine

Init == kmalloc_init

Next ==
  \/ \E t \in Threads, size \in Sizes : kmalloc(t, size)
  \/ \E t \in Threads : kfree(t) \/ kfree_large(t) \/ kfree_evict(t)
  \/ \E ptr \in DOMAIN live :
       \/ Write(ptr)
       \/ \E t \in Threads : CallFree(t, ptr)
       \/ \E t \in Threads, size \in Sizes : krealloc(t, ptr, size)

Spec == Init /\ [][Next]_vars

-----------------------------------------------------------------------------
InFlight == {pc[t].ptr : t \in {u \in Threads : pc[u] # Idle}}
Used == DOMAIN live \cup InFlight \cup ToSet(quarantine)
SlabPages == {p \in AllPages : slab[p] # NoSlab}

\* Every variable has its type.
TypeOK ==
  /\ free \subseteq AllPages /\ DOMAIN live \subseteq Ptrs
  /\ \A p \in SlabPages : slab[p].cls \in Classes /\ ToSet(slab[p].free) \subseteq Ptrs
  /\ Len(quarantine) <= QUARANTINE_SIZE /\ poisoned \subseteq Ptrs

\* Each slot of each slab is in exactly one place (in use, in the ring, on its way
\* back, or free) and "used" counts the first three, though a slot pushed out of
\* the ring is in no list while kfree holds no lock.  So no slot is given out
\* twice, and a slab is released only when none of its slots is in use.
SlotsAccounted ==
  /\ \A t, u \in Threads : pc[t] # Idle /\ pc[t] = pc[u] => t = u
  /\ IsInjective(quarantine)
  /\ DOMAIN live \cap InFlight = {} /\ DOMAIN live \cap ToSet(quarantine) = {}
  /\ InFlight \cap ToSet(quarantine) = {}
  /\ \A ptr \in Used : ~IsLarge(ptr) => slab[ptr[1]] # NoSlab
  /\ \A p \in SlabPages :
       LET h == slab[p]  mine == {ptr \in Used : ptr[1] = p}
       IN  /\ IsInjective(h.free) /\ ToSet(h.free) \cap mine = {}
           /\ ToSet(h.free) \cup mine = {p} \X Slots(h.cls)
           /\ h.used = Cardinality(mine)

\* Every page is in the pool or has one owner, a slab in the list of its class or
\* a large object; and no slab without a slot in use is kept.
PagesAccounted ==
  /\ \A b \in held : Pool!Run(b[1], b[2]) \cap free = {}
  /\ \A b, c \in held : b # c => Pool!Run(b[1], b[2]) \cap Pool!Run(c[1], c[2]) = {}
  /\ free \cup UNION {Pool!Run(b[1], b[2]) : b \in held} = AllPages
  /\ held = {<<p, 0>> : p \in SlabPages}
               \cup {<<q[1], Order(q[1])>> : q \in {r \in Used : IsLarge(r)}}
  /\ \A p \in SlabPages : slab[p].used > 0
  /\ \A c \in Classes : ToSet(slabs[c]) = {p \in SlabPages : slab[p].cls = c}

\* The objects in use have room for what was asked for, after krealloc too.
ObjectsFit == \A ptr \in DOMAIN live : live[ptr] <= kmalloc_usable_size(ptr)

\* A slot that has been freed carries the poison for as long as it is not given
\* out again, so kfree recognises a second free of it.
FreedIsPoisoned ==
  /\ ToSet(quarantine) \subseteq poisoned
  /\ \A t \in Threads : pc[t].at = "evict" => pc[t].ptr \in poisoned

\* "si los bytes post-header ya tienen el patron poison, esta memoria ya fue
\* liberada": kfree takes no object in use for a freed one.
PoisonMeansFreed == \A ptr \in DOMAIN live : ptr \notin poisoned

\* The heap uses the pool of pages only as the pool allows: it gives back what it
\* took, whole and once.
UsesPool == [][Pool!Next]_<<free, held>>
=============================================================================
