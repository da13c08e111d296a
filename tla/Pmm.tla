-------------------------------- MODULE Pmm --------------------------------
(***************************************************************************)
(* The buddy allocator of kernel/pmm.c.  A free block of order o is 2^o    *)
(* pages starting at a multiple of 2^o; its buddy differs in bit o of the  *)
(* page number.  Every call runs under pmm_lock with interrupts off and is *)
(* one action; pmm_init feeds the usable memory block by block, and each   *)
(* block it frees is one action too.                                       *)
(*                                                                         *)
(* Addresses are page numbers, the boot map is in bytes.  Page 0 doubles   *)
(* as the failure code, so no map below offers it.                         *)
(***************************************************************************)
EXTENDS Integers, FiniteSetsExt, SequencesExt

CONSTANTS
  PMM_MAX_ORDER, PAGE_SIZE,
  SIZEOF_PAGE,      \* sizeof(struct page)
  MemMaps,          \* boot maps: sequences of [base, length, type]
  MaxRef            \* bound on the references to one block

VARIABLES
  memmap,
  pmm,      \* struct pmm_state
  feed,     \* what pmm_init has still to feed: spans <<start_pfn, end_pfn>>
  held      \* blocks the callers hold, as <<pfn, order>>

vars == <<memmap, pmm, feed, held>>

Orders == 0 .. PMM_MAX_ORDER
Pages(b) == b[1] .. b[1] + 2^b[2] - 1
AllPages(blocks) == UNION {Pages(b) : b \in blocks}
Pfns == DOMAIN pmm.pages

-----------------------------------------------------------------------------
(* Boot: size and place of the page array, and the spans left to feed.      *)

Usable(m) == {i \in DOMAIN m : m[i].type = "usable"}
End(e) == e.base + e.length
total_pfns(m) == Max({End(m[i]) : i \in Usable(m)}) \div PAGE_SIZE
metadata_pages(m) == (total_pfns(m) * SIZEOF_PAGE + PAGE_SIZE - 1) \div PAGE_SIZE

\* The first of the largest usable regions gives its beginning to the page array.
steal_idx(m) ==
  Min({i \in Usable(m) : \A j \in Usable(m) : m[j].length <= m[i].length})

\* The pages that region i contributes.
Span(m, i) ==
  LET base == m[i].base + (IF i = steal_idx(m) THEN metadata_pages(m) * PAGE_SIZE ELSE 0)
  IN  <<(base + PAGE_SIZE - 1) \div PAGE_SIZE, End(m[i]) \div PAGE_SIZE>>

Spans(m) == SelectSeq([i \in DOMAIN m |-> IF m[i].type = "usable" THEN Span(m, i) ELSE <<0, 0>>],
                      LAMBDA s : s[1] < s[2])

Reserved == [order |-> 0, flags |-> {"RESERVED"}, ref_count |-> 0]

pmm_init ==
  /\ memmap \in {m \in MemMaps :
                   m[steal_idx(m)].length >= total_pfns(m) * SIZEOF_PAGE}
  /\ pmm = [pages          |-> [p \in 0 .. total_pfns(memmap) - 1 |-> Reserved],
            free_lists     |-> [o \in Orders |-> <<>>],
            free_pages     |-> 0,
            used_pages     |-> 0,
            reserved_pages |-> total_pfns(memmap),
            peak_used      |-> 0]
  /\ feed = Spans(memmap)
  /\ held = {}

-----------------------------------------------------------------------------
(* Free lists and buddies.                                                 *)

list_add(area, p) == <<p>> \o area
list_remove(area, p) == Remove(area, p)

buddy_pfn(p, o) == IF (p \div 2^o) % 2 = 0 THEN p + 2^o ELSE p - 2^o

is_buddy_free(s, b, o) ==
  b \in DOMAIN s.pages /\ "BUDDY_HEAD" \in s.pages[b].flags /\ s.pages[b].order = o

\* The orders from which a request for order o can be served.
Serving(s, o) == {c \in o .. PMM_MAX_ORDER : s.free_lists[c] # <<>>}

AllocBlock(s, o) == s.free_lists[Min(Serving(s, o))][1]

\* As if what is left of a bigger block were forgotten.
Split_Whole(s, o) ==
  LET c == Min(Serving(s, o))
  IN  [s EXCEPT !.free_lists[c] = Tail(@),
                !.pages[AllocBlock(s, o)] = [order |-> o, flags |-> {"USED"}, ref_count |-> 1]]

\* pmm_alloc_pages takes the first block of the smallest serving order c, and
\* puts its upper half back at each order from c - 1 down to o.
Split(s, o) ==
  LET c == Min(Serving(s, o))
      b == AllocBlock(s, o)
      Halves == {b + 2^k : k \in o .. c - 1}
  IN  [s EXCEPT
        !.free_lists = [k \in Orders |->
           IF k = c THEN Tail(@[k])
           ELSE IF k \in o .. c - 1 THEN list_add(@[k], b + 2^k) ELSE @[k]],
        !.pages = [p \in DOMAIN @ |->
           IF p = b THEN [order |-> o, flags |-> {"USED"}, ref_count |-> 1]
           ELSE IF p \in Halves
           THEN [@[p] EXCEPT !.order = CHOOSE k \in Orders : p = b + 2^k,
                             !.flags = {"BUDDY_HEAD"}]
           ELSE @[p]]]

AfterAlloc(s, o) ==
  [Split(s, o) EXCEPT !.free_pages = @ - 2^o, !.used_pages = @ + 2^o,
                      !.peak_used = Max({@, s.used_pages + 2^o})]

\* As if a freed block were put back as it is.
Merge_Not(s, pfn, o) ==
  [s EXCEPT !.free_lists[o] = list_add(@, pfn),
            !.pages[pfn] = [order |-> o, flags |-> {"BUDDY_HEAD"}, ref_count |-> 0]]

\* pmm_free_pages merges the block with its buddy for as long as that is free.
\* Base(j) is where the block starts once it has reached order j.  A page that
\* was the start of the block on the way keeps the flag it got then; a buddy
\* above the block loses its flag.
Merge(s, pfn, o) ==
  LET Base(j) == pfn - (pfn % 2^j)
      Merges(j) == is_buddy_free(s, buddy_pfn(Base(j), j), j)
      top == Min({j \in o .. PMM_MAX_ORDER : j = PMM_MAX_ORDER \/ ~Merges(j)})
      Gone == {buddy_pfn(Base(j), j) : j \in o .. top - 1}
      Heads == {Base(j) : j \in o .. top}
  IN  [s EXCEPT
        !.free_lists =
           [k \in Orders |->
             IF k \in o .. top - 1 THEN list_remove(@[k], buddy_pfn(Base(k), k))
             ELSE IF k = top THEN list_add(@[k], Base(k)) ELSE @[k]],
        !.pages = [p \in DOMAIN @ |->
           IF p \in Heads
           THEN [order     |-> Max({j \in o .. top : Base(j) = p}),
                 flags     |-> {"BUDDY_HEAD"},
                 ref_count |-> IF p = pfn THEN 0 ELSE @[p].ref_count]
           ELSE IF p \in Gone THEN [@[p] EXCEPT !.flags = @ \ {"BUDDY_HEAD"}]
           ELSE @[p]]]

AfterFree(s, pfn, o) ==
  [Merge(s, pfn, o) EXCEPT !.free_pages = @ + 2^o, !.used_pages = @ - 2^o]

-----------------------------------------------------------------------------
\* One block of pmm_init's feeding loop: the largest that is aligned and fits.
Feed ==
  /\ feed # <<>>
  /\ LET start == feed[1][1]  end == feed[1][2]
         o == Max({k \in Orders : start % 2^k = 0 /\ start + 2^k <= end})
         marked == [pmm EXCEPT
                      !.pages = [p \in DOMAIN @ |->
                         IF p \in Pages(<<start, o>>) THEN [@[p] EXCEPT !.flags = {"USED"}]
                         ELSE @[p]],
                      !.reserved_pages = @ - 2^o,
                      !.used_pages = @ + 2^o]
     IN  /\ pmm' = AfterFree(marked, start, o)
         /\ feed' = IF start + 2^o < end THEN <<<<start + 2^o, end>>>> \o Tail(feed)
                    ELSE Tail(feed)
  /\ UNCHANGED <<memmap, held>>

\* With no order to serve from, the caller gets 0 and nothing changes.
pmm_alloc_pages(o) ==
  /\ feed = <<>>
  /\ Serving(pmm, o) # {}
  /\ pmm' = AfterAlloc(pmm, o)
  /\ held' = held \cup {<<AllocBlock(pmm, o), o>>}
  /\ UNCHANGED <<memmap, feed>>

\* A block is freed by its only owner, or by the one whose pmm_ref_dec gave 0.
pmm_free_pages(b) ==
  /\ "USED" \in pmm.pages[b[1]].flags
  /\ pmm.pages[b[1]].ref_count <= 1
  /\ pmm' = AfterFree(pmm, b[1], b[2])
  /\ held' = held \ {b}
  /\ UNCHANGED <<memmap, feed>>

pmm_ref_inc(b) ==
  /\ pmm.pages[b[1]].ref_count \in 1 .. MaxRef - 1
  /\ pmm' = [pmm EXCEPT !.pages[b[1]].ref_count = @ + 1]
  /\ UNCHANGED <<memmap, feed, held>>

pmm_ref_dec(b) ==
  /\ pmm.pages[b[1]].ref_count > 0
  /\ pmm' = [pmm EXCEPT !.pages[b[1]].ref_count = @ - 1]
  /\ UNCHANGED <<memmap, feed, held>>

Init == pmm_init

Next ==
  \/ Feed
  \/ \E o \in Orders : pmm_alloc_pages(o)
  \/ \E b \in held : pmm_free_pages(b) \/ pmm_ref_inc(b) \/ pmm_ref_dec(b)

Spec == Init /\ [][Next]_vars

-----------------------------------------------------------------------------
FreeBlocks == UNION {{<<pmm.free_lists[o][i], o>> : i \in DOMAIN pmm.free_lists[o]} : o \in Orders}
Managed == UNION {Spans(memmap)[i][1] .. Spans(memmap)[i][2] - 1 : i \in DOMAIN Spans(memmap)}
Unfed == UNION {feed[i][1] .. feed[i][2] - 1 : i \in DOMAIN feed}

\* Every variable has its type, and no free list holds a block twice.
TypeOK ==
  /\ \A p \in Pfns : pmm.pages[p] \in
       [order : Orders, flags : SUBSET {"USED", "RESERVED", "BUDDY_HEAD"}, ref_count : 0 .. MaxRef]
  /\ \A o \in Orders : IsInjective(pmm.free_lists[o])
  /\ held \subseteq Pfns \X Orders

\* After any sequence of splits and merges the free and the held blocks are
\* aligned to their size, do not overlap, and together are exactly the pages
\* pmm_init fed: no page is handed out twice and none is lost.
BlocksPartition ==
  /\ \A b \in FreeBlocks \cup held : b[1] % 2^b[2] = 0
  /\ \A b, c \in FreeBlocks \cup held : b # c => Pages(b) \cap Pages(c) = {}
  /\ FreeBlocks \cap held = {}
  /\ AllPages(FreeBlocks \cup held) = Managed \ Unfed

\* pmm_alloc_pages fails only when memory has no free aligned run of that size:
\* coalescing is never missed, so a run of free pages is one free block.
AllocTotal ==
  \A o \in Orders : \A p \in Pfns :
    (p % 2^o = 0 /\ Pages(<<p, o>>) \subseteq AllPages(FreeBlocks)) => Serving(pmm, o) # {}

\* The coalescing loop judges a buddy by the flags of its page alone, and pages
\* inside bigger blocks keep old flags; still, whenever it may ask about a page
\* (the buddy of a held block, or of what a held block can grow into), the answer
\* is right: the page is free at that order exactly when it is in that list.
BuddyTestExact ==
  \A b \in held : \A o \in b[2] .. PMM_MAX_ORDER - 1 :
    LET Base(j) == b[1] - (b[1] % 2^j)
        q(j) == buddy_pfn(Base(j), j)
    IN  (\A j \in b[2] .. o - 1 : <<q(j), j>> \in FreeBlocks)
          => (is_buddy_free(pmm, q(o), o) <=> <<q(o), o>> \in FreeBlocks)

\* The counters that mempressure_check and the statistics read are the sizes of
\* the free and of the held memory.
CountersExact ==
  /\ pmm.free_pages = Cardinality(AllPages(FreeBlocks))
  /\ pmm.used_pages = Cardinality(AllPages(held))
  /\ pmm.free_pages + pmm.used_pages + pmm.reserved_pages = Cardinality(Pfns)
  /\ pmm.peak_used >= pmm.used_pages

\* The pages that hold the page array itself are never in a block.
ArrayKept ==
  LET first == memmap[steal_idx(memmap)].base
      last  == first + total_pfns(memmap) * SIZEOF_PAGE - 1
  IN  (first \div PAGE_SIZE .. last \div PAGE_SIZE) \cap AllPages(FreeBlocks \cup held) = {}

Pool == INSTANCE PagePool WITH MaxOrder <- PMM_MAX_ORDER, free <- AllPages(FreeBlocks)

\* A step the users of the pool do not see.
SamePool == UNCHANGED <<AllPages(FreeBlocks), held>>

\* The allocator with its lists, splits and merges implements the pool of pages.
ImplementsPool == Pool!Spec
=============================================================================
