-------------------------------- MODULE Vma --------------------------------
(***************************************************************************)
(* The regions of an address space, kernel/vma.c: a list kept sorted by    *)
(* start address, of descriptors taken from a static pool.  Nothing checks *)
(* that regions do not overlap.  The calls are not locked; the kernel      *)
(* makes them from one thread.                                             *)
(***************************************************************************)
EXTENDS Integers, SequencesExt

CONSTANTS
  PoolSize,     \* descriptors in vma_pool
  Addrs,        \* addresses, an interval
  Types, Perms  \* types given to vma_add, and the permission bits

VARIABLES
  regions,        \* vs->regions
  count,          \* vs->count
  vma_pool_used,
  added           \* the regions added and not removed, each with its place in the pool

vars == <<regions, count, vma_pool_used, added>>

VmaRec == [id : 0 .. PoolSize - 1, start : Addrs, end : Addrs, type : Types, perms : SUBSET Perms]

Init == regions = <<>> /\ count = 0 /\ vma_pool_used = 0 /\ added = {}

\* How many regions stay before a new one: the walk stops at the first that
\* starts after it.
Place(start) ==
  IF \E i \in DOMAIN regions : regions[i].start > start
  THEN Min({i \in DOMAIN regions : regions[i].start > start}) - 1
  ELSE Len(regions)

vma_add(start, end, type, perms) ==
  /\ vma_pool_used < PoolSize
  /\ LET v == [id |-> vma_pool_used, start |-> start, end |-> end, type |-> type,
               perms |-> perms]
     IN  /\ regions' = SubSeq(regions, 1, Place(start)) \o <<v>>
                         \o SubSeq(regions, Place(start) + 1, Len(regions))
         /\ added' = added \cup {v}
  /\ vma_pool_used' = vma_pool_used + 1
  /\ count' = count + 1

\* As if every region with that start went.
Removed_All(start) == {i \in DOMAIN regions : regions[i].start = start}

\* The first region with that start.
Removed(start) ==
  {i \in DOMAIN regions : /\ regions[i].start = start
                          /\ \A j \in 1 .. i - 1 : regions[j].start # start}

vma_remove(start) ==
  /\ Removed(start) # {}
  /\ regions' = FoldLeft(LAMBDA s, i : IF i \in Removed(start) THEN s ELSE Append(s, regions[i]),
                         <<>>, [i \in DOMAIN regions |-> i])
  /\ added' = added \ {regions[Min(Removed(start))]}
  /\ count' = count - 1
  /\ UNCHANGED vma_pool_used

\* The walk ends at a region that holds addr or, since they are sorted, at one
\* that starts after it.
vma_find(addr) ==
  {i \in DOMAIN regions :
     /\ regions[i].start <= addr /\ addr < regions[i].end
     /\ \A j \in 1 .. i - 1 :
          ~(regions[j].start <= addr /\ addr < regions[j].end) /\ regions[j].start <= addr}

vma_check_access(addr, perms) ==
  \E i \in vma_find(addr) : regions[i].type # "guard" /\ perms \subseteq regions[i].perms

Next ==
  \/ \E start, end \in Addrs, type \in Types, perms \in SUBSET Perms :
       start < end /\ vma_add(start, end, type, perms)
  \/ \E start \in Addrs : vma_remove(start)

Spec == Init /\ [][Next]_vars

-----------------------------------------------------------------------------
\* Every variable has its type.
TypeOK ==
  /\ regions \in Seq(VmaRec) /\ count \in 0 .. PoolSize
  /\ vma_pool_used \in 0 .. PoolSize /\ added \subseteq VmaRec

\* The list holds exactly the regions added and not removed, each once, and the
\* counter counts them, though starts may be equal and vma_remove goes by start.
RegionsKept ==
  /\ {regions[i] : i \in DOMAIN regions} = added
  /\ Len(regions) = Cardinality(added) /\ count = Len(regions)

\* The early end of vma_find's walk loses nothing: it finds a region for every
\* address that lies in one, overlapping regions included.
FindComplete ==
  \A a \in Addrs : vma_find(a) # {} <=> \E v \in added : v.start <= a /\ a < v.end

\* An access is granted only if some region added there grants it, and of several
\* that hold the address the one that starts lowest, the oldest of equals, decides.
AccessDecided ==
  \A a \in Addrs, p \in SUBSET Perms :
    vma_check_access(a, p) <=>
      \E v \in added :
        /\ v.start <= a /\ a < v.end /\ v.type # "guard" /\ p \subseteq v.perms
        /\ \A w \in added : w.start <= a /\ a < w.end =>
             v.start < w.start \/ (v.start = w.start /\ v.id <= w.id)
=============================================================================
