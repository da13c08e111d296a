-------------------------------- MODULE Vmm --------------------------------
(***************************************************************************)
(* The page tables of kernel/vmm.c: vmm_init builds them call by call and  *)
(* switches to them, then threads map and unmap pages.  A call writes the  *)
(* tables under vmm_lock, and flushes the TLB entry after the unlock; the  *)
(* CPU may load a translation into its TLB at any moment.                  *)
(*                                                                         *)
(* Addresses are in pages.  A virtual page is the tuple of its four        *)
(* indices; a table has Fan entries, so a huge page is Fan pages.  A       *)
(* failed assertion stops the machine: the action has no step then.        *)
(***************************************************************************)
EXTENDS Integers, FiniteSetsExt, SequencesExt

CONSTANTS
  Fan, PhysPages,
  MemMap,            \* the boot map: a sequence of [base, length, type]
  KernelBase,        \* kernel_phys_base
  Sections,          \* pages of the image, each with its section, or "gap"
  StackPages,        \* pages of each of the two stacks
  BootGuard,         \* the page below the boot stack
  Targets, Frames,   \* what the threads map, and onto which frames
  Watched            \* pages whose TLB entries are followed

VARIABLES
  pml4,      \* pml4_phys; 0 before vmm_init
  mem,       \* the entries in each physical page that serves as a table
  free,      \* free physical pages
  cr3,       \* is pml4 the table the CPU walks
  vmm_wx_enforced,
  boot,      \* the calls vmm_init has still to make
  pc,        \* the page each thread still has to flush, or NoPage
  tlb,       \* cached entries of the watched pages, or NoEntry
  guards     \* pages given to vmm_unmap_page and not mapped since

vars == <<pml4, mem, free, cr3, vmm_wx_enforced, boot, pc, tlb, guards>>

Threads == {"init", "other"}
Idx == 0 .. Fan - 1
NoEntry == [addr |-> 0, flags |-> {}]
NoPage == <<>>

RX == {"PRESENT", "GLOBAL"}
RO == {"PRESENT", "GLOBAL", "NX"}
RW == {"PRESENT", "WRITE", "GLOBAL", "NX"}
RWX == {"PRESENT", "WRITE", "GLOBAL"}
HHDM == RW

\* The virtual pages: direct map of a physical page, the stacks, the kernel image.
Hhdm(p) == <<0, p \div (Fan * Fan), (p \div Fan) % Fan, p % Fan>>
Stack(n, i) == <<1, 0, n, i>>
Kernel(i) == <<2, 0, i \div Fan, i % Fan>>
Virts == {0, 1, 2} \X {0, 1} \X Idx \X Idx

-----------------------------------------------------------------------------
(* Walks.  s is [mem, free], the memory a call works on.                   *)

Present(e) == "PRESENT" \in e.flags
Huge(e) == "HUGE" \in e.flags

get_or_create_entry(s, table, i) ==
  IF Present(s.mem[table][i]) THEN s
  ELSE LET new == Min(s.free)
       IN  [mem  |-> [s.mem EXCEPT ![table][i] = [addr |-> new, flags |-> {"PRESENT", "WRITE"}],
                                   ![new] = [j \in Idx |-> NoEntry]],
            free |-> s.free \ {new}]

\* The entry a walk of m from the root ends at: that of a page, or of a huge one.
Walk(m, v) ==
  LET pml4e == m[pml4][v[1]]
      pdpte == m[pml4e.addr][v[2]]
      pde == m[pdpte.addr][v[3]]
      pte == m[pde.addr][v[4]]
  IN  IF ~Present(pml4e) \/ ~Present(pdpte) \/ ~Present(pde) THEN NoEntry
      ELSE IF Huge(pde) THEN [pde EXCEPT !.addr = @ + v[4]]
      ELSE IF Present(pte) THEN pte ELSE NoEntry

vmm_virt_to_phys(v) == IF pml4 = 0 THEN 0 ELSE Walk(mem, v).addr

\* The number of leaf entries that are both writable and executable.
vmm_audit_wx ==
  IF pml4 = 0 THEN 0
  ELSE Cardinality({v \in Virts : LET e == Walk(mem, v)
                                  IN  /\ "WRITE" \in e.flags /\ "NX" \notin e.flags
                                      /\ Huge(e) => v[4] = 0})

Enforced(flags) ==
  IF vmm_wx_enforced /\ "WRITE" \in flags THEN flags \cup {"NX"} ELSE flags

\* The tables above v, created where they are missing.
Tables(s, v, depth) ==
  LET s1 == get_or_create_entry(s, pml4, v[1])
      pdpt == s1.mem[pml4][v[1]].addr
      s2 == get_or_create_entry(s1, pdpt, v[2])
      pd == s2.mem[pdpt][v[2]].addr
      s3 == get_or_create_entry(s2, pd, v[3])
  IN  IF depth = 2 THEN [s |-> s2, table |-> pd]
      ELSE [s |-> s3, table |-> s3.mem[pd][v[3]].addr, huge |-> Huge(s3.mem[pd][v[3]])]

\* vmm_map_page up to the unlock.
Mapped(s, v, p, flags) ==
  LET w == Tables(s, v, 3)
  IN  [w.s EXCEPT !.mem[w.table][v[4]] = [addr |-> p, flags |-> Enforced(flags)]]

Mappable(s, v) == ~Tables(s, v, 3).huge

\* vmm_map_range_huge, of n huge pages from physical page p on.
MappedHuge(s, n, flags) ==
  FoldLeft(LAMBDA acc, k :
             LET w == Tables(acc, Hhdm((k - 1) * Fan), 2)
             IN  [w.s EXCEPT !.mem[w.table][(k - 1) % Fan] =
                    [addr |-> (k - 1) * Fan, flags |-> flags \cup {"HUGE"}]],
           s, [k \in 1 .. n |-> k])

\* Is there a page table on the way to v?
HasPt(m, v) ==
  /\ Present(m[pml4][v[1]]) /\ Present(m[m[pml4][v[1]].addr][v[2]])
  /\ LET pde == m[m[m[pml4][v[1]].addr][v[2]].addr][v[3]] IN Present(pde) /\ ~Huge(pde)

\* vmm_unmap_page up to the unlock: nothing is done inside a huge page.
Unmapped(m, v) ==
  LET pt == m[m[m[pml4][v[1]].addr][v[2]].addr][v[3]].addr
  IN  IF HasPt(m, v) THEN [m EXCEPT ![pt][v[4]] = NoEntry] ELSE m

-----------------------------------------------------------------------------
(* The calls of vmm_init, in order.                                        *)

Map(v, p, flags) == <<[op |-> "map", v |-> v, p |-> p, flags |-> flags]>>
Do(op) == <<[op |-> op]>>

\* vmm_map_range, of the pages of the image whose section is in secs.
MapSections(secs, flags) ==
  FoldLeft(LAMBDA calls, i : IF Sections[i] \in secs
                             THEN calls \o Map(Kernel(i - 1), KernelBase + i - 1, flags)
                             ELSE calls,
           <<>>, [i \in 1 .. Len(Sections) |-> i])

NewStack(n) ==
  FoldLeft(LAMBDA calls, i : calls \o <<[op |-> "frame", v |-> Stack(n, i)]>>,
           <<>>, [i \in 1 .. StackPages |-> i])

\* As if only the sections got their permissions, and not the pages between them.
vmm_init_NoSweep ==
     Do("pml4") \o MapSections({"text", "rodata", "data", "bss", "gap"}, RWX)
  \o Do("hhdm") \o Do("cr3")
  \o MapSections({"text"}, RX) \o MapSections({"rodata"}, RO)
  \o MapSections({"data"}, RW) \o MapSections({"bss"}, RW)
  \o Do("wx") \o NewStack(0) \o <<[op |-> "unmap", v |-> BootGuard]>> \o NewStack(1)
  \o Do("return")

vmm_init ==
     Do("pml4") \o MapSections({"text", "rodata", "data", "bss", "gap"}, RWX)
  \o Do("hhdm") \o Do("cr3")
  \o MapSections({"text"}, RX) \o MapSections({"rodata"}, RO)
  \o MapSections({"data"}, RW) \o MapSections({"bss"}, RW) \o MapSections({"gap"}, RW)
  \o Do("wx") \o NewStack(0) \o <<[op |-> "unmap", v |-> BootGuard]>> \o NewStack(1)
  \o Do("return")

Counted == {"usable", "reclaimable", "kernel", "framebuffer"}

\* The memory map is never empty, so its fallback is not needed.
max_phys ==
  Max({0} \cup {MemMap[i].base + MemMap[i].length :
                  i \in {j \in DOMAIN MemMap : MemMap[j].type \in Counted}})

HugePages == (max_phys + Fan - 1) \div Fan

Init ==
  /\ pml4 = 0 /\ cr3 = FALSE /\ vmm_wx_enforced = FALSE
  /\ mem = [p \in PhysPages |-> [i \in Idx |-> NoEntry]]
  /\ free = UNION {MemMap[i].base .. MemMap[i].base + MemMap[i].length - 1 :
                    i \in {j \in DOMAIN MemMap : MemMap[j].type = "usable"}} \ Frames
  /\ boot = vmm_init
  /\ pc = [t \in Threads |-> NoPage]
  /\ tlb = [v \in Watched |-> NoEntry]
  /\ guards = {}

Memory == [mem |-> mem, free |-> free]
SetMemory(s) == mem' = s.mem /\ free' = s.free

\* A thread's call that writes v's entry; the flush of v is left to do.
\* Nothing is flushed where nothing was written.
Write(t, v, p, flags) ==
  /\ Mappable(Memory, v)
  /\ SetMemory(Mapped(Memory, v, p, flags))
  /\ pc' = [pc EXCEPT ![t] = v]
  /\ guards' = guards \ {v}

\* As if the page table were given back to the pool.
Erase_FreeTable(t, v) ==
  /\ SetMemory([mem |-> Unmapped(mem, v),
                free |-> IF HasPt(mem, v) THEN free \cup {Tables(Memory, v, 3).table} ELSE free])
  /\ pc' = [pc EXCEPT ![t] = IF HasPt(mem, v) THEN v ELSE NoPage]
  /\ guards' = guards \cup {v}

Erase(t, v) ==
  /\ SetMemory([Memory EXCEPT !.mem = Unmapped(mem, v)])
  /\ pc' = [pc EXCEPT ![t] = IF HasPt(mem, v) THEN v ELSE NoPage]
  /\ guards' = guards \cup {v}

BootStep ==
  /\ boot # <<>> /\ pc["init"] = NoPage
  /\ LET call == Head(boot)
     IN  /\ \/ /\ call.op = "pml4"
               /\ pml4' = Min(free) /\ free' = free \ {Min(free)}
               /\ UNCHANGED <<mem, cr3, vmm_wx_enforced, pc, guards>>
            \/ /\ call.op = "map" /\ Write("init", call.v, call.p, call.flags)
               /\ UNCHANGED <<pml4, cr3, vmm_wx_enforced>>
            \/ /\ call.op = "hhdm"
               /\ SetMemory(MappedHuge(Memory, HugePages, HHDM))
               /\ UNCHANGED <<pml4, cr3, vmm_wx_enforced, pc, guards>>
            \/ /\ call.op = "cr3" /\ cr3' = TRUE
               /\ UNCHANGED <<pml4, mem, free, vmm_wx_enforced, pc, guards>>
            \/ /\ call.op = "wx" /\ vmm_wx_enforced' = TRUE
               /\ UNCHANGED <<pml4, mem, free, cr3, pc, guards>>
            \/ /\ call.op = "frame"
               /\ LET s == [Memory EXCEPT !.free = free \ {Min(free)}]
                  IN  SetMemory(Mapped(s, call.v, Min(free), RW))
               /\ pc' = [pc EXCEPT !["init"] = call.v]
               /\ UNCHANGED <<pml4, cr3, vmm_wx_enforced, guards>>
            \/ /\ call.op = "unmap" /\ Erase("init", call.v)
               /\ UNCHANGED <<pml4, cr3, vmm_wx_enforced>>
            \/ /\ call.op = "return"
               /\ UNCHANGED <<pml4, mem, free, cr3, vmm_wx_enforced, pc, guards>>
  /\ boot' = Tail(boot) /\ UNCHANGED tlb

-----------------------------------------------------------------------------
(* Threads, once vmm_init has returned, and the CPU.                       *)

vmm_map_page(t, v, p, flags) ==
  /\ boot = <<>> /\ pc[t] = NoPage
  /\ Write(t, v, p, flags)
  /\ UNCHANGED <<pml4, cr3, vmm_wx_enforced, boot, tlb>>

vmm_unmap_page(t, v) ==
  /\ boot = <<>> /\ pc[t] = NoPage
  /\ Erase(t, v)
  /\ UNCHANGED <<pml4, cr3, vmm_wx_enforced, boot, tlb>>

\* As if nothing were invalidated.
vmm_flush_tlb_Nop(t) ==
  /\ pc[t] # NoPage /\ pc' = [pc EXCEPT ![t] = NoPage]
  /\ UNCHANGED <<pml4, mem, free, cr3, vmm_wx_enforced, boot, tlb, guards>>

vmm_flush_tlb(t) ==
  /\ pc[t] # NoPage /\ pc' = [pc EXCEPT ![t] = NoPage]
  /\ tlb' = [v \in Watched |-> IF v = pc[t] THEN NoEntry ELSE tlb[v]]
  /\ UNCHANGED <<pml4, mem, free, cr3, vmm_wx_enforced, boot, guards>>

\* The CPU translates v on a miss and keeps the entry.
Access(v) ==
  /\ cr3 /\ tlb[v] = NoEntry /\ Walk(mem, v) # NoEntry
  /\ tlb' = [tlb EXCEPT ![v] = Walk(mem, v)]
  /\ UNCHANGED <<pml4, mem, free, cr3, vmm_wx_enforced, boot, pc, guards>>

Next ==
  \/ BootStep
  \/ \E t \in Threads, v \in Targets :
       \/ \E p \in Frames, flags \in {RX, RW, RWX} : vmm_map_page(t, v, p, flags)
       \/ vmm_unmap_page(t, v)
  \/ \E t \in Threads : vmm_flush_tlb(t)
  \/ \E v \in Watched : Access(v)

Spec == Init /\ [][Next]_vars

-----------------------------------------------------------------------------
Entry == [addr : PhysPages \cup {0}, flags : SUBSET (RW \cup {"HUGE"})]

\* Every variable has its type.
TypeOK ==
  /\ pml4 \in PhysPages \cup {0} /\ free \subseteq PhysPages
  /\ cr3 \in BOOLEAN /\ vmm_wx_enforced \in BOOLEAN
  /\ \A p \in PhysPages, i \in Idx : mem[p][i] \in Entry
  /\ \A t \in Threads : pc[t] \in Virts \cup {NoPage}
  /\ \A v \in Watched : tlb[v] \in Entry

\* "A page must NEVER be both Writable AND Executable": from the moment vmm_init
\* says so on, the audit finds no such page, gaps between the sections included,
\* whatever flags callers of vmm_map_page pass.
WriteXorExecute == vmm_wx_enforced => vmm_audit_wx = 0

\* The code that runs is mapped all the time: from the switch of CR3 on, through
\* every change of permissions, each page of the image is where it was loaded.
ImageStays ==
  cr3 => \A i \in 1 .. Len(Sections) : vmm_virt_to_phys(Kernel(i - 1)) = KernelBase + i - 1

\* PHYS2VIRT works: from the switch of CR3 on every page of every region with data
\* the kernel needs has its direct mapping, up to the last one of the highest.
DirectMapComplete ==
  cr3 => \A i \in DOMAIN MemMap : MemMap[i].type \in Counted =>
           \A p \in MemMap[i].base .. MemMap[i].base + MemMap[i].length - 1 :
             Walk(mem, Hhdm(p)) = [addr |-> p, flags |-> HHDM \cup {"HUGE"}]

\* The flush comes after the unlock, and the CPU may load an entry in between:
\* a cached translation still differs from the tables only for a page whose flush
\* some thread has still to do.
TlbCoherent ==
  \A v \in Watched : tlb[v] # NoEntry /\ tlb[v] # Walk(mem, v) => \E t \in Threads : pc[t] = v

\* The tables form a tree: every page that went from the pool to the tables is
\* referred to by exactly one entry, so no write to one address changes another.
Tree ==
  pml4 # 0 =>
    LET Refs(tables) == {<<p, i>> \in tables \X Idx : Present(mem[p][i]) /\ ~Huge(mem[p][i])}
        Below(tables) == {mem[r[1]][r[2]].addr : r \in Refs(tables)}
        pdpts == Below({pml4})
        pds == Below(pdpts)
        pts == Below(pds)
        all == {pml4} \cup pdpts \cup pds \cup pts
    IN  /\ all \cap (free \cup Frames) = {}
        /\ Cardinality(all) = 1 + Cardinality(Refs({pml4} \cup pdpts \cup pds))

\* A call changes the translation of its own page and of no other one.
ChangesOnePage ==
  boot = <<>> => Cardinality({v \in Virts : Walk(mem, v)' # Walk(mem, v)}) <= 1

\* No step of a thread changes two translations.
OnlyItsPage == [][ChangesOnePage]_vars

\* "Guard page: unmap bottom page of stack to catch overflow via #PF" (task_create,
\* whose stacks lie in the direct map): a page that a thread gave to vmm_unmap_page
\* has no translation until it is mapped again.
GuardsHold == \A v \in guards \cap Targets : Walk(mem, v) = NoEntry
=============================================================================
