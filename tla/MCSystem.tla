------------------------------ MODULE MCSystem ------------------------------
(***************************************************************************)
(* Memory, timers, devices, files and libraries, one of them per           *)
(* behaviour: `part` is chosen at the start and says which.  The parts     *)
(* share v1 to v17, each under its own names; what a part does not use     *)
(* stays 0.                                                                *)
(***************************************************************************)
EXTENDS Integers, Sequences

CONSTANT NoDisk    \* a model value: no boot module

VARIABLES part, v1, v2, v3, v4, v5, v6, v7, v8, v9, v10, v11, v12, v13, v14, v15, v16, v17

From14 == <<v14, v15, v16, v17>>
From10 == <<v10, v11, v12, v13, From14>>
From9 == <<v9, From10>>
From8 == <<v8, From9>>
From7 == <<v7, From8>>
From6 == <<v6, From7>>
From5 == <<v5, From6>>
From3 == <<v3, v4, From5>>
vars == <<part, v1, v2, From3>>

-----------------------------------------------------------------------------
(* Memory.                                                                 *)

Region(b, l, t) == [base |-> b, length |-> l, type |-> t]

Pmm == INSTANCE Pmm WITH
  PMM_MAX_ORDER <- 2, PAGE_SIZE <- 4, SIZEOF_PAGE <- 1, MaxRef <- 2,
  MemMaps <- {<<Region(0, 8, "reserved"), Region(8, 9, "usable"), Region(17, 3, "reserved"),
                Region(20, 24, "usable")>>,
              <<Region(5, 10, "usable"), Region(17, 23, "usable"), Region(40, 16, "reserved")>>},
  memmap <- v1, pmm <- v2, feed <- v3, held <- v4

Heap == INSTANCE Kmalloc WITH
  Threads <- {"a", "b"}, AllPages <- {2, 3, 4}, PAGE_SIZE <- 64, HEADER_SIZE <- 32,
  SLAB_MIN_SIZE <- 16, SLAB_NUM_CLASSES <- 2, QUARANTINE_SIZE <- 1, PMM_MAX_ORDER <- 1,
  Sizes <- {16, 20, 60}, MaxLive <- 2,
  free <- v1, held <- v2, slabs <- v3, slab <- v4, quarantine <- v5, poisoned <- v6,
  live <- v7, pc <- v8

Vmm == INSTANCE Vmm WITH
  Fan <- 4, PhysPages <- 1 .. 31,
  MemMap <- <<Region(0, 1, "reserved"), Region(1, 6, "kernel"), Region(7, 12, "usable"),
              Region(19, 7, "usable"), Region(26, 3, "framebuffer"), Region(29, 3, "reserved")>>,
  KernelBase <- 1, Sections <- <<"text", "gap", "rodata", "data", "bss", "gap">>,
  StackPages <- 2, BootGuard <- <<0, 1, 1, 1>>,
  Targets <- {<<1, 0, 0, 1>>, <<1, 0, 0, 3>>, <<1, 0, 2, 0>>, <<0, 1, 1, 2>>}, Frames <- {22},
  Watched <- {<<1, 0, 0, 1>>, <<2, 0, 0, 1>>},
  pml4 <- v1, mem <- v2, free <- v3, cr3 <- v4, vmm_wx_enforced <- v5, boot <- v6,
  pc <- v7, tlb <- v8, guards <- v9

Vma == INSTANCE Vma WITH
  PoolSize <- 3, Addrs <- 0 .. 3, Types <- {"text", "guard"}, Perms <- {"R"},
  regions <- v1, count <- v2, vma_pool_used <- v3, added <- v4

Pressure == INSTANCE MemPressure WITH
  Total <- 8, Orders <- {1, 2, 4}, MAX_PRESSURE_CALLBACKS <- 2,
  MEM_THRESHOLD_WARNING <- 75, MEM_THRESHOLD_CRITICAL <- 25,
  used_pages <- v1, callback_count <- v2, last_level <- v3, told <- v4, pc <- v5, seen <- v6

-----------------------------------------------------------------------------
(* Timers and start-up.                                                    *)

Wheel == INSTANCE KTimer WITH
  Timers <- {"a", "b"}, NoTimer <- "none", TIMER_WHEEL_SIZE <- 4, Delays <- {9, 40, 50},
  CallbackOnSelf <- FALSE,
  now <- v1, timer_wheel <- v2, left <- v3, interval <- v4, active <- v5,
  active_timers <- v6, walk <- v7

Pit == INSTANCE Pit WITH
  MAX_TIMER_CALLBACKS <- 2, Intervals <- {0, 1, 3},
  channel0 <- v1, irq0 <- v2, pit_oneshot_mode <- v3, running <- v4, pc <- v5,
  timer_cbs <- v6, timer_cb_count <- v7, filling <- v8

Lapic == INSTANCE Lapic WITH
  Rates <- {2, 4}, Frequencies <- {4, 9}, PER_SEC <- 2, WORD <- 16, PIT_TIMEOUT <- 4,
  FALLBACK <- 2, MaxDelay <- 1,
  rate <- v1, pit_works <- v2, tpr <- v3, svr <- v4, lint0 <- v5, timer_lvt <- v6,
  initial <- v7, current <- v8, irr <- v9, isr <- v10, pc <- v11, pit_timeout <- v12,
  pit <- v13, lapic_enabled <- v14, lapic_ticks_per_sec <- v15, lapic_timer_ticks <- v16,
  late <- v17

Boot == INSTANCE Boot WITH step <- v1, ready <- v2, irqs <- v3, fault <- v4

-----------------------------------------------------------------------------
(* Devices and files.                                                      *)

Pci == INSTANCE Pci WITH
  Buses <- 2, Devs <- 2, Funcs <- 3, Timeout <- 2,
  Configs <- {{<<0, 0, 0>>, <<0, 0, 2>>, <<1, 1, 0>>}, {<<0, 0, 2>>}, {<<1, 1, 0>>},
              {<<0, 1, 1>>, <<1, 0, 0>>, <<1, 0, 1>>, <<0, 0, 2>>, <<1, 1, 0>>}},
  Multis <- {{}, {<<0, 0>>}, {<<0, 0>>, <<1, 0>>}},
  config <- v1, listing <- v2, scan <- v3, hc <- v4, pc <- v5, timeout <- v6

Kb == INSTANCE Kb WITH
  Letters <- {"a"}, Blanks <- {"f1"}, KB_BUF_SIZE <- 3, MaxHeld <- 2,
  down <- v1, shift_held <- v2, caps_on <- v3, kb_buffer <- v4, kb_head <- v5,
  kb_tail <- v6, reader <- v7, accepted <- v8

Console == INSTANCE Console WITH
  Writers <- {"a"}, cols <- 2, fb_height <- 5, FONT_H <- 2, TAB <- 2, MaxParam <- 31,
  MaxLines <- 4,
  Chars <- {"[", "m", "1", "3", "newline", "return", "backspace", "tab", "esc", " "},
  fb <- v1, cursor_x <- v2, cursor_y <- v3, fg_color <- v4, ansi_state <- v5,
  ansi_param <- v6, pc <- v7, outside <- v8, doc <- v9

Vfs == INSTANCE Vfs WITH
  Threads <- {"a", "b"}, Devices <- <<"serial", "null">>,
  Ops <- [serial |-> {"open", "read", "write"}, null |-> {"read", "write"}],
  VFS_MAX_DEVICES <- 3, VFS_MAX_FDS <- 3, ID_POOL_BITS <- 5,
  devices <- v1, device_count <- v2, writer <- v3, fd_table <- v4, fd_pool <- v5, pc <- v6,
  owned <- v7

\* A boot module: its size, and what its superblock and group descriptors say.
Disk(sz, magic, l, rev, is, bc, bpg, ic, ipg, tables) ==
  [size |-> sz, magic |-> magic, log_block_size |-> l, rev_level |-> rev, inode_size |-> is,
   blocks_count |-> bc, blocks_per_group |-> bpg, inodes_count |-> ic,
   inodes_per_group |-> ipg, inode_table |-> tables]

Blocks(first, second, third) == {<<a, b, c>> : a \in first, b \in second, c \in third}

Ext2 == INSTANCE Ext2 WITH
  Disks <- {NoDisk, Disk(20, TRUE, 0, 1, 2, 10, 6, 5, 3, <<3, 8>>),
            Disk(17, TRUE, 1, 0, 0, 4, 4, 3, 3, <<2>>),
            Disk(20, FALSE, 0, 1, 2, 10, 6, 5, 3, <<3, 8>>),
            Disk(2, TRUE, 0, 1, 2, 10, 6, 5, 3, <<3, 8>>),
            Disk(5, TRUE, 0, 1, 2, 10, 6, 5, 3, <<3, 8>>)},
  SUPERBLOCK_END <- 3, BLOCK_1K <- 2, SIZEOF_INODE <- 1, EXT2_NDIR_BLOCKS <- 3, WRAP <- 64,
  Inodes <- [mode : {"regular"}, size : {1, 4, 8}, i_block : Blocks({0, 4}, {0, 5, 50}, {0, 7})]
              \cup [mode : {"directory"}, size : {2, 4, 6},
                    i_block : Blocks({0, 4}, {0, 5, 50}, {0, 3})],
  Offsets <- {0, 1, 3, 6}, Counts <- {1, 2, 5, 9},
  Entries <- [rec_len : 0 .. 3, inode : {0, 2}, name_len : {0, 1}],
  rd <- v1, fs <- v2, devices <- v3, call <- v4, out <- v5

-----------------------------------------------------------------------------
(* Libraries.                                                              *)

Ring == INSTANCE RingBuf WITH
  Size <- 4, INDICES <- 8, Counts <- {1, 2, 3, 5},
  ring <- v1, writing <- v2, stored <- v3, reading <- v4, taken <- v5, next_in <- v6,
  next_out <- v7

Klog == INSTANCE Klog WITH
  Size <- 4, INDICES <- 16, Chars <- {1, 2}, klog_ring <- v1, newest <- v2

Kprintf == INSTANCE Kprintf WITH
  INT <- 16, LONG <- 256, Words <- {0, 7, 8, 100, 128, 255}, Sizes <- {0, 1, 4},
  MaxSize <- 12,
  Directives <- [flag : {<<>>, <<"-">>, <<"0">>}, width : {<<>>, <<"4">>},
                 length : {<<>>, <<"l">>}, spec : {"d", "u", "x", "X", "s", "p", "c", "%", "q"}],
  to <- v1, dir <- v2, arg <- v3, fmt <- v4, at <- v5, left_align <- v6, pad <- v7,
  width <- v8, is_long <- v9, out <- v10, buf <- v11, size <- v12, pos <- v13

Rate == INSTANCE RateLimit WITH
  interval_ticks <- 2, burst <- 1, MaxTick <- 6, MaxAsked <- 5,
  now <- v1, count <- v2, last_tick <- v3, asked <- v4, reported <- v5

String == INSTANCE String WITH Size <- 4, Word <- 2, Chars <- {0, 1, 2}, mem <- v1, call <- v2

-----------------------------------------------------------------------------
Off14 == v14 = 0 /\ v15 = 0 /\ v16 = 0 /\ v17 = 0
Off10 == v10 = 0 /\ v11 = 0 /\ v12 = 0 /\ v13 = 0 /\ Off14
Off9 == v9 = 0 /\ Off10
Off8 == v8 = 0 /\ Off9
Off7 == v7 = 0 /\ Off8
Off6 == v6 = 0 /\ Off7
Off5 == v5 = 0 /\ Off6
Off3 == v3 = 0 /\ v4 = 0 /\ Off5

Init ==
  \/ part = "pmm" /\ Pmm!Init /\ Off5
  \/ part = "kmalloc" /\ Heap!Init /\ Off9
  \/ part = "vmm" /\ Vmm!Init /\ Off10
  \/ part = "vma" /\ Vma!Init /\ Off5
  \/ part = "mempressure" /\ Pressure!Init /\ Off7
  \/ part = "ktimer" /\ Wheel!Init /\ Off8
  \/ part = "pit" /\ Pit!Init /\ Off9
  \/ part = "lapic" /\ Lapic!Init
  \/ part = "boot" /\ Boot!Init /\ Off5
  \/ part = "pci" /\ Pci!Init /\ Off7
  \/ part = "kb" /\ Kb!Init /\ Off9
  \/ part = "console" /\ Console!Init /\ Off10
  \/ part = "vfs" /\ Vfs!Init /\ Off8
  \/ part = "ext2" /\ Ext2!Init /\ Off6
  \/ part = "ringbuf" /\ Ring!Init /\ Off8
  \/ part = "klog" /\ Klog!Init /\ Off3
  \/ part = "kprintf" /\ Kprintf!Init /\ Off14
  \/ part = "ratelimit" /\ Rate!Init /\ Off6
  \/ part = "string" /\ String!Init /\ Off3

Next ==
  /\ \/ part = "pmm" /\ Pmm!Next /\ UNCHANGED From5
     \/ part = "kmalloc" /\ Heap!Next /\ UNCHANGED From9
     \/ part = "vmm" /\ Vmm!Next /\ UNCHANGED From10
     \/ part = "vma" /\ Vma!Next /\ UNCHANGED From5
     \/ part = "mempressure" /\ Pressure!Next /\ UNCHANGED From7
     \/ part = "ktimer" /\ Wheel!Next /\ UNCHANGED From8
     \/ part = "pit" /\ Pit!Next /\ UNCHANGED From9
     \/ part = "lapic" /\ Lapic!Next
     \/ part = "boot" /\ Boot!Next /\ UNCHANGED From5
     \/ part = "pci" /\ Pci!Next /\ UNCHANGED From7
     \/ part = "kb" /\ Kb!Next /\ UNCHANGED From9
     \/ part = "console" /\ Console!Next /\ UNCHANGED From10
     \/ part = "vfs" /\ Vfs!Next /\ UNCHANGED From8
     \/ part = "ext2" /\ Ext2!Next /\ UNCHANGED From6
     \/ part = "ringbuf" /\ Ring!Next /\ UNCHANGED From8
     \/ part = "klog" /\ Klog!Next /\ UNCHANGED From3
     \/ part = "kprintf" /\ Kprintf!Next /\ UNCHANGED From14
     \/ part = "ratelimit" /\ Rate!Next /\ UNCHANGED From6
     \/ part = "string" /\ String!Next /\ UNCHANGED From3
  /\ UNCHANGED part

Spec == Init /\ [][Next]_vars

-----------------------------------------------------------------------------
\* The variables of every part have their types; indices and counters in range.
TypeOK ==
  CASE part = "pmm" -> Pmm!TypeOK
    [] part = "kmalloc" -> Heap!TypeOK
    [] part = "vmm" -> Vmm!TypeOK
    [] part = "vma" -> Vma!TypeOK
    [] part = "mempressure" -> Pressure!TypeOK
    [] part = "ktimer" -> Wheel!TypeOK
    [] part = "pit" -> Pit!TypeOK
    [] part = "kb" -> Kb!TypeOK
    [] part = "vfs" -> Vfs!TypeOK
    [] part = "ext2" -> Ext2!TypeOK
    [] part = "ringbuf" -> Ring!TypeOK
    [] OTHER -> TRUE

\* Every page and every slot is in exactly one place, and the counters count: blocks
\* of the page allocator are aligned and disjoint, all that was fed and nothing of the
\* page array; slots of the heap are in use, quarantined, on their way or free.
Accounted ==
  CASE part = "pmm" -> Pmm!BlocksPartition /\ Pmm!CountersExact /\ Pmm!ArrayKept
    [] part = "kmalloc" -> Heap!SlotsAccounted /\ Heap!PagesAccounted
    [] OTHER -> TRUE

\* Page allocator: the flags tell the coalescing loop the truth about every buddy it
\* asks for, and no merge is missed: an allocation fails only if no run is free.
CoalescingExact == part = "pmm" => Pmm!BuddyTestExact /\ Pmm!AllocTotal

\* Heap: objects have room for what was asked for, after krealloc too, and a freed
\* slot keeps the poison by which kfree knows it until it is given out again.
ObjectsSound == part = "kmalloc" => Heap!ObjectsFit /\ Heap!FreedIsPoisoned

\* Page tables: once enforced, no page is writable and executable.
WriteXorExecute == part = "vmm" => Vmm!WriteXorExecute

\* Page tables: a stale translation is one some thread has still to flush.
TlbCoherent == part = "vmm" => Vmm!TlbCoherent

\* Page tables: the tables form a tree, apart from free and mapped frames; the running
\* image stays mapped, and the direct map reaches every region the kernel needs.
TablesSound == part = "vmm" => Vmm!Tree /\ Vmm!ImageStays /\ Vmm!DirectMapComplete

\* Regions: the list holds exactly those added and not removed, vma_find misses none
\* that holds the address, and the lowest and oldest one decides on an access.
RegionsRight == part = "vma" => Vma!RegionsKept /\ Vma!FindComplete /\ Vma!AccessDecided

\* Memory pressure: the level found is within those there really were, and between
\* checks all callbacks know the same one.
PressureTold == part = "mempressure" => Pressure!LevelReal /\ Pressure!CallbacksInStep

\* Timers: one in the wheel is linked exactly while active, in the slot of its tick,
\* and is never overdue; the PIT's flag says what its counter does, and callbacks that
\* are counted are complete; the local APIC's rate is right up to the delays, and two
\* ticks at most come after a stop.
TimersRight ==
  CASE part = "ktimer" -> Wheel!WheelExact /\ Wheel!OnTime
    [] part = "pit" -> Pit!FlagTruthful /\ Pit!CallbacksReady
    [] part = "lapic" -> Lapic!RateMeasured /\ Lapic!StopsSoon
    [] OTHER -> TRUE

\* Start-up: no interrupt and no step relies on a part that comes later.
BootInOrder == part = "boot" => Boot!BootInOrder

\* The PCI scan is complete and its search finds the first visible match; ports of the
\* xHCI are read only after a complete reset of a halted controller; and the screen
\* shows the last lines written, drawn inside the framebuffer.
DevicesRight ==
  CASE part = "pci" -> Pci!FindsFirst /\ Pci!ResetComplete
    [] part = "console" -> Console!ScreenIsTail /\ Console!DrawnInside
    [] OTHER -> TRUE

\* What comes out is what went in, in order: characters of the keyboard, shifted only
\* while a shift key is down, bytes of a ring, and the newest ones of the log.
StreamsInOrder ==
  CASE part = "kb" -> Kb!TypedInOrder /\ Kb!ShiftIsDown
    [] part = "ringbuf" -> Ring!BytesInOrder
    [] part = "klog" -> Klog!DumpIsNewest
    [] OTHER -> TRUE

\* VFS: a descriptor is its owner's and stays usable, refcount counts those in use, and
\* a slot not in use can be had by the next open.
DescriptorsRight == part = "vfs" => Vfs!OwnedUsable /\ Vfs!RefcountExact /\ Vfs!SlotsNotLost

\* ext2 and RAM disk: a read returns the bytes there are, every inode has its own place,
\* and directory entries are listed once, in order, inside their block.
FilesRead ==
  part = "ext2" => Ext2!ReadsTheFile /\ Ext2!DiskRead /\ Ext2!InodesFound /\ Ext2!ListedInOrder

\* Printed numbers read back as the argument, a buffer holds a terminated prefix and
\* nothing beyond it is touched; the rate limiter lets at most two bursts through in an
\* interval and reports what it refused.
OutputRight ==
  CASE part = "kprintf" -> Kprintf!ReadsBack /\ Kprintf!Truncated
    [] part = "ratelimit" -> Rate!RateBounded /\ Rate!NoneForgotten
    [] OTHER -> TRUE

\* string.c: blocks and strings are moved, compared and searched as asked for, and no
\* other byte is written.
StringsRight ==
  part = "string" =>
    String!BlocksRight /\ String!ComparesRight /\ String!CopiesRight /\ String!FindsRight

-----------------------------------------------------------------------------
\* The pool of pages is kept to from both sides: the page allocator implements it, and
\* the heap takes and gives back pages only as it allows.
PoolKept ==
  /\ part = "pmm" => Pmm!Pool!Init
  /\ [][CASE part = "pmm" -> Pmm!Pool!Next \/ Pmm!SamePool
          [] part = "kmalloc" -> Heap!Pool!Next \/ UNCHANGED <<v1, v2>>
          [] OTHER -> TRUE]_vars

\* No step does what nobody asked for: a call changes the translation of no page but its
\* own, a callback hears of transitions only, no timer goes off before its tick, and the
\* timer interrupt never cuts into the programming of the PIT.
NothingUnasked ==
  [][CASE part = "vmm" -> Vmm!ChangesOnePage
       [] part = "mempressure" -> Pressure!TellsNew
       [] part = "ktimer" -> Wheel!FiresDue
       [] part = "pit" -> Pit!Untorn
       [] OTHER -> TRUE]_vars
=============================================================================
