-------------------------------- MODULE Ext2 -------------------------------
(***************************************************************************)
(* The ram disk and the read-only ext2 file system on it: kernel/ramdisk.c *)
(* and kernel/ext2.c.  A disk is its size, its superblock and where the    *)
(* inode table of each group starts; what a block holds is chosen when it  *)
(* is read.  Reading a file and listing a directory take one step for each *)
(* turn of their loops.                                                    *)
(***************************************************************************)
EXTENDS Integers, Sequences

CONSTANTS
  Disks,              \* the boot modules, NoDisk for none
  NoDisk,
  SUPERBLOCK_END,     \* EXT2_SUPERBLOCK_OFFSET + sizeof(struct ext2_superblock)
  BLOCK_1K,           \* the least block size, 1024
  SIZEOF_INODE,       \* sizeof(struct ext2_inode), 128
  EXT2_NDIR_BLOCKS,
  WRAP,               \* 2^64
  Inodes,             \* file and directory inodes found on the disk
  Offsets, Counts,    \* arguments of reads
  Entries             \* directory entries: rec_len, inode, name_len

VARIABLES
  rd,                 \* the ram disk: the disk, or NoDisk if none is loaded
  fs,                 \* the mounted file system
  devices,            \* names registered with the VFS
  call,               \* the loop that is running: its arguments and its locals
  out                 \* what it has produced: the bytes of buf, or the entries called back

vars == <<rd, fs, devices, call, out>>

NotMounted == [mounted |-> FALSE]
Idle == [op |-> "none", at |-> "end", ret |-> 0]
Least(a, b) == IF a < b THEN a ELSE b
EIO == -5
EINVAL == -22

Init ==
  /\ rd = NoDisk /\ fs = NotMounted /\ devices = <<>>
  /\ call = Idle /\ out = <<>>

-----------------------------------------------------------------------------
(* ext2_init, and ramdisk_init which calls it.                             *)

ext2_block_ptr(f, b) == IF (b + 1) * f.block_size > f.disk_size THEN -1 ELSE b * f.block_size

\* The file system fs describes for a disk: only what later calls read of it.
FsOf(disk) ==
  LET bs == BLOCK_1K * 2 ^ disk.log_block_size IN
    [mounted |-> TRUE, disk_size |-> disk.size, block_size |-> bs,
     inode_size |-> IF disk.rev_level >= 1 /\ disk.inode_size > 0 THEN disk.inode_size
                    ELSE SIZEOF_INODE,
     groups_count |-> (disk.blocks_count + disk.blocks_per_group - 1) \div disk.blocks_per_group,
     gdt |-> IF bs = BLOCK_1K THEN 2 ELSE 1,
     inodes_count |-> disk.inodes_count, inodes_per_group |-> disk.inodes_per_group,
     inode_table |-> disk.inode_table]

ext2_init(disk) ==
  IF disk.size < SUPERBLOCK_END \/ ~disk.magic \/ ext2_block_ptr(FsOf(disk), FsOf(disk).gdt) = -1
  THEN NotMounted ELSE FsOf(disk)

ramdisk_init ==
  /\ rd = NoDisk
  /\ \E disk \in Disks \ {NoDisk} :
       /\ disk.size # 0
       /\ rd' = disk
       /\ fs' = ext2_init(disk)
       /\ devices' = IF fs'.mounted THEN <<"ramdisk", "ext2">> ELSE <<"ramdisk">>
  /\ UNCHANGED <<call, out>>

-----------------------------------------------------------------------------
(* ramdisk_read: the bytes of a disk are named by their place.             *)

\* How much of count is left of size from offset on; the sum is 64 bits wide.
Clip(offset, count, size) ==
  IF (offset + count) % WRAP > size THEN size - offset ELSE count

ramdisk_read(offset, count) ==
  /\ call.op = "none" /\ rd # NoDisk
  /\ LET n == IF offset >= rd.size THEN 0 ELSE Clip(offset, count, rd.size) IN
       /\ out' = [i \in 1 .. n |-> offset + i - 1]
       /\ call' = [op |-> "ramdisk", at |-> "end", offset |-> offset, count |-> count, ret |-> n]
  /\ UNCHANGED <<rd, fs, devices>>

-----------------------------------------------------------------------------
(* ext2_read_inode gives the place of an inode on the disk, or an error.   *)

read_inode(f, ino) ==
  IF ino = 0 \/ ino > f.inodes_count THEN EINVAL
  ELSE LET group == (ino - 1) \div f.inodes_per_group
           at == f.inode_table[group + 1] * f.block_size
                 + ((ino - 1) % f.inodes_per_group) * f.inode_size
       IN  IF group >= f.groups_count THEN EINVAL
           ELSE IF at + SIZEOF_INODE > f.disk_size THEN EIO ELSE at

-----------------------------------------------------------------------------
(* ext2_read_file.                                                         *)

Return(r) == call' = [call EXCEPT !.at = "end", !.ret = r]

CallReadFile(inode, offset, count) ==
  /\ call.op = "none" /\ fs.mounted
  /\ inode.mode = "regular" /\ offset < inode.size
  /\ call' = [op |-> "read_file", at |-> "block", inode |-> inode, offset |-> offset, asked |-> count,
              count |-> Clip(offset, count, inode.size), bytes_read |-> 0, ret |-> 0]
  /\ out' = <<>>
  /\ UNCHANGED <<rd, fs, devices>>

\* The byte at a place of a block of the disk; 0 in a hole.
ByteAt(block, o) == IF block = 0 THEN <<0, 0>> ELSE <<block, o>>

Chunk(pos) == Least(fs.block_size - (pos % fs.block_size), call.count - call.bytes_read)

\* As if a hole were not filled.
ReadFileBlock_NoHole ==
  /\ call.op = "read_file" /\ call.at = "block" /\ call.bytes_read < call.count
  /\ LET pos == call.offset + call.bytes_read
         index == pos \div fs.block_size
         n == Chunk(pos)
     IN  IF index >= EXT2_NDIR_BLOCKS THEN Return(call.bytes_read) /\ UNCHANGED out
         ELSE LET block == call.inode.i_block[index + 1] IN
           IF block # 0 /\ ext2_block_ptr(fs, block) = -1 THEN Return(EIO) /\ UNCHANGED out
           ELSE /\ call' = [call EXCEPT !.bytes_read = @ + n]
                /\ out' = IF block = 0 THEN out
                          ELSE out \o [i \in 1 .. n |-> ByteAt(block, (pos % fs.block_size) + i - 1)]
  /\ UNCHANGED <<rd, fs, devices>>

\* One turn: past the direct blocks the read ends short.
ReadFileBlock ==
  /\ call.op = "read_file" /\ call.at = "block" /\ call.bytes_read < call.count
  /\ LET pos == call.offset + call.bytes_read
         index == pos \div fs.block_size
         n == Chunk(pos)
     IN  IF index >= EXT2_NDIR_BLOCKS THEN Return(call.bytes_read) /\ UNCHANGED out
         ELSE LET block == call.inode.i_block[index + 1] IN
           IF block # 0 /\ ext2_block_ptr(fs, block) = -1 THEN Return(EIO) /\ UNCHANGED out
           ELSE /\ call' = [call EXCEPT !.bytes_read = @ + n]
                /\ out' = out \o [i \in 1 .. n |-> ByteAt(block, (pos % fs.block_size) + i - 1)]
  /\ UNCHANGED <<rd, fs, devices>>

ReadFileEnd ==
  /\ call.op = "read_file" /\ call.at = "block" /\ call.bytes_read >= call.count
  /\ Return(call.bytes_read)
  /\ UNCHANGED <<rd, fs, devices, out>>

-----------------------------------------------------------------------------
(* ext2_list_dir; out is the block index and offset of every entry given   *)
(* to the callback.                                                        *)

CallListDir(inode) ==
  /\ call.op = "none" /\ fs.mounted /\ inode.mode = "directory"
  /\ call' = [op |-> "list_dir", inode |-> inode, i |-> 0, at |-> "block", offset |-> 0,
              remaining |-> 0, bytes_read |-> 0, ret |-> 0]
  /\ out' = <<>>
  /\ UNCHANGED <<rd, fs, devices>>

\* The head of the loop over the blocks.
ListBlock ==
  /\ call.op = "list_dir" /\ call.at = "block"
  /\ IF call.i >= EXT2_NDIR_BLOCKS \/ call.bytes_read >= call.inode.size THEN Return(0)
     ELSE LET block == call.inode.i_block[call.i + 1] IN
       IF block = 0 THEN call' = [call EXCEPT !.i = @ + 1]
       ELSE IF ext2_block_ptr(fs, block) = -1 THEN Return(EIO)
       ELSE call' = [call EXCEPT !.at = "entry", !.offset = 0,
                       !.remaining = Least(call.inode.size - call.bytes_read, fs.block_size)]
  /\ UNCHANGED <<rd, fs, devices, out>>

EndBlock ==
  /\ call' = [call EXCEPT !.at = "block", !.i = @ + 1, !.bytes_read = @ + call.remaining]
  /\ UNCHANGED out

Damaged(e) == e.rec_len = 0 \/ e.rec_len > call.remaining - call.offset

\* The loop over the entries of a block: a damaged one ends the block.
ListEntry ==
  /\ call.op = "list_dir" /\ call.at = "entry"
  /\ IF call.offset >= call.remaining THEN EndBlock
     ELSE \E e \in Entries :
       IF Damaged(e) THEN EndBlock
       ELSE /\ out' = IF e.inode # 0 /\ e.name_len > 0
                      THEN Append(out, <<call.i, call.offset>>) ELSE out
            /\ call' = [call EXCEPT !.offset = @ + e.rec_len]
  /\ UNCHANGED <<rd, fs, devices>>

Next ==
  \/ ramdisk_init
  \/ \E offset \in Offsets, count \in Counts : ramdisk_read(offset, count)
  \/ \E inode \in Inodes, offset \in Offsets, count \in Counts : CallReadFile(inode, offset, count)
  \/ ReadFileBlock \/ ReadFileEnd
  \/ \E inode \in Inodes : CallListDir(inode)
  \/ ListBlock \/ ListEntry

Spec == Init /\ [][Next]_vars

-----------------------------------------------------------------------------
\* Every variable has its type.
TypeOK ==
  /\ rd \in Disks /\ fs.mounted \in BOOLEAN
  /\ devices \in {<<>>, <<"ramdisk">>, <<"ramdisk", "ext2">>}
  /\ call.ret \in {EIO} \cup Nat

\* ramdisk_read returns as many bytes as there are, and those the offset says.
DiskRead ==
  call.op = "ramdisk" =>
    /\ out = [i \in 1 .. call.ret |-> call.offset + i - 1]
    /\ call.ret = IF call.offset >= rd.size THEN 0 ELSE Least(call.count, rd.size - call.offset)

\* Inode k + 1 of group g is the k-th of the group's table: the numbering from 1, the
\* groups and the two inode sizes give every inode its own place.
InodesFound ==
  fs.mounted => \A g \in 0 .. fs.groups_count - 1, k \in 0 .. fs.inodes_per_group - 1 :
    LET ino == g * fs.inodes_per_group + k + 1
        at == fs.inode_table[g + 1] * fs.block_size + k * fs.inode_size
    IN  ino <= fs.inodes_count /\ at + SIZEOF_INODE <= fs.disk_size => read_inode(fs, ino) = at

\* What ext2_read_file returns is the file: the bytes from offset on, holes as zeros,
\* up to the count, the size or the last direct block; or EIO if one of these blocks
\* is not on the disk.
ReadsTheFile ==
  call.op = "read_file" /\ call.at = "end" =>
    LET end == Least(Least(call.offset + call.asked, call.inode.size),
                     EXT2_NDIR_BLOCKS * fs.block_size)
        n == IF end < call.offset THEN 0 ELSE end - call.offset
        block(p) == call.inode.i_block[p \div fs.block_size + 1]
        lost(p) == block(p) # 0 /\ ext2_block_ptr(fs, block(p)) = -1
    IN  IF \E p \in call.offset .. call.offset + n - 1 : lost(p) THEN call.ret = EIO
        ELSE /\ call.ret = n
             /\ out = [i \in 1 .. n |-> LET p == call.offset + i - 1
                                        IN  ByteAt(block(p), p % fs.block_size)]

\* The callback gets every entry at most once and in order, whatever the lengths on
\* the disk, and the walk stays in its block.
ListedInOrder ==
  call.op = "list_dir" =>
    /\ \A m, n \in DOMAIN out : m < n =>
         \/ out[m][1] < out[n][1]
         \/ out[m][1] = out[n][1] /\ out[m][2] < out[n][2]
    /\ call.offset <= call.remaining /\ call.remaining <= fs.block_size
=============================================================================
