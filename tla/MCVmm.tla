------------------------------- MODULE MCVmm -------------------------------
\* The page tables of a machine with 31 pages of memory, and one thread stack in
\* the direct map, whose lowest page task_create unmaps.
EXTENDS Vmm

Region(base, length, type) == [base |-> base, length |-> length, type |-> type]

Map31 == <<Region(0, 1, "reserved"), Region(1, 6, "kernel"), Region(7, 12, "usable"),
           Region(19, 4, "usable"), Region(23, 2, "framebuffer"), Region(28, 4, "reserved")>>
Image == <<"text", "gap", "rodata", "data", "bss", "gap">>
Pages31 == 1 .. 31
FirstGuard == <<0, 1, 1, 1>>
StackBottom == {<<0, 1, 1, 2>>}
=============================================================================
