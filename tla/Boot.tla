-------------------------------- MODULE Boot -------------------------------
(***************************************************************************)
(* The order of kernel start-up, _start in kernel/main.c: which parts each *)
(* step makes ready and which it relies on, and the interrupts that come   *)
(* in between once they are enabled.  After the last step comes the loop   *)
(* of init.                                                                *)
(***************************************************************************)
EXTENDS Integers, Sequences

VARIABLES
  step,      \* the next step, past Len(Steps) in the loop
  ready,     \* parts that have been initialised
  irqs,      \* interrupts that can come: none before sti
  fault      \* who relied on a part that was not ready

vars == <<step, ready, irqs, fault>>

S(call, needs, gives) == [call |-> call, needs |-> needs, gives |-> gives]

\* The calls of _start that set up a part or rely on one: up to the page tables,
FirstSteps == <<
  S("uart_init", {}, {"uart"}),
  S("gdt_init", {}, {"gdt"}),
  S("idt_init", {"gdt"}, {"idt"}),
  S("percpu_init_bsp", {}, {"percpu"}),
  S("pic_init", {}, {"pic"}),
  S("pit_init", {}, {"pit"}),
  S("pic_unmask", {"pic"}, {"irq0"}),
  S("sti", {"idt"}, {}),
  S("hhdm_offset", {}, {"hhdm"}),
  S("memmap_resp_saved", {}, {"memmap"}),
  S("pmm_init", {"memmap", "hhdm"}, {"pmm"}),
  S("vmm_init", {"pmm", "memmap", "gdt"}, {"vmm"}),
  S("vma_init_kernel", {"hhdm"}, {"vma"}),
  S("hal_init", {"pic", "pit"}, {"hal"}),
  S("cpuidle_init", {}, {"cpuidle"}),
  S("vmm_audit_wx", {"vmm"}, {}) >>

\* and the devices and services above them.
LastSteps == <<
  S("console_init", {"vmm"}, {"console"}),
  S("kb_init", {"pic"}, {"kb", "irq1"}),
  S("vfs_init", {}, {"vfs"}),
  S("devfs_init", {"vfs"}, {"devfs"}),
  S("mempressure_init", {}, {"mempressure"}),
  S("watchdog_init", {}, {"watchdog"}),
  S("lapic_init", {"vmm", "pit"}, {"lapic"}),
  S("ramdisk_init", {"vfs"}, {"ramdisk"}),
  S("xhci_init", {"vmm"}, {"xhci"}),
  S("run_all_selftests", {"pmm", "vmm", "vma", "vfs", "pit"}, {}),
  S("sched_init", {"percpu", "pmm", "vmm"}, {"sched"}),
  S("run_runtime_tests", {"sched", "pmm"}, {}) >>

\* As if interrupts were enabled as soon as there is a timer.
Steps_StiFirst == <<
  S("gdt_init", {}, {"gdt"}),
  S("idt_init", {"gdt"}, {"idt"}),
  S("pic_init", {}, {"pic"}),
  S("pit_init", {}, {"pit"}),
  S("pic_unmask", {"pic"}, {"irq0"}),
  S("sti", {"idt"}, {}),
  S("percpu_init_bsp", {}, {"percpu"}) >>

Steps == FirstSteps \o LastSteps

\* What one turn of the loop relies on: sched_reap_dead, workqueue_process_system,
\* mempressure_check, cpu_idle, kb_getchar.
LoopNeeds == {"sched", "workqueue", "mempressure", "pmm", "pit", "cpuidle", "kb"}

Init == step = 1 /\ ready = {} /\ irqs = FALSE /\ fault = "none"

Use(who, needs) == fault' = IF fault = "none" /\ ~(needs \subseteq ready) THEN who ELSE fault

Boot ==
  /\ step <= Len(Steps)
  /\ Use("step", Steps[step].needs)
  /\ ready' = ready \cup Steps[step].gives
  /\ irqs' = (irqs \/ Steps[step].call = "sti")
  /\ step' = step + 1

Loop ==
  /\ step > Len(Steps) /\ Use("loop", LoopNeeds)
  /\ UNCHANGED <<step, ready, irqs>>

\* irq_handler_c.  ktimer_tick returns unless its wheel is set up, sched_tick and
\* watchdog_check unless there is a current task.
Interrupt ==
  /\ irqs
  /\ \/ "irq0" \in ready /\ Use("irq", {"gdt", "idt", "pic", "pit", "percpu"})
     \/ "irq1" \in ready /\ Use("irq", {"gdt", "idt", "pic", "kb"})
  /\ UNCHANGED <<step, ready, irqs>>

Next == Boot \/ Loop \/ Interrupt

Spec == Init /\ [][Next]_vars

-----------------------------------------------------------------------------
\* "MUST be before sti (sched_tick reads GS)": no interrupt and no step of start-up
\* relies on a part that comes later.
BootInOrder == fault \notin {"irq", "step"}

\* "Idle work: reap dead tasks, process workqueues, check memory": the loop of init
\* relies on parts that start-up has initialised.
LoopReady == fault # "loop"
=============================================================================
