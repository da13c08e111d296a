--------------------------------- MODULE Pci -------------------------------
(***************************************************************************)
(* The PCI scans of kernel/pci.c and the start of the USB controller        *)
(* found, kernel/xhci.c.  A scan takes one step for each function it       *)
(* reads, a poll of xhci_reset one step for each read of a register.       *)
(***************************************************************************)
EXTENDS Integers

CONSTANTS
  Buses, Devs, Funcs,     \* numbers of buses, devices and functions, all from 0
  Configs,                \* the functions present, as sets of <<bus, dev, func>>
  Multis,                 \* devices with the multi-function bit
  Timeout                 \* reads before a poll gives up

VARIABLES
  config,                 \* functions present, those searched for, the controller's BAR0
  listing, scan,          \* pci_enumerate and pci_find_device: place, result, end
  hc,                     \* registers of the controller
  pc, timeout             \* xhci_init

vars == <<config, listing, scan, hc, pc, timeout>>

Nowhere == <<-1, -1, -1>>

\* The firmware may have left the controller running.
Init ==
  /\ config \in {[present |-> c, class |-> k, multi |-> m, bar |-> b] :
                   c \in Configs, k \in {{}} \cup Configs, m \in Multis,
                   b \in {"mmio", "io", "null"}}
  /\ config.class \subseteq config.present
  /\ listing = [at |-> <<0, 0, 0>>, seen |-> {}, over |-> FALSE]
  /\ scan = [at |-> <<0, 0, 0>>, found |-> Nowhere, over |-> FALSE]
  /\ \E r \in BOOLEAN :
       hc = [run |-> r, halted |-> ~r, reset |-> FALSE, ready |-> TRUE, torn |-> FALSE]
  /\ pc = "list" /\ timeout = 0

-----------------------------------------------------------------------------
(* pci_enumerate, and pci_find_device which stops at the first match.      *)

\* The loops: the next function, or the next device if this one has no more.
After(p, last) ==
  IF p[3] + 1 < Funcs /\ ~last THEN <<p[1], p[2], p[3] + 1>>
  ELSE IF p[2] + 1 < Devs THEN <<p[1], p[2] + 1, 0>>
  ELSE <<p[1] + 1, 0, 0>>

\* Does a device end here: no function 0, or function 0 without the bit.
LastOf(p) ==
  /\ p[3] = 0
  /\ p \notin config.present \/ <<p[1], p[2]>> \notin config.multi

pci_enumerate ==
  /\ pc = "list"
  /\ LET p == listing.at IN
       IF p[1] >= Buses THEN pc' = "find" /\ listing' = [listing EXCEPT !.over = TRUE]
       ELSE /\ listing' = [listing EXCEPT
                 !.at = After(p, LastOf(p)),
                 !.seen = IF p \in config.present THEN @ \cup {p} ELSE @]
            /\ UNCHANGED pc
  /\ UNCHANGED <<config, scan, hc, timeout>>

pci_find_device ==
  /\ pc = "find"
  /\ LET p == scan.at IN
       IF p[1] >= Buses THEN pc' = "found" /\ scan' = [scan EXCEPT !.over = TRUE]
       ELSE IF p \in config.present \cap config.class
       THEN pc' = "found" /\ scan' = [scan EXCEPT !.found = p, !.over = TRUE]
       ELSE UNCHANGED pc /\ scan' = [scan EXCEPT !.at = After(p, LastOf(p))]
  /\ UNCHANGED <<config, listing, hc, timeout>>

-----------------------------------------------------------------------------
(* xhci_reset, with the controller: it halts some time after its run bit   *)
(* is cleared, ends its reset and becomes ready some time later, or never. *)

Controller ==
  /\ pc \notin {"list", "find", "found", "end"}
  /\ \/ ~hc.run /\ ~hc.halted /\ hc' = [hc EXCEPT !.halted = TRUE]
     \/ hc.reset /\ hc' = [hc EXCEPT !.reset = FALSE]
     \/ ~hc.reset /\ ~hc.ready /\ hc' = [hc EXCEPT !.ready = TRUE]
  /\ UNCHANGED <<config, listing, scan, pc, timeout>>

xhci_init ==
  /\ pc = "found"
  /\ IF scan.found = Nowhere \/ config.bar # "mmio" THEN pc' = "end" /\ UNCHANGED <<hc, timeout>>
     ELSE /\ pc' = "halt" /\ timeout' = Timeout
          /\ hc' = [hc EXCEPT !.run = FALSE]
  /\ UNCHANGED <<config, listing, scan>>

\* while (!done && --timeout > 0); if (timeout == 0) return -1;
Poll(at, done, next) ==
  /\ pc = at
  /\ IF done THEN pc' = next /\ timeout' = Timeout
     ELSE IF timeout - 1 > 0 THEN timeout' = timeout - 1 /\ UNCHANGED pc
     ELSE pc' = "failed" /\ timeout' = 0

AwaitHalt == Poll("halt", hc.halted, "command") /\ UNCHANGED <<config, listing, scan, hc>>

\* A reset of a controller that runs is undefined.
Reset ==
  /\ pc = "command" /\ pc' = "reset"
  /\ hc' = [hc EXCEPT !.reset = TRUE, !.ready = FALSE, !.torn = ~hc.halted]
  /\ UNCHANGED <<config, listing, scan, timeout>>

AwaitReset == Poll("reset", ~hc.reset, "ready") /\ UNCHANGED <<config, listing, scan, hc>>

AwaitReady == Poll("ready", hc.ready, "ports") /\ UNCHANGED <<config, listing, scan, hc>>

\* xhci_enumerate_ports reads the ports and changes nothing; a failed reset ends too.
xhci_enumerate_ports ==
  /\ pc \in {"ports", "failed"} /\ pc' = "end"
  /\ UNCHANGED <<config, listing, scan, hc, timeout>>

Next ==
  \/ pci_enumerate \/ pci_find_device \/ xhci_init \/ AwaitHalt \/ Reset \/ AwaitReset \/ AwaitReady
  \/ xhci_enumerate_ports \/ Controller

Spec == Init /\ [][Next]_vars

-----------------------------------------------------------------------------
\* The functions of a device that count: its function 0, and the others if function 0
\* says there are any.
Visible(p) ==
  /\ p \in config.present
  /\ <<p[1], p[2], 0>> \in config.present
  /\ p[3] = 0 \/ <<p[1], p[2]>> \in config.multi

Number(p) == (p[1] * Devs + p[2]) * Funcs + p[3]

\* The list has the visible functions and the search ends at the first of them that
\* is of the class, or at none if there is none: a gap between two functions hides
\* nothing, and a single-function device does not show up again.
FindsFirst ==
  LET hits == {p \in config.class : Visible(p)} IN
    /\ listing.over => listing.seen = {p \in config.present : Visible(p)}
    /\ scan.over => IF hits = {} THEN scan.found = Nowhere
                    ELSE /\ scan.found \in hits
                         /\ \A p \in hits : Number(scan.found) <= Number(p)

\* Ports are read only of a controller that was reset while it stood still, has ended
\* its reset and is ready; a timeout in any of the polls ends in failure.
ResetComplete ==
  ~hc.torn /\ (pc = "ports" => hc.halted /\ ~hc.reset /\ hc.ready /\ timeout > 0)
=============================================================================
