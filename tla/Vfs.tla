--------------------------------- MODULE Vfs -------------------------------
(***************************************************************************)
(* Open, close and use of devices, kernel/vfs.c, with the pool of ids of   *)
(* bitmap_alloc.h the descriptors come from.  Registration, the two locked *)
(* sections of vfs_open and that of vfs_close exclude each other;          *)
(* vfs_lookup, the device's own open and vfs_read run outside the lock.    *)
(* A thread uses and closes the descriptors it has opened.                 *)
(***************************************************************************)
EXTENDS Integers, Sequences, FiniteSetsExt

CONSTANTS
  Threads,
  Devices,          \* names, in the order devfs_init and the drivers register them
  Ops,              \* the operations each device has
  VFS_MAX_DEVICES, VFS_MAX_FDS, ID_POOL_BITS

VARIABLES
  devices,          \* name and refcount of the registered devices
  device_count,
  writer,           \* does registration hold vfs_rwlock
  fd_table, fd_pool,
  pc,               \* where each thread is in vfs_open: the device and the descriptor
  owned             \* descriptors vfs_open has returned to each thread

vars == <<devices, device_count, writer, fd_table, fd_pool, pc, owned>>

Slots == 0 .. VFS_MAX_DEVICES - 1
Fds == 0 .. VFS_MAX_FDS - 1
NoNode == -1
Out == [at |-> "out", vn |-> NoNode, fd |-> -1]

vfs_init ==
  /\ devices = [i \in Slots |-> [name |-> "", ops |-> {}, refcount |-> 0]]
  /\ device_count = 0 /\ writer = FALSE
  /\ fd_table = [fd \in Fds |-> [vnode |-> NoNode, in_use |-> FALSE]]
  /\ fd_pool = 0 .. ID_POOL_BITS - 1

Init ==
  /\ vfs_init
  /\ pc = [t \in Threads |-> Out] /\ owned = [t \in Threads |-> {}]

-----------------------------------------------------------------------------
(* vfs_register_device: the slot is counted before it is filled.           *)

RegisterCount ==
  /\ ~writer /\ device_count < VFS_MAX_DEVICES /\ device_count < Len(Devices)
  /\ writer' = TRUE /\ device_count' = device_count + 1
  /\ UNCHANGED <<devices, fd_table, fd_pool, pc, owned>>

RegisterName ==
  /\ writer /\ devices[device_count - 1].name = ""
  /\ devices' = [devices EXCEPT ![device_count - 1].name = Devices[device_count]]
  /\ UNCHANGED <<device_count, writer, fd_table, fd_pool, pc, owned>>

RegisterRest ==
  /\ writer /\ devices[device_count - 1].name # ""
  /\ devices' = [devices EXCEPT ![device_count - 1].refcount = 0,
                                ![device_count - 1].ops = Ops[Devices[device_count]]]
  /\ writer' = FALSE
  /\ UNCHANGED <<device_count, fd_table, fd_pool, pc, owned>>

-----------------------------------------------------------------------------
(* vfs_open.                                                               *)

vfs_lookup(name) == {i \in Slots : i < device_count /\ devices[i].name = name}

CallOpen(t, name) ==
  /\ pc[t] = Out /\ vfs_lookup(name) # {}
  /\ pc' = [pc EXCEPT ![t] = [at |-> "lock", vn |-> Min(vfs_lookup(name)), fd |-> -1]]
  /\ UNCHANGED <<devices, device_count, writer, fd_table, fd_pool, owned>>

id_alloc(pool) == IF pool = {} THEN -1 ELSE Min(pool)

\* The first section.  An id past the table is not given back.
OpenLocked(t) ==
  /\ pc[t].at = "lock" /\ ~writer
  /\ LET fd == id_alloc(fd_pool)
         vn == pc[t].vn
     IN  /\ fd_pool' = fd_pool \ {fd}
         /\ IF fd < 0 \/ fd >= VFS_MAX_FDS
            THEN pc' = [pc EXCEPT ![t] = Out] /\ UNCHANGED <<fd_table, devices>>
            ELSE /\ fd_table' = [fd_table EXCEPT ![fd] = [vnode |-> vn, in_use |-> TRUE]]
                 /\ devices' = [devices EXCEPT ![vn].refcount = @ + 1]
                 /\ pc' = [pc EXCEPT ![t] = [at |-> "device", vn |-> vn, fd |-> fd]]
  /\ UNCHANGED <<device_count, writer, owned>>

\* The device's open, if it has one, succeeds or fails.
DeviceOpen(t) ==
  /\ pc[t].at = "device"
  /\ \/ /\ owned' = [owned EXCEPT ![t] = @ \cup {pc[t].fd}]
        /\ pc' = [pc EXCEPT ![t] = Out]
     \/ /\ "open" \in devices[pc[t].vn].ops
        /\ pc' = [pc EXCEPT ![t].at = "undo"]
        /\ UNCHANGED owned
  /\ UNCHANGED <<devices, device_count, writer, fd_table, fd_pool>>

\* As if the id were not given back.
OpenUndo_KeepId(t) ==
  /\ pc[t].at = "undo" /\ ~writer
  /\ fd_table' = [fd_table EXCEPT ![pc[t].fd].in_use = FALSE]
  /\ devices' = [devices EXCEPT ![pc[t].vn].refcount = @ - 1]
  /\ pc' = [pc EXCEPT ![t] = Out]
  /\ UNCHANGED <<device_count, writer, fd_pool, owned>>

\* The section on the error path; the vnode stays in the table.
OpenUndo(t) ==
  /\ pc[t].at = "undo" /\ ~writer
  /\ fd_table' = [fd_table EXCEPT ![pc[t].fd].in_use = FALSE]
  /\ devices' = [devices EXCEPT ![pc[t].vn].refcount = @ - 1]
  /\ fd_pool' = fd_pool \cup {pc[t].fd}
  /\ pc' = [pc EXCEPT ![t] = Out]
  /\ UNCHANGED <<device_count, writer, owned>>

-----------------------------------------------------------------------------
vfs_close(t, fd) ==
  /\ pc[t] = Out /\ ~writer /\ fd \in owned[t]
  /\ fd_table[fd].in_use
  /\ fd_table' = [fd_table EXCEPT ![fd] = [vnode |-> NoNode, in_use |-> FALSE]]
  /\ devices' = [devices EXCEPT ![fd_table[fd].vnode].refcount = @ - 1]
  /\ fd_pool' = fd_pool \cup {fd}
  /\ owned' = [owned EXCEPT ![t] = @ \ {fd}]
  /\ UNCHANGED <<device_count, writer, pc>>

\* What vfs_read, vfs_write and vfs_ioctl return, op being the one: an error, or the
\* device whose operation is called.
Use(fd, op) ==
  IF ~fd_table[fd].in_use THEN "EBADF"
  ELSE IF fd_table[fd].vnode = NoNode THEN "fault"
  ELSE IF op \notin devices[fd_table[fd].vnode].ops THEN "ENOTSUP"
  ELSE devices[fd_table[fd].vnode].name

Next ==
  \/ RegisterCount \/ RegisterName \/ RegisterRest
  \/ \E t \in Threads :
       \/ \E name \in {Devices[i] : i \in DOMAIN Devices} : CallOpen(t, name)
       \/ OpenLocked(t) \/ DeviceOpen(t) \/ OpenUndo(t)
       \/ \E fd \in Fds : vfs_close(t, fd)

Spec == Init /\ [][Next]_vars

-----------------------------------------------------------------------------
\* Every variable has its type.
TypeOK ==
  /\ \A i \in Slots : devices[i].refcount \in Nat
  /\ device_count \in 0 .. VFS_MAX_DEVICES /\ writer \in BOOLEAN
  /\ fd_table \in [Fds -> [vnode : Slots \cup {NoNode}, in_use : BOOLEAN]]
  /\ fd_pool \subseteq 0 .. ID_POOL_BITS - 1
  /\ \A t \in Threads : pc[t].at \in {"out", "lock", "device", "undo"} /\ owned[t] \subseteq Fds

\* "Number of open fds": refcount counts the descriptors in use for the device, though
\* vfs_lookup finds a device whose registration is not over, which sets it to 0.
RefcountExact ==
  \A i \in Slots :
    devices[i].refcount = Cardinality({fd \in Fds : fd_table[fd].in_use /\ fd_table[fd].vnode = i})

\* A thread's descriptor is its own, and every operation on it reaches the device or
\* is refused because the device has no such operation; the table never lends a
\* descriptor in use, whatever opens fail meanwhile.
OwnedUsable ==
  \A t \in Threads : \A fd \in owned[t] :
    /\ \A u \in Threads \ {t} : fd \notin owned[u]
    /\ fd \notin fd_pool
    /\ \A op \in {"read", "write", "ioctl"} : Use(fd, op) \notin {"EBADF", "fault"}

\* No slot of the table is lost: one that is not in use can be had by the next open,
\* although opens of a full table leave their ids taken and others fail half way.
SlotsNotLost ==
  \A fd \in Fds : ~fd_table[fd].in_use => fd \in fd_pool /\ id_alloc(fd_pool) < VFS_MAX_FDS
=============================================================================
