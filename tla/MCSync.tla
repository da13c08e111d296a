------------------------------- MODULE MCSync -------------------------------
(***************************************************************************)
(* The objects threads wait on, one of them per behaviour: `part` is       *)
(* chosen at the start and says which.  The parts share v1 to v7, each     *)
(* under its own names; what a part does not use stays "none".             *)
(***************************************************************************)
EXTENDS Integers, Sequences

CONSTANTS Threads, NoTask

VARIABLES part, v1, v2, v3, v4, v5, v6, v7

v == <<v1, v2, v3, v4, v5, v6, v7>>
vars == <<part, v>>

Mq == INSTANCE MsgQueue WITH
  Data <- {"a"}, NoThread <- NoTask, MQ_CAPACITY <- 2,
  buf <- v1, head <- v2, tail <- v3, count <- v4, wq <- v5, pc <- v6, local <- v7

Sem == INSTANCE Semaphore WITH
  InitialCount <- 1, MaxCount <- 3, count <- v1, waiters <- v2, pc <- v3

Mtx == INSTANCE Mutex WITH
  Mutexes <- {"m", "n"}, BasePriority <- [a |-> 1, b |-> 2, c |-> 3], MaxHeld <- 1,
  mutex <- v1, waiters <- v2, priority <- v3, pc <- v4, wants <- v5, held <- v6

Adm == INSTANCE AdaptiveMutex WITH
  BasePriority <- [a |-> 1, b |-> 2, c |-> 3],
  locked <- v1, owner <- v2, waiters <- v3, owner_prio <- v4, priority <- v5, pc <- v6

Evt == INSTANCE KEvent WITH
  MaxSignals <- 3,
  type <- v1, signaled <- v2, waiters <- v3, pc <- v4, signals <- v5, returns <- v6

Rwl == INSTANCE RwLock WITH readers <- v1, writer <- v2, w_waiting <- v3, pc <- v4

Spn == INSTANCE Spinlock WITH
  Cpus <- Threads, TICKETS <- 5,
  next_ticket <- v1, serving_ticket <- v2, pc <- v3, ticket <- v4, arrivals <- v5, age <- v6

Wrk == INSTANCE WorkQueue WITH
  Workers <- {"idle", "init"}, Works <- {"x", "y", "z"}, NoWork <- "nothing",
  items <- v1, pending <- v2, running <- v3, requested <- v4

Init ==
  \/ part = "msgqueue" /\ Mq!Init
  \/ part = "semaphore" /\ Sem!Init /\ v4 = "none" /\ v5 = "none" /\ v6 = "none" /\ v7 = "none"
  \/ part = "mutex" /\ Mtx!Init /\ v7 = "none"
  \/ part = "adaptive" /\ Adm!Init /\ v7 = "none"
  \/ part = "kevent" /\ Evt!Init /\ v7 = "none"
  \/ part = "rwlock" /\ Rwl!Init /\ v5 = "none" /\ v6 = "none" /\ v7 = "none"
  \/ part = "spinlock" /\ Spn!Init /\ v7 = "none"
  \/ part = "workqueue" /\ Wrk!Init /\ v5 = "none" /\ v6 = "none" /\ v7 = "none"

Next ==
  /\ \/ part = "msgqueue" /\ Mq!Next
     \/ part = "semaphore" /\ Sem!Next /\ UNCHANGED <<v4, v5, v6, v7>>
     \/ part = "mutex" /\ Mtx!Next /\ UNCHANGED v7
     \/ part = "adaptive" /\ Adm!Next /\ UNCHANGED v7
     \/ part = "kevent" /\ Evt!Next /\ UNCHANGED v7
     \/ part = "rwlock" /\ Rwl!Next /\ UNCHANGED <<v5, v6, v7>>
     \/ part = "spinlock" /\ Spn!Next /\ UNCHANGED v7
     \/ part = "workqueue" /\ Wrk!Next /\ UNCHANGED <<v5, v6, v7>>
  /\ UNCHANGED part

\* What each part takes to be fair of a thread.
Goes(t) ==
  /\ \/ part = "msgqueue" /\ Mq!InCall(t)
     \/ part = "semaphore" /\ Sem!Goes(t) /\ UNCHANGED <<v4, v5, v6, v7>>
     \/ part = "mutex" /\ Mtx!Goes(t) /\ UNCHANGED v7
     \/ part = "rwlock" /\ Rwl!Goes(t) /\ UNCHANGED <<v5, v6, v7>>
     \/ part = "spinlock" /\ Spn!Goes(t) /\ UNCHANGED v7
  /\ UNCHANGED part

FairSpec == Init /\ [][Next]_vars /\ \A t \in Threads : WF_vars(Goes(t))

-----------------------------------------------------------------------------
\* The variables of every object have their types; indices and tickets in range.
TypeOK ==
  CASE part = "msgqueue" -> Mq!TypeOK
    [] part = "semaphore" -> Sem!TypeOK
    [] part = "mutex" -> Mtx!TypeOK
    [] part = "adaptive" -> Adm!TypeOK
    [] part = "kevent" -> Evt!TypeOK
    [] part = "rwlock" -> Rwl!TypeOK
    [] part = "spinlock" -> Spn!TypeOK
    [] part = "workqueue" -> Wrk!TypeOK

\* No wake-up is missing, and who sleeps is linked once, where the wake-up will look:
\* in a message queue, which wakes after its unlock, in a semaphore, and on a mutex,
\* though threads that were not woken may be faster.
NoWakeupMissing ==
  CASE part = "msgqueue" -> Mq!WaitsForItsCall /\ Mq!WakeupsSuffice
    [] part = "semaphore" -> Sem!LinkedAsleep /\ Sem!PostsSuffice
    [] part = "mutex" -> Mtx!FreeIsNoticed
    [] OTHER -> TRUE

\* The locks exclude, and what they record of their holders is true: the owner of a
\* mutex is the thread that has it, the adaptive mutex names its holder or nobody,
\* the read-write lock counts its readers and writers, and tickets are served in order.
Exclusive ==
  CASE part = "mutex" -> Mtx!OwnerHolds
    [] part = "adaptive" -> Adm!OwnerTruthful
    [] part = "rwlock" -> Rwl!Exclusion
    [] part = "spinlock" -> Spn!ServedInOrder
    [] OTHER -> TRUE

\* Mutex: a boosted thread holds a mutex that will give its priority back.
BoostGoesBack == part = "mutex" => Mtx!BoostGoesBack

\* Event: a signal of an automatic event ends one wait at most.
OneReturnPerSignal == part = "kevent" => Evt!OneReturnPerSignal

\* Deferred work: an item requested since its function was entered is queued, once.
RequestsKept == part = "workqueue" => Wrk!RequestsKept

\* Message queue: it implements a bounded first-in first-out queue.
ImplementsFifo ==
  /\ part = "msgqueue" => Mq!Fifo!Init
  /\ [][part = "msgqueue" => Mq!Fifo!Next \/ Mq!Unseen]_vars

\* A thread kept waiting by an object that could serve it: messages or room in a
\* message queue, a semaphore with units, a mutex, a ticket.
Waits(t) ==
  \/ part = "msgqueue" /\ Mq!Servable(t)
  \/ part = "semaphore" /\ Sem!Servable(t)
  \/ part = "mutex" /\ v4[t] = "asleep"
  \/ part = "spinlock" /\ v3[t] = "spin"

\* Who waits is served: nobody waits on while there are messages, room or units;
\* whoever sleeps on a mutex is woken if holders let go; who takes a ticket gets
\* the lock; and when writers wait for a read-write lock, one of them gets it.
Served ==
  /\ \A t \in Threads : Waits(t) ~> ~Waits(t)
  /\ (part = "rwlock" /\ v3 > 0) ~> (part = "rwlock" /\ v2 = 1)
=============================================================================
