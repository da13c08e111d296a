----------------------------- MODULE Spinlock ------------------------------
(***************************************************************************)
(* The ticket lock of kernel/spinlock.h, with tickets of bounded width.    *)
(* spin_trylock reads one counter and then compares and exchanges the      *)
(* other: other processors may run in between.                             *)
(***************************************************************************)
EXTENDS Integers, Sequences, FiniteSets

CONSTANTS
  Cpus,
  TICKETS     \* values of a ticket: 2^16 in the code

VARIABLES
  next_ticket, serving_ticket,
  pc,         \* "out", "spin", "try" between the two accesses of trylock, "in"
  ticket,     \* my_ticket, or expected
  arrivals,   \* who has taken a ticket and not released, in that order
  age         \* tickets taken since each spin_trylock's first access

vars == <<next_ticket, serving_ticket, pc, ticket, arrivals, age>>

Points == {"out", "spin", "try", "in"}
Succ(k) == (k + 1) % TICKETS

Init ==
  /\ next_ticket = 0 /\ serving_ticket = 0
  /\ pc = [c \in Cpus |-> "out"] /\ ticket = [c \in Cpus |-> 0]
  /\ arrivals = <<>> /\ age = [c \in Cpus |-> 0]

\* Other tickets are taken between the accesses of a trylock, but not so many that
\* the counter comes round: that takes nearly TICKETS acquisitions.
InTime == \A c \in Cpus : pc[c] = "try" => age[c] < TICKETS - Cardinality(Cpus)

Take(c) ==
  /\ next_ticket' = Succ(next_ticket)
  /\ arrivals' = Append(arrivals, c)
  /\ age' = [d \in Cpus |-> IF pc[d] = "try" /\ d # c THEN age[d] + 1 ELSE 0]

spin_lock(c) ==
  \/ /\ pc[c] = "out" /\ InTime
     /\ ticket' = [ticket EXCEPT ![c] = next_ticket]
     /\ Take(c) /\ pc' = [pc EXCEPT ![c] = "spin"]
     /\ UNCHANGED serving_ticket
  \/ /\ pc[c] = "spin" /\ serving_ticket = ticket[c]
     /\ pc' = [pc EXCEPT ![c] = "in"]
     /\ UNCHANGED <<next_ticket, serving_ticket, ticket, arrivals, age>>

spin_unlock(c) ==
  /\ pc[c] = "in" /\ pc' = [pc EXCEPT ![c] = "out"]
  /\ serving_ticket' = Succ(serving_ticket) /\ arrivals' = Tail(arrivals)
  /\ UNCHANGED <<next_ticket, ticket, age>>

spin_trylock(c) ==
  \/ /\ pc[c] = "out"
     /\ ticket' = [ticket EXCEPT ![c] = serving_ticket]
     /\ age' = [age EXCEPT ![c] = 0] /\ pc' = [pc EXCEPT ![c] = "try"]
     /\ UNCHANGED <<next_ticket, serving_ticket, arrivals>>
  \/ /\ pc[c] = "try"
     /\ IF next_ticket = ticket[c]
        THEN InTime /\ Take(c) /\ pc' = [pc EXCEPT ![c] = "in"]
        ELSE /\ pc' = [pc EXCEPT ![c] = "out"] /\ age' = [age EXCEPT ![c] = 0]
             /\ UNCHANGED <<next_ticket, arrivals>>
     /\ UNCHANGED <<serving_ticket, ticket>>

spin_is_locked == next_ticket # serving_ticket

Next == \E c \in Cpus : spin_lock(c) \/ spin_unlock(c) \/ spin_trylock(c)

Spec == Init /\ [][Next]_vars

\* A processor that spins, or is inside the lock, goes on.
Goes(c) == (pc[c] = "spin" /\ spin_lock(c)) \/ spin_unlock(c)
FairSpec == Spec /\ \A c \in Cpus : WF_vars(Goes(c))

-----------------------------------------------------------------------------
\* Every variable has its type.
TypeOK ==
  /\ next_ticket \in 0 .. TICKETS - 1 /\ serving_ticket \in 0 .. TICKETS - 1
  /\ pc \in [Cpus -> Points] /\ ticket \in [Cpus -> 0 .. TICKETS - 1]
  /\ arrivals \in Seq(Cpus) /\ age \in [Cpus -> 0 .. TICKETS]

\* "FIFO fair: first to arrive = first to enter critical section", so there is one
\* processor inside at a time, and spin_is_locked tells whether there is any about,
\* with trylocks racing and tickets wrapping round.
ServedInOrder ==
  /\ \A c \in Cpus : pc[c] = "in" => arrivals # <<>> /\ Head(arrivals) = c
  /\ spin_is_locked <=> arrivals # <<>>

\* "This prevents starvation": who takes a ticket gets the lock.
TicketServed == \A c \in Cpus : pc[c] = "spin" ~> pc[c] = "in"
=============================================================================
