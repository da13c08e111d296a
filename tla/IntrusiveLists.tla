--------------------------- MODULE IntrusiveLists ---------------------------
(***************************************************************************)
(* The doubly linked lists of kernel/list.h, as the scheduler, the wait    *)
(* queues and the timer wheel use them.  ls maps the name of each list to  *)
(* the sequence of its nodes.  A node holds one pair of links, so linking  *)
(* a node that is already linked corrupts both lists; LinkedOnce says that *)
(* it has not happened.                                                    *)
(***************************************************************************)
EXTENDS Integers, Sequences

\* The few operators on sequences that the lists need.
Elements(s) == {s[i] : i \in 1 .. Len(s)}
Distinct(s) == \A i, j \in 1 .. Len(s) : s[i] = s[j] => i = j
Without(s, k) == [i \in 1 .. Len(s) - 1 |-> IF i < k THEN s[i] ELSE s[i + 1]]
Inserted(s, k, n) ==
  [i \in 1 .. Len(s) + 1 |-> IF i < k THEN s[i] ELSE IF i = k THEN n ELSE s[i - 1]]

list_empty(ls, L) == ls[L] = <<>>

list_push_back(ls, L, n) == [ls EXCEPT ![L] = Append(@, n)]

\* Insertion before the node at position i, as deadline_enqueue writes it out.
list_insert(ls, L, i, n) == [ls EXCEPT ![L] = Inserted(@, i, n)]

\* list_remove_node of the node at position i of L.
list_remove(ls, L, i) == [ls EXCEPT ![L] = Without(@, i)]

Nodes(ls, L) == Elements(ls[L])

\* A node is linked at most once over all the lists.
LinkedOnce(ls) ==
  /\ \A L \in DOMAIN ls : Distinct(ls[L])
  /\ \A L, M \in DOMAIN ls : L # M => Nodes(ls, L) \cap Nodes(ls, M) = {}
=============================================================================
