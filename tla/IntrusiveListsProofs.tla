------------------------ MODULE IntrusiveListsProofs ------------------------
(***************************************************************************)
(* What linking and unlinking a node do to the nodes of every list.  The   *)
(* first lemmas are about one sequence, the others about all the lists.    *)
(***************************************************************************)
EXTENDS IntrusiveLists, WellFoundedInduction, TLAPS

\* A nonempty set of natural numbers has a least element.
LEMMA LeastNat ==
  ASSUME NEW T \in SUBSET Nat, T # {}
  PROVE  \E x \in T : \A y \in T : x <= y
<1> DEFINE R == {ss \in Nat \X Nat : ss[1] < ss[2]}
<1>1. IsWellFoundedOn(R, Nat)
  BY NatLessThanWellFounded, Zenon DEF OpToRel
<1>2. \A x, y \in Nat : <<y, x>> \in R <=> y < x
  OBVIOUS
<1> HIDE DEF R
<1>3. PICK x \in T : \A y \in T : ~(<<y, x>> \in R)
  BY <1>1, WFMin
<1>4. \A y \in T : ~(y < x)
  BY <1>2, <1>3, Zenon
<1> QED
  BY <1>4

\* The nodes of a sequence, by position.
LEMMA NodesBasics ==
  ASSUME NEW S, NEW q \in Seq(S)
  PROVE  /\ Len(q) \in Nat
         /\ \A x : x \in Elements(q) <=> \E i \in 1 .. Len(q) : q[i] = x
         /\ Distinct(q) <=> \A i, j \in 1 .. Len(q) : q[i] = q[j] => i = j
         /\ Elements(q) \subseteq S
         /\ q = <<>> <=> Elements(q) = {}
         /\ q # <<>> => Len(q) >= 1
<1>1. Len(q) \in Nat /\ DOMAIN q = 1 .. Len(q) /\ \A i \in 1 .. Len(q) : q[i] \in S
  OBVIOUS
<1>2. \A x : x \in Elements(q) <=> \E i \in 1 .. Len(q) : q[i] = x
  BY DEF Elements
<1>3. Distinct(q) <=> \A i, j \in 1 .. Len(q) : q[i] = q[j] => i = j
  BY DEF Distinct
<1>4. Elements(q) \subseteq S
  BY <1>1, <1>2
<1>5. q # <<>> => Len(q) >= 1
  BY <1>1
<1>6. q = <<>> <=> Elements(q) = {}
  <2>1. q = <<>> => Elements(q) = {}
    BY <1>2
  <2>2. q # <<>> => q[1] \in Elements(q)
    BY <1>1, <1>2, <1>5
  <2> QED
    BY <2>1, <2>2
<1> QED
  BY <1>1, <1>2, <1>3, <1>4, <1>5, <1>6

\* Append adds its node.
LEMMA AppendNodes ==
  ASSUME NEW S, NEW q \in Seq(S), NEW n \in S
  PROVE  /\ Append(q, n) \in Seq(S)
         /\ Elements(Append(q, n)) = Elements(q) \cup {n}
         /\ Distinct(q) /\ n \notin Elements(q) => Distinct(Append(q, n))
<1> DEFINE r == Append(q, n)
<1>1. /\ r \in Seq(S) /\ Len(r) = Len(q) + 1 /\ r[Len(q) + 1] = n
      /\ \A i \in 1 .. Len(q) : r[i] = q[i]
  OBVIOUS
<1> HIDE DEF r
<1>2. Elements(r) = Elements(q) \cup {n}
  <2>1. ASSUME NEW x \in Elements(r) PROVE x \in Elements(q) \cup {n}
    <3>1. PICK i \in 1 .. Len(r) : r[i] = x
      BY <1>1, <2>1, NodesBasics
    <3>2. CASE i = Len(q) + 1
      BY <3>1, <3>2, <1>1
    <3>3. CASE i \in 1 .. Len(q)
      BY <3>1, <3>3, <1>1, NodesBasics
    <3> QED
      BY <3>1, <3>2, <3>3, <1>1, NodesBasics
  <2>2. ASSUME NEW x \in Elements(q) PROVE x \in Elements(r)
    <3>1. PICK i \in 1 .. Len(q) : q[i] = x
      BY <2>2, NodesBasics
    <3>2. i \in 1 .. Len(r) /\ r[i] = x
      BY <3>1, <1>1, NodesBasics
    <3> QED
      BY <3>2, <1>1, NodesBasics
  <2>3. n \in Elements(r)
    <3>1. Len(q) + 1 \in 1 .. Len(r)
      BY <1>1, NodesBasics
    <3> QED
      BY <3>1, <1>1, NodesBasics
  <2> QED
    BY <2>1, <2>2, <2>3
<1>3. ASSUME Distinct(q), n \notin Elements(q)
      PROVE  Distinct(r)
  BY <1>1, <1>3, NodesBasics
<1> QED
  BY <1>1, <1>2, <1>3 DEF r

\* Without takes the node at its position out.
LEMMA RemoveNodes ==
  ASSUME NEW S, NEW q \in Seq(S), NEW k \in 1 .. Len(q)
  PROVE  /\ Without(q, k) \in Seq(S)
         /\ Len(Without(q, k)) = Len(q) - 1
         /\ \A i \in 1 .. Len(q) - 1 : Without(q, k)[i] = IF i < k THEN q[i] ELSE q[i + 1]
         /\ Distinct(q) => /\ Elements(Without(q, k)) = Elements(q) \ {q[k]}
                              /\ Distinct(Without(q, k))
<1> DEFINE r == Without(q, k)
<1>1. Len(q) \in Nat /\ k \in Int /\ \A i \in 1 .. Len(q) : q[i] \in S
  OBVIOUS
<1>2. r \in Seq(S) /\ Len(r) = Len(q) - 1
  BY <1>1 DEF Without
<1>3. ASSUME NEW i \in 1 .. Len(q) - 1
      PROVE  r[i] = IF i < k THEN q[i] ELSE q[i + 1]
  BY DEF Without
<1> HIDE DEF r
<1>4. ASSUME Distinct(q) PROVE Elements(r) = Elements(q) \ {q[k]}
  <2>1. ASSUME NEW x \in Elements(r) PROVE x \in Elements(q) /\ x # q[k]
    <3>1. PICK i \in 1 .. Len(r) : r[i] = x
      BY <1>2, <2>1, NodesBasics
    <3>2. PICK m \in 1 .. Len(q) : m # k /\ q[m] = x
      <4>1. CASE i < k
        BY <4>1, <3>1, <1>1, <1>2, <1>3
      <4>2. CASE ~(i < k)
        BY <4>2, <3>1, <1>1, <1>2, <1>3
      <4> QED
        BY <4>1, <4>2
    <3> QED
      BY <3>2, <1>4, NodesBasics
  <2>2. ASSUME NEW x \in Elements(q), x # q[k] PROVE x \in Elements(r)
    <3>1. PICK i \in 1 .. Len(q) : q[i] = x
      BY <2>2, NodesBasics
    <3>2. CASE i < k
      <4>1. i \in 1 .. Len(r) /\ r[i] = x
        BY <3>1, <3>2, <1>1, <1>2, <1>3
      <4> QED
        BY <4>1, <1>2, NodesBasics
    <3>3. CASE i > k
      <4>1. i - 1 \in 1 .. Len(r) /\ r[i - 1] = x
        BY <3>1, <3>3, <1>1, <1>2, <1>3
      <4> QED
        BY <4>1, <1>2, NodesBasics
    <3> QED
      BY <3>1, <3>2, <3>3, <2>2, <1>1
  <2> QED
    BY <2>1, <2>2
<1>5. ASSUME Distinct(q) PROVE Distinct(r)
  <2> SUFFICES ASSUME NEW i \in 1 .. Len(r), NEW j \in 1 .. Len(r), r[i] = r[j]
               PROVE  i = j
    BY <1>2, NodesBasics
  <2> DEFINE old(m) == IF m < k THEN m ELSE m + 1
  <2>1. ASSUME NEW m \in 1 .. Len(r) PROVE old(m) \in 1 .. Len(q) /\ r[m] = q[old(m)]
    BY <1>1, <1>2, <1>3
  <2>2. old(i) = old(j)
    <3>1. q[old(i)] = q[old(j)] /\ old(i) \in 1 .. Len(q) /\ old(j) \in 1 .. Len(q)
      BY <2>1
    <3> HIDE DEF old
    <3> QED
      BY <3>1, <1>5, NodesBasics
  <2> QED
    BY <2>2, <1>1, <1>2
<1> QED
  BY <1>2, <1>3, <1>4, <1>5 DEF r

\* Inserted puts its node before the one at its position.
LEMMA InsertNodes ==
  ASSUME NEW S, NEW q \in Seq(S), NEW k \in 1 .. Len(q), NEW n \in S
  PROVE  /\ Inserted(q, k, n) \in Seq(S)
         /\ Len(Inserted(q, k, n)) = Len(q) + 1
         /\ \A i \in 1 .. Len(q) + 1 :
              Inserted(q, k, n)[i] = IF i < k THEN q[i] ELSE IF i = k THEN n ELSE q[i - 1]
         /\ Elements(Inserted(q, k, n)) = Elements(q) \cup {n}
         /\ Distinct(q) /\ n \notin Elements(q) => Distinct(Inserted(q, k, n))
<1> DEFINE r == Inserted(q, k, n)
<1>1. Len(q) \in Nat /\ k \in Int /\ \A i \in 1 .. Len(q) : q[i] \in S
  OBVIOUS
<1>2. r \in Seq(S) /\ Len(r) = Len(q) + 1
  BY <1>1 DEF Inserted
<1>3. ASSUME NEW i \in 1 .. Len(q) + 1
      PROVE  r[i] = IF i < k THEN q[i] ELSE IF i = k THEN n ELSE q[i - 1]
  BY DEF Inserted
<1> HIDE DEF r
<1>4. Elements(r) = Elements(q) \cup {n}
  <2>1. ASSUME NEW x \in Elements(r) PROVE x \in Elements(q) \cup {n}
    <3>1. PICK i \in 1 .. Len(r) : r[i] = x
      BY <1>2, <2>1, NodesBasics
    <3>2. x = n \/ \E m \in 1 .. Len(q) : q[m] = x
      BY <3>1, <1>1, <1>2, <1>3
    <3> QED
      BY <3>2, NodesBasics
  <2>2. ASSUME NEW x \in Elements(q) PROVE x \in Elements(r)
    <3>1. PICK i \in 1 .. Len(q) : q[i] = x
      BY <2>2, NodesBasics
    <3>2. CASE i < k
      <4>1. i \in 1 .. Len(r) /\ r[i] = x
        BY <3>1, <3>2, <1>1, <1>2, <1>3
      <4> QED
        BY <4>1, <1>2, NodesBasics
    <3>3. CASE ~(i < k)
      <4>1. i + 1 \in 1 .. Len(r) /\ r[i + 1] = x
        BY <3>1, <3>3, <1>1, <1>2, <1>3
      <4> QED
        BY <4>1, <1>2, NodesBasics
    <3> QED
      BY <3>2, <3>3
  <2>3. n \in Elements(r)
    <3>1. k \in 1 .. Len(r) /\ r[k] = n
      BY <1>1, <1>2, <1>3
    <3> QED
      BY <3>1, <1>2, NodesBasics
  <2> QED
    BY <2>1, <2>2, <2>3
<1>5. ASSUME Distinct(q), n \notin Elements(q) PROVE Distinct(r)
  <2> SUFFICES ASSUME NEW i \in 1 .. Len(r), NEW j \in 1 .. Len(r), r[i] = r[j]
               PROVE  i = j
    BY <1>2, NodesBasics
  <2>1. \A m \in 1 .. Len(q) : q[m] # n
    BY <1>5, NodesBasics
  <2>2. \A m, p \in 1 .. Len(q) : q[m] = q[p] => m = p
    BY <1>5, NodesBasics
  <2> DEFINE old(m) == IF m < k THEN m ELSE m - 1
  <2>3. ASSUME NEW m \in 1 .. Len(r), m # k PROVE old(m) \in 1 .. Len(q) /\ r[m] = q[old(m)]
    BY <2>3, <1>1, <1>2, <1>3
  <2>4. r[k] = n
    BY <1>1, <1>3
  <2>5. i = k \/ j = k => i = j
    BY <2>1, <2>3, <2>4
  <2>6. i # k /\ j # k => old(i) = old(j)
    BY <2>2, <2>3
  <2> QED
    BY <2>5, <2>6, <1>1, <1>2
<1> QED
  BY <1>2, <1>3, <1>4, <1>5 DEF r

-----------------------------------------------------------------------------
(* All the lists of a set D of names.                                      *)

\* Replacing one list by a sequence of distinct nodes, each of them from that
\* list or from no list, keeps every node linked at most once.
LEMMA ReplaceList ==
  ASSUME NEW ls, NEW new, NEW D, DOMAIN ls = D, DOMAIN new = D,
         NEW L \in D, \A M \in D \ {L} : new[M] = ls[M],
         LinkedOnce(ls), Distinct(new[L]),
         \A x \in Nodes(new, L) : x \in Nodes(ls, L) \/ \A M \in D : x \notin Nodes(ls, M)
  PROVE  /\ LinkedOnce(new)
         /\ \A M \in D \ {L} : Nodes(new, M) = Nodes(ls, M)
<1>2. \A M \in D \ {L} : Nodes(new, M) = Nodes(ls, M)
  BY DEF Nodes
<1>3. DOMAIN new = D /\ DOMAIN ls = D
  OBVIOUS
<1>4. \A M \in D : Distinct(new[M])
  BY <1>3 DEF LinkedOnce
<1>5. ASSUME NEW A \in D, NEW B \in D, A # B PROVE Nodes(new, A) \cap Nodes(new, B) = {}
  <2>1. \A M, N \in D : M # N => Nodes(ls, M) \cap Nodes(ls, N) = {}
    BY <1>3 DEF LinkedOnce
  <2>2. ASSUME NEW M \in D \ {L} PROVE Nodes(new, L) \cap Nodes(new, M) = {}
    <3>1. Nodes(ls, L) \cap Nodes(ls, M) = {}
      BY <2>1
    <3> QED
      BY <3>1, <1>2
  <2> QED
    BY <2>1, <2>2, <1>2, <1>5
<1> QED
  BY <1>2, <1>3, <1>4, <1>5 DEF LinkedOnce

\* list_push_back of a node that is on no list.
LEMMA PushBackNodes ==
  ASSUME NEW D, NEW S, NEW ls \in [D -> Seq(S)], NEW L \in D, NEW n \in S,
         LinkedOnce(ls), \A M \in D : n \notin Nodes(ls, M)
  PROVE  /\ list_push_back(ls, L, n) \in [D -> Seq(S)]
         /\ LinkedOnce(list_push_back(ls, L, n))
         /\ Nodes(list_push_back(ls, L, n), L) = Nodes(ls, L) \cup {n}
         /\ \A M \in D \ {L} : /\ list_push_back(ls, L, n)[M] = ls[M]
                               /\ Nodes(list_push_back(ls, L, n), M) = Nodes(ls, M)
<1> DEFINE q == Append(ls[L], n)
<1>1. ls[L] \in Seq(S) /\ Distinct(ls[L]) /\ n \notin Elements(ls[L])
  BY DEF LinkedOnce, Nodes
<1>2. q \in Seq(S) /\ Distinct(q) /\ Elements(q) = Elements(ls[L]) \cup {n}
  BY <1>1, AppendNodes
<1> DEFINE new == list_push_back(ls, L, n)
<1>3. new \in [D -> Seq(S)] /\ new[L] = q /\ \A M \in D \ {L} : new[M] = ls[M]
  BY <1>2 DEF list_push_back
<1>4. \A x \in Nodes(new, L) : x \in Nodes(ls, L) \/ \A M \in D : x \notin Nodes(ls, M)
  BY <1>2, <1>3 DEF Nodes
<1> HIDE DEF q, new
<1>5. LinkedOnce(new) /\ \A M \in D \ {L} : Nodes(new, M) = Nodes(ls, M)
  <2>1. /\ DOMAIN ls = D /\ DOMAIN new = D /\ Distinct(new[L])
        /\ \A M \in D \ {L} : new[M] = ls[M]
    BY <1>2, <1>3
  <2> QED
    BY <2>1, <1>4, ReplaceList
<1> QED
  <2>1. Nodes(new, L) = Nodes(ls, L) \cup {n}
    BY <1>2, <1>3 DEF Nodes
  <2> QED
    BY <2>1, <1>3, <1>5 DEF new

\* Insertion before the node at position k, of a node that is on no list.
LEMMA ListInsertNodes ==
  ASSUME NEW D, NEW S, NEW ls \in [D -> Seq(S)], NEW L \in D, NEW n \in S,
         NEW k \in 1 .. Len(ls[L]),
         LinkedOnce(ls), \A M \in D : n \notin Nodes(ls, M)
  PROVE  /\ list_insert(ls, L, k, n) \in [D -> Seq(S)]
         /\ LinkedOnce(list_insert(ls, L, k, n))
         /\ Nodes(list_insert(ls, L, k, n), L) = Nodes(ls, L) \cup {n}
         /\ \A M \in D \ {L} : /\ list_insert(ls, L, k, n)[M] = ls[M]
                               /\ Nodes(list_insert(ls, L, k, n), M) = Nodes(ls, M)
<1> DEFINE q == Inserted(ls[L], k, n)
<1>1. ls[L] \in Seq(S) /\ Distinct(ls[L]) /\ n \notin Elements(ls[L])
  BY DEF LinkedOnce, Nodes
<1>2. q \in Seq(S) /\ Distinct(q) /\ Elements(q) = Elements(ls[L]) \cup {n}
  BY <1>1, InsertNodes
<1> DEFINE new == list_insert(ls, L, k, n)
<1>3. new \in [D -> Seq(S)] /\ new[L] = q /\ \A M \in D \ {L} : new[M] = ls[M]
  BY <1>2 DEF list_insert
<1>4. \A x \in Nodes(new, L) : x \in Nodes(ls, L) \/ \A M \in D : x \notin Nodes(ls, M)
  BY <1>2, <1>3 DEF Nodes
<1> HIDE DEF q, new
<1>5. LinkedOnce(new) /\ \A M \in D \ {L} : Nodes(new, M) = Nodes(ls, M)
  <2>1. /\ DOMAIN ls = D /\ DOMAIN new = D /\ Distinct(new[L])
        /\ \A M \in D \ {L} : new[M] = ls[M]
    BY <1>2, <1>3
  <2> QED
    BY <2>1, <1>4, ReplaceList
<1> QED
  <2>1. Nodes(new, L) = Nodes(ls, L) \cup {n}
    BY <1>2, <1>3 DEF Nodes
  <2> QED
    BY <2>1, <1>3, <1>5 DEF new

\* list_remove_node takes exactly one node off exactly one list.
LEMMA RemoveListNodes ==
  ASSUME NEW D, NEW S, NEW ls \in [D -> Seq(S)], NEW L \in D,
         NEW k \in 1 .. Len(ls[L]), LinkedOnce(ls)
  PROVE  /\ list_remove(ls, L, k) \in [D -> Seq(S)]
         /\ LinkedOnce(list_remove(ls, L, k))
         /\ Nodes(list_remove(ls, L, k), L) = Nodes(ls, L) \ {ls[L][k]}
         /\ ls[L][k] \in Nodes(ls, L)
         /\ \A M \in D \ {L} : /\ list_remove(ls, L, k)[M] = ls[M]
                               /\ Nodes(list_remove(ls, L, k), M) = Nodes(ls, M)
                               /\ ls[L][k] \notin Nodes(ls, M)
<1> DEFINE q == Without(ls[L], k)
<1>1. ls[L] \in Seq(S) /\ Distinct(ls[L])
  BY DEF LinkedOnce
<1>2. q \in Seq(S) /\ Distinct(q) /\ Elements(q) = Elements(ls[L]) \ {ls[L][k]}
  BY <1>1, RemoveNodes
<1> DEFINE new == list_remove(ls, L, k)
<1>3. new \in [D -> Seq(S)] /\ new[L] = q /\ \A M \in D \ {L} : new[M] = ls[M]
  BY <1>2 DEF list_remove
<1>4. ls[L][k] \in Nodes(ls, L)
  BY <1>1, NodesBasics DEF Nodes
<1>5. \A M \in D \ {L} : ls[L][k] \notin Nodes(ls, M)
  BY <1>4 DEF LinkedOnce
<1>6. \A x \in Nodes(new, L) : x \in Nodes(ls, L) \/ \A M \in D : x \notin Nodes(ls, M)
  BY <1>2, <1>3 DEF Nodes
<1> HIDE DEF q, new
<1>7. LinkedOnce(new) /\ \A M \in D \ {L} : Nodes(new, M) = Nodes(ls, M)
  <2>1. /\ DOMAIN ls = D /\ DOMAIN new = D /\ Distinct(new[L])
        /\ \A M \in D \ {L} : new[M] = ls[M]
    BY <1>2, <1>3
  <2> QED
    BY <2>1, <1>6, ReplaceList
<1> QED
  <2>1. Nodes(new, L) = Nodes(ls, L) \ {ls[L][k]}
    BY <1>2, <1>3 DEF Nodes
  <2> QED
    BY <2>1, <1>3, <1>4, <1>5, <1>7 DEF new
=============================================================================
