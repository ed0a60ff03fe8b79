------------------------------ MODULE SeqLists ------------------------------
(***************************************************************************)
(* What the operations of cds/list.h promise: every initialised head holds *)
(* a sequence of nodes, no node is in two of them, and each operation is   *)
(* one operation on sequences.                                             *)
(***************************************************************************)
EXTENDS Naturals, SequencesExt

CONSTANTS Heads, Nodes

VARIABLE lists  \* from the initialised entries to sequences of nodes

Elements == UNION {Range(lists[h]) : h \in DOMAIN lists}

\* lists without the entries of S as heads.
Uninit(f, S) == [h \in DOMAIN f \ S |-> f[h]]

\* lists with h a head that holds s.
Init1(f, h, s) == [x \in DOMAIN f \cup {h} |-> IF x = h THEN s ELSE f[x]]

Without(n) == [h \in DOMAIN lists |-> Remove(lists[h], n)]

InitHead(h) ==
  /\ h \notin DOMAIN lists
  /\ h \notin Elements
  /\ lists' = Init1(lists, h, <<>>)

\* A node that is not in a list becomes the first or the last of h.
Add(n, h) ==
  /\ n \notin Elements
  /\ h \in DOMAIN lists \ {n}
  /\ lists' = Uninit([lists EXCEPT ![h] = <<n>> \o @], {n})

AddTail(n, h) ==
  /\ n \notin Elements
  /\ h \in DOMAIN lists \ {n}
  /\ lists' = Uninit([lists EXCEPT ![h] = Append(@, n)], {n})

\* n leaves its list; DelInit makes it an empty list.
Del(n) == n \in Elements /\ lists' = Without(n)

DelInit(n) == n \in Elements /\ lists' = Init1(Without(n), n, <<>>)

Move(n, h) ==
  /\ n \in Elements
  /\ h \in DOMAIN lists
  /\ lists' = [Without(n) EXCEPT ![h] = <<n>> \o @]

\* n takes the place of o; ReplaceInit makes o an empty list.
Replaced(o, n) ==
  [h \in DOMAIN lists \ {n} |->
     [j \in 1 .. Len(lists[h]) |-> IF lists[h][j] = o THEN n ELSE lists[h][j]]]

Replace(o, n) ==
  /\ o \in Elements
  /\ n \notin Elements
  /\ lists' = Replaced(o, n)

ReplaceInit(o, n) ==
  /\ o \in Elements
  /\ n \notin Elements
  /\ lists' = Init1(Replaced(o, n), o, <<>>)

\* The nodes of a go to the front of h; a is not a list any more.
Splice(a, h) ==
  /\ a # h
  /\ {a, h} \subseteq DOMAIN lists
  /\ lists[a] # <<>>
  /\ lists' = Uninit([lists EXCEPT ![h] = lists[a] \o @], {a})

Next ==
  \/ \E h \in Heads : InitHead(h)
  \/ \E n \in Nodes : Del(n) \/ DelInit(n)
  \/ \E n \in Nodes, h \in Heads : Add(n, h) \/ AddTail(n, h) \/ Move(n, h)
  \/ \E o, n \in Nodes : Replace(o, n) \/ ReplaceInit(o, n)
  \/ \E a, h \in Heads : Splice(a, h)

Spec == lists = <<>> /\ [][Next]_lists

=============================================================================
