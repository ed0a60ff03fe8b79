------------------------------ MODULE ListNode ------------------------------
(***************************************************************************)
(* The circular doubly linked lists of cds/list.h and cds/rculist.h: an    *)
(* entry is a node or the head of a list, and its two pointers are the     *)
(* functions next and prev of the modules that extend this one.            *)
(***************************************************************************)
EXTENDS Naturals, SequencesExt

CONSTANTS
  Heads,  \* the list heads
  Nodes   \* the elements

ASSUME ListNodeAssumption ==
  /\ IsFiniteSet(Heads \cup Nodes)
  /\ Heads \cap Nodes = {}

Entries == Heads \cup Nodes

\* The entries met from h on, following link: the n-th one is Path(link, h)[n].
Path(link, h) ==
  LET path[n \in 0 .. Cardinality(Entries)] ==
        IF n = 0 THEN h
        ELSE IF path[n - 1] \in DOMAIN link THEN link[path[n - 1]]
        ELSE path[n - 1]
  IN  path

\* Following link from h leads back to h.
IsRing(link, h) == \E n \in 1 .. Cardinality(Entries) : Path(link, h)[n] = h

\* cds_list_for_each: the elements visited, in order.
ForEach(link, h) ==
  LET path == Path(link, h)
      last == Min({n \in 1 .. Cardinality(Entries) : path[n] = h})
  IN  [n \in 1 .. last - 1 |-> path[n]]

=============================================================================
