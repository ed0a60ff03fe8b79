-------------------------------- MODULE List --------------------------------
(***************************************************************************)
(* cds/list.h: the operations on circular doubly linked lists, each the    *)
(* sequence of stores its code makes, and the traversal that allows        *)
(* removal.  The program is sequential; it calls an operation only on      *)
(* entries its contract allows.                                            *)
(***************************************************************************)
EXTENDS ListNode

CONSTANT None

ASSUME ListAssumption == None \notin Entries

VARIABLES
  mem,    \* mem.next[e], mem.prev[e]: the pointers of entry e
  valid,  \* entries initialised as list heads and not spliced away
  iter    \* the traversal in progress, or None

vars == <<mem, valid, iter>>

\* e->next = x and e->prev = x, on memory m.
SetNext(m, e, x) == [m EXCEPT !.next[e] = x]
SetPrev(m, e, x) == [m EXCEPT !.prev[e] = x]

\* Contents of head h, and the nodes in some list.
Contents(h) == ForEach(mem.next, h)
Linked == UNION {Range(Contents(h)) : h \in valid}

\* Before its first use an entry's pointers are not set.
Init ==
  /\ mem = [next |-> [e \in Entries |-> None], prev |-> [e \in Entries |-> None]]
  /\ valid = {}
  /\ iter = None

-----------------------------------------------------------------------------
(***************************************************************************)
(* The functions of list.h, from the memory before to the memory after.    *)
(***************************************************************************)
CDS_INIT_LIST_HEAD(m, e) == SetNext(SetPrev(m, e, e), e, e)

\* Mutant: next and prev exchanged, so the element goes to the tail.
list_add_AtTail(m, newp, head) ==
  LET m1 == SetNext(m, m.prev[head], newp)
      m2 == SetPrev(m1, newp, m1.prev[head])
      m3 == SetNext(m2, newp, head)
  IN  SetPrev(m3, head, newp)

list_add(m, newp, head) ==
  LET m1 == SetPrev(m, m.next[head], newp)
      m2 == SetNext(m1, newp, m1.next[head])
      m3 == SetPrev(m2, newp, head)
  IN  SetNext(m3, head, newp)

list_add_tail(m, newp, head) ==
  LET m1 == SetNext(m, m.prev[head], newp)
      m2 == SetNext(m1, newp, head)
      m3 == SetPrev(m2, newp, m2.prev[head])
  IN  SetPrev(m3, head, newp)

__list_del(m, before, after) == SetNext(SetPrev(m, after, before), before, after)

cds_list_del(m, elem) == __list_del(m, m.prev[elem], m.next[elem])

cds_list_del_init(m, elem) == CDS_INIT_LIST_HEAD(cds_list_del(m, elem), elem)

cds_list_move(m, elem, head) ==
  list_add(__list_del(m, m.prev[elem], m.next[elem]), elem, head)

\* Mutant: the successor still points back to the old entry.
cds_list_replace_NoPrev(m, old, new) ==
  LET m1 == SetNext(m, new, m.next[old])
      m2 == SetPrev(m1, new, m1.prev[old])
  IN  SetNext(m2, m2.prev[new], new)

cds_list_replace(m, old, new) ==
  LET m1 == SetNext(m, new, m.next[old])
      m2 == SetPrev(m1, new, m1.prev[old])
      m3 == SetNext(m2, m2.prev[new], new)
  IN  SetPrev(m3, m3.next[new], new)

cds_list_empty(m, head) == head = m.next[head]

cds_list_splice(m, add, head) ==
  LET m1 == SetPrev(m, m.next[add], head)
      m2 == SetNext(m1, m1.prev[add], m1.next[head])
      m3 == SetPrev(m2, m2.next[head], m2.prev[add])
  IN  IF cds_list_empty(m, add) THEN m ELSE SetNext(m3, head, m3.next[add])

cds_list_replace_init(m, old, new) ==
  LET head == m.next[old]
  IN  CDS_INIT_LIST_HEAD(list_add_tail(cds_list_del(m, old), new, head), old)

-----------------------------------------------------------------------------
(***************************************************************************)
(* The calls a program may make outside a traversal.                       *)
(***************************************************************************)

\* A call leaves memory m behind, with the entries of heads initialised.
Call(m, heads) == mem' = m /\ valid' = heads /\ UNCHANGED iter

InitHead(h) == h \notin valid /\ Call(CDS_INIT_LIST_HEAD(mem, h), valid \cup {h})

\* The caller adds a node that is in no list to an initialised one.
MayAdd(n, h) == n \notin Linked /\ h \in valid

Add(n, h) == MayAdd(n, h) /\ Call(list_add(mem, n, h), valid \ {n})

AddTail(n, h) == MayAdd(n, h) /\ Call(list_add_tail(mem, n, h), valid \ {n})

Del(n) == n \in Linked /\ Call(cds_list_del(mem, n), valid)

DelInit(n) == n \in Linked /\ Call(cds_list_del_init(mem, n), valid \cup {n})

Move(n, h) ==
  n \in Linked /\ h \in valid /\ Call(cds_list_move(mem, n, h), valid)

MayReplace(o, n) == o \in Linked /\ n \notin Linked

Replace(o, n) ==
  MayReplace(o, n) /\ Call(cds_list_replace(mem, o, n), valid \ {n})

ReplaceInit(o, n) ==
  /\ MayReplace(o, n)
  /\ Call(cds_list_replace_init(mem, o, n), (valid \ {n}) \cup {o})

Splice(a, h) ==
  /\ a # h
  /\ {a, h} \subseteq valid
  /\ Call(cds_list_splice(mem, a, h),
          IF cds_list_empty(mem, a) THEN valid ELSE valid \ {a})

-----------------------------------------------------------------------------
(***************************************************************************)
(* cds_list_for_each_safe and _prev_safe: pos is the element of this       *)
(* round, p the one of the next.  The body may remove pos, or move it to   *)
(* another list.                                                           *)
(***************************************************************************)
Dirs == {"next", "prev"}

ForEachSafe(h, dir) ==
  /\ h \in valid
  /\ iter' = [head |-> h, dir |-> dir,
              pos |-> mem[dir][h],
              p |-> mem[dir][mem[dir][h]],
              start |-> ForEach(mem[dir], h),  \* history: what is to be visited
              round |-> 1]                     \* history: rounds begun
  /\ UNCHANGED <<mem, valid>>

\* The body of a round.
Body ==
  /\ iter.pos # iter.head
  /\ \/ Del(iter.pos) \/ DelInit(iter.pos)
     \/ \E h \in Heads \ {iter.head} : Move(iter.pos, h)

\* Mutant: the plain traversal, which reads the element again.
Advance_NotSafe ==
  LET pos == mem[iter.dir][iter.pos]
  IN  /\ iter.pos # iter.head
      /\ iter' = [iter EXCEPT !.pos = pos, !.p = mem[iter.dir][pos],
                              !.round = @ + 1]
      /\ UNCHANGED <<mem, valid>>

Advance ==
  /\ iter.pos # iter.head
  /\ iter' = [iter EXCEPT !.pos = iter.p, !.p = mem[iter.dir][iter.p],
                          !.round = @ + 1]
  /\ UNCHANGED <<mem, valid>>

Done ==
  /\ iter.pos = iter.head
  /\ iter' = None
  /\ UNCHANGED <<mem, valid>>

-----------------------------------------------------------------------------
Outside ==
  \/ \E h \in Heads : InitHead(h)
  \/ \E n \in Nodes : Del(n) \/ DelInit(n)
  \/ \E n \in Nodes, h \in Heads : Add(n, h) \/ AddTail(n, h) \/ Move(n, h)
  \/ \E o, n \in Nodes : Replace(o, n) \/ ReplaceInit(o, n)
  \/ \E a, h \in Heads : Splice(a, h)
  \/ \E h \in Heads, dir \in Dirs : ForEachSafe(h, dir)

Next ==
  \/ iter = None /\ Outside
  \/ iter # None /\ (Body \/ Advance \/ Done)

Spec == Init /\ [][Next]_vars

-----------------------------------------------------------------------------
\* Pointers point to entries, and no pointer that was never set is met from a
\* list head in either direction.
TypeOK ==
  /\ mem \in [{"next", "prev"} -> [Entries -> Entries \cup {None}]]
  /\ valid \subseteq Entries
  /\ \A h \in valid, dir \in Dirs : None \notin Range(Path(mem[dir], h))

\* After every operation each list is one ring in both directions: the backward
\* traversal meets the elements of the forward one in reverse order.
RingIntact ==
  /\ TypeOK
  /\ \A h \in valid :
       /\ IsRing(mem.next, h) /\ IsRing(mem.prev, h)
       /\ Reverse(ForEach(mem.prev, h)) = Contents(h)

\* A safe traversal visits the elements its list had at the start, each once
\* and in order, although the body unlinks, reinitialises or moves the element
\* it is at: "The list elements can be removed from the list while doing this"
\* (list.h:78-81, 90-93).
IterationExact ==
  iter # None =>
    LET path == iter.start \o <<iter.head>>
    IN  /\ iter.round \in 1 .. Len(path)
        /\ iter.pos = path[iter.round]
        /\ iter.round < Len(path) => iter.p = path[iter.round + 1]

Abstract ==
  INSTANCE SeqLists WITH lists <- [h \in valid |-> Contents(h)]

\* The pointer operations implement operations on sequences; traversals and
\* the splice of an empty list change nothing.  And each implements the one of
\* its name: an element is added, moved or put in another's place exactly where
\* the comments of list.h say.
ImplementsSequences ==
  /\ Abstract!Spec
  /\ [][/\ \A n \in Nodes : /\ Del(n) => Abstract!Del(n)
                            /\ DelInit(n) => Abstract!DelInit(n)
        /\ \A n \in Nodes, h \in Heads :
             /\ Add(n, h) => Abstract!Add(n, h)
             /\ AddTail(n, h) => Abstract!AddTail(n, h)
             /\ Move(n, h) => Abstract!Move(n, h)
        /\ \A o, n \in Nodes : /\ Replace(o, n) => Abstract!Replace(o, n)
                               /\ ReplaceInit(o, n) => Abstract!ReplaceInit(o, n)
       ]_vars

=============================================================================
