------------------------------ MODULE RcuList ------------------------------
(***************************************************************************)
(* cds/rculist.h: a list that readers traverse, without a lock, while one  *)
(* writer at a time ("mutual exclusion against concurrent updates is       *)
(* required") changes it.  A writer's operation is the sequence of its     *)
(* stores, made one by one and visible to readers in that order.           *)
(*                                                                         *)
(* A node that a writer unlinked is freed after a grace period: once every *)
(* read section that was open then has ended, which is what module         *)
(* RcuProofs proves of synchronize_rcu().  The writer goes on meanwhile.   *)
(* Nodes carry a key, so that a replacement is the same element.           *)
(***************************************************************************)
EXTENDS ListNode

CONSTANTS
  head,     \* the one list
  Keys,     \* what a node's object holds
  Readers,
  MaxOps,   \* bound on the writer's operations
  None

ASSUME RcuListAssumption ==
  /\ Heads = {head}
  /\ MaxOps \in Nat
  /\ None \notin Entries

VARIABLES
  next, prev,  \* the pointers of every entry; None in memory never written
  key,         \* key[n]: the object of node n
  stores,      \* stores the writer still has to make, [link, at, val]
  unlinked,    \* the node the operation removes, or None
  content,     \* history: keys in the list, those in flight left out
  inFlight,    \* history: the key an operation is adding or removing
  pool,        \* nodes that are not in use
  grace,       \* grace[n]: sections a retired node n still waits for
  ops,         \* operations begun
  pos,         \* pos[r]: where reader r is, None outside a section
  seen,        \* seen[r][k]: history, how often its traversal met key k, up to 2
  always,      \* always[r]: history, keys in the list since its section began
  ever         \* ever[r]: history, keys in the list at some time since then

listVars == <<next, prev, key>>
writerVars == <<stores, unlinked, content, inFlight, pool, grace, ops>>
readerVars == <<pos, seen, always, ever>>
vars == <<listVars, writerVars, readerVars>>

Nothing == [k \in Keys |-> 0]

Init ==
  /\ next = [e \in Entries |-> IF e = head THEN head ELSE None]
  /\ prev = [e \in Entries |-> IF e = head THEN head ELSE None]
  /\ key \in [Nodes -> {CHOOSE k \in Keys : TRUE}]
  /\ stores = <<>>
  /\ unlinked = None
  /\ content = {}
  /\ inFlight = {}
  /\ pool = Nodes
  /\ grace = [n \in Nodes |-> {}]
  /\ ops = 0
  /\ pos = [r \in Readers |-> None]
  /\ seen = [r \in Readers |-> Nothing]
  /\ always = [r \in Readers |-> {}]
  /\ ever = [r \in Readers |-> {}]

-----------------------------------------------------------------------------
(***************************************************************************)
(* The functions of rculist.h, as stores.  No store changes what a later   *)
(* one of the same operation reads, so operands are read at the start.     *)
(***************************************************************************)
Next_(e, x) == [link |-> "next", at |-> e, val |-> x]
Prev_(e, x) == [link |-> "prev", at |-> e, val |-> x]

\* Mutant: the element is published before its own pointers are set.
cds_list_add_rcu_Early(newp) ==
  <<Next_(head, newp), Next_(newp, next[head]), Prev_(newp, head),
    Prev_(next[head], newp)>>

cds_list_add_rcu(newp) ==
  <<Next_(newp, next[head]), Prev_(newp, head), Prev_(next[head], newp),
    Next_(head, newp)>>

\* Mutant: head->prev is not set.
cds_list_add_tail_rcu_NoPrev(newp) ==
  <<Next_(newp, head), Prev_(newp, prev[head]), Next_(prev[head], newp)>>

cds_list_add_tail_rcu(newp) ==
  <<Next_(newp, head), Prev_(newp, prev[head]), Next_(prev[head], newp),
    Prev_(head, newp)>>

\* Mutant: unlink the old entry, then link the new one.
cds_list_replace_rcu_NotAtomic(old, new) ==
  <<Next_(prev[old], next[old]), Next_(new, next[old]), Prev_(new, prev[old]),
    Next_(prev[old], new), Prev_(next[old], new)>>

cds_list_replace_rcu(old, new) ==
  <<Next_(new, next[old]), Prev_(new, prev[old]), Next_(prev[old], new),
    Prev_(next[old], new)>>

\* Mutant: the removed element is linked to itself, as cds_list_del_init does.
cds_list_del_rcu_Init(elem) ==
  <<Prev_(next[elem], prev[elem]), Next_(prev[elem], next[elem]),
    Next_(elem, elem)>>

\* CMM_STORE_SHARED is a store.
cds_list_del_rcu(elem) ==
  <<Prev_(next[elem], prev[elem]), Next_(prev[elem], next[elem])>>

-----------------------------------------------------------------------------
(***************************************************************************)
(* The writer.                                                             *)
(***************************************************************************)
Linked == Range(ForEach(next, head))

Reading == {r \in Readers : pos[r] # None}

\* Every operation is over.
Quiet == stores = <<>> /\ unlinked = None /\ inFlight = {}

\* An operation begins, with the key of `changed' on its way into or out of the
\* list: open sections may meet it, and need not.
Begin(todo, victim, changed) ==
  /\ ops < MaxOps
  /\ ops' = ops + 1
  /\ stores' = todo
  /\ unlinked' = victim
  /\ inFlight' = changed
  /\ content' = content \ changed
  /\ always' = [r \in Readers |-> always[r] \ changed]
  /\ ever' = [r \in Readers |-> IF r \in Reading THEN ever[r] \cup changed ELSE {}]
  /\ UNCHANGED <<next, prev, grace, pos, seen>>

\* A new node, with a key that is not in the list, at either end.
Add(n, k) ==
  /\ Quiet
  /\ n \in pool /\ k \notin content
  /\ pool' = pool \ {n}
  /\ key' = [key EXCEPT ![n] = k]
  /\ \/ Begin(cds_list_add_rcu(n), None, {k})
     \/ Begin(cds_list_add_tail_rcu(n), None, {k})

\* A new version of node o.
Replace(o, n) ==
  /\ Quiet
  /\ o \in Linked /\ n \in pool
  /\ pool' = pool \ {n}
  /\ key' = [key EXCEPT ![n] = key[o]]
  /\ Begin(cds_list_replace_rcu(o, n), o, {})

Del(n) ==
  /\ Quiet
  /\ n \in Linked
  /\ Begin(cds_list_del_rcu(n), n, {key[n]})
  /\ UNCHANGED <<pool, key>>

Store ==
  LET s == Head(stores)
  IN  /\ stores # <<>>
      /\ stores' = Tail(stores)
      /\ \/ /\ s.link = "next"
            /\ next' = [next EXCEPT ![s.at] = s.val]
            /\ UNCHANGED prev
         \/ /\ s.link = "prev"
            /\ prev' = [prev EXCEPT ![s.at] = s.val]
            /\ UNCHANGED next
      /\ UNCHANGED <<key, unlinked, content, inFlight, pool, grace, ops, readerVars>>

\* The operation is over: a node it unlinked waits for the open sections.
End ==
  /\ stores = <<>> /\ ~Quiet
  /\ \/ /\ unlinked = None
        /\ content' = content \cup inFlight
        /\ UNCHANGED grace
     \/ /\ unlinked # None
        /\ grace' = [grace EXCEPT ![unlinked] = Reading]
        /\ UNCHANGED content
  /\ unlinked' = None
  /\ inFlight' = {}
  /\ UNCHANGED <<listVars, stores, pool, ops, readerVars>>

\* Nodes neither in the pool nor in the list.
Retired == Nodes \ (pool \cup Linked)

\* The grace period is over and the memory goes back to the heap, which may
\* overwrite it.
Free(n) ==
  /\ Quiet
  /\ n \in Retired /\ grace[n] = {}
  /\ pool' = pool \cup {n}
  /\ next' = [next EXCEPT ![n] = None]
  /\ prev' = [prev EXCEPT ![n] = None]
  /\ UNCHANGED <<key, stores, unlinked, content, inFlight, grace, ops, readerVars>>

-----------------------------------------------------------------------------
(***************************************************************************)
(* Readers: cds_list_for_each_rcu in a read section.                       *)
(***************************************************************************)

\* pos = e, having met the keys of before: a node's key is read.
Visit(r, e, before) ==
  /\ pos' = [pos EXCEPT ![r] = e]
  /\ seen' = [seen EXCEPT ![r] =
                IF e \in Nodes THEN [before EXCEPT ![key[e]] = Min({2, @ + 1})]
                ELSE before]

ReadBegin(r) ==
  /\ r \notin Reading
  /\ Visit(r, next[head], Nothing)
  /\ always' = [always EXCEPT ![r] = content]
  /\ ever' = [ever EXCEPT ![r] = content \cup inFlight]
  /\ UNCHANGED <<listVars, writerVars>>

ReadNext(r) ==
  /\ pos[r] \in Nodes
  /\ Visit(r, next[pos[r]], seen[r])
  /\ UNCHANGED <<listVars, writerVars, always, ever>>

\* The traversal is back at the head: the section ends.
ReadEnd(r) ==
  /\ pos[r] = head
  /\ pos' = [pos EXCEPT ![r] = None]
  /\ seen' = [seen EXCEPT ![r] = Nothing]
  /\ always' = [always EXCEPT ![r] = {}]
  /\ ever' = [ever EXCEPT ![r] = {}]
  /\ grace' = [n \in Nodes |-> grace[n] \ {r}]
  /\ UNCHANGED <<listVars, stores, unlinked, content, inFlight, pool, ops>>

-----------------------------------------------------------------------------
Writer ==
  \/ \E n \in Nodes, k \in Keys : Add(n, k)
  \/ \E o, n \in Nodes : Replace(o, n)
  \/ \E n \in Nodes : Del(n)
  \/ Store
  \/ End
  \/ \E n \in Nodes : Free(n)

Next ==
  \/ Writer
  \/ \E r \in Readers : ReadBegin(r) \/ ReadNext(r) \/ ReadEnd(r)

\* A reader in a section keeps running; nothing is asked of the writer, which
\* may stop anywhere.
Fairness == \A r \in Readers : WF_vars(ReadNext(r) \/ ReadEnd(r))

Spec == Init /\ [][Next]_vars /\ Fairness

-----------------------------------------------------------------------------
\* Every variable has its type; a node waits for open sections only.
TypeOK ==
  /\ next \in [Entries -> Entries \cup {None}]
  /\ prev \in [Entries -> Entries \cup {None}]
  /\ key \in [Nodes -> Keys]
  /\ unlinked \in Nodes \cup {None}
  /\ pool \subseteq Nodes
  /\ grace \in [Nodes -> SUBSET Reading]
  /\ ops \in 0 .. MaxOps
  /\ pos \in [Readers -> Entries \cup {None}]
  /\ \A r \in Readers : always[r] \subseteq ever[r] /\ ever[r] \subseteq Keys

\* A traversal never stands on a node that is not yet or not any more a part
\* of the program's memory, nor on one whose next was never written.
ReaderSafe ==
  \A r \in Reading : pos[r] \in Nodes => pos[r] \notin pool /\ next[pos[r]] # None

\* Between two operations of the writer the list is a ring in both directions,
\* whatever the readers do, and holds the keys that were added and not removed.
RingIntact ==
  /\ TypeOK
  /\ Quiet =>
       /\ IsRing(next, head) /\ IsRing(prev, head)
       /\ Reverse(ForEach(prev, head)) = ForEach(next, head)
       /\ content = {key[n] : n \in Linked}

\* What a traversal means next to a concurrent writer: a key that was in the
\* list all the time is met exactly once (a replaced element too: "Replace an
\* old entry atomically with respect to concurrent RCU traversal",
\* rculist.h:41-42), and no key is met that was not in the list meanwhile.
TraversalExact ==
  \A r \in Reading :
    /\ \A k \in Keys : seen[r][k] > 0 => k \in ever[r]
    /\ \A k \in always[r] : seen[r][k] <= 1
    /\ pos[r] = head => \A k \in always[r] : seen[r][k] = 1

\* A traversal ends, although nodes are added, replaced and removed under it
\* and the writer may stop in the middle of an operation.
TraversalEnds == \A r \in Readers : r \in Reading ~> r \notin Reading

=============================================================================
