------------------------------ MODULE CallRcu ------------------------------
(***************************************************************************)
(* Deferred reclamation in src/rcu.cpp: free_rcu() hands an object to      *)
(* call_rcu(), which stamps it with a new version of the sequencer, appends*)
(* it to the calling thread's list rcu_data and, once the thread has made  *)
(* enough calls, runs thread_call_rcu(): free the objects at the front of  *)
(* the list that no other core's section can still see.                    *)
(*                                                                         *)
(* Readers, writers and the heap are those of module Rcu; the writers named*)
(* in Deferrers call free_rcu(q) where the others call synchronize_rcu()   *)
(* and delete, so both kinds of reclamation share the sequencer.           *)
(* An rcu_head is the first member of its object, so a list node is an     *)
(* object.                                                                 *)
(***************************************************************************)
EXTENDS Rcu

CONSTANTS
  Deferrers,    \* the writers that call free_rcu()
  Threshold,    \* calls of a thread before it reclaims: 1024 (rcu.cpp:78)
  UINT_MAX,     \* where thread_call_rcu's minimum starts: 2^32 - 1
  HeadsZeroed,  \* objects come with next = nullptr; malloc does not promise it
  Null          \* nullptr

ASSUME CallRcuAssumption ==
  /\ Deferrers \subseteq Writers
  /\ Threshold \in Nat
  /\ UINT_MAX \in Nat
  /\ HeadsZeroed \in BOOLEAN
  /\ Null \notin Objects

VARIABLES
  next,         \* next[o]: rcu_head::next of object o
  version,      \* version[o]: rcu_head::version
  rcu_data,     \* rcu_data[k]: thread_local list of core k
  min_version,  \* min_version[c]: local of thread_call_rcu
  node,         \* node[c]: local of thread_call_rcu
  callbacks     \* callbacks[k]: history of what core k was handed by call_rcu()
                \*   and has not freed, oldest first

callVars == <<next, version, rcu_data, min_version, node, callbacks>>
cvars == <<vars, callVars>>

CInit ==
  /\ Init
  /\ next = [o \in Objects |-> Null]
  /\ version = [o \in Objects |-> 0]
  /\ rcu_data = [k \in Cores |-> [head |-> Null, tail |-> Null, count |-> 0]]
  /\ min_version = [c \in Coros |-> 0]
  /\ node = [c \in Coros |-> Null]
  /\ callbacks = [k \in Cores |-> <<>>]

-----------------------------------------------------------------------------
\* p = malloc(): the pointer in the rcu_head is whatever was there before.
Alloc(k, c) ==
  /\ New(k, c)
  /\ \E garbage \in IF HeadsZeroed THEN {Null} ELSE Objects \cup {Null} :
       next' = [next EXCEPT ![p'[c]] = garbage]
  /\ UNCHANGED <<version, rcu_data, min_version, node, callbacks>>

\* rcu_data_enqueue(&rcu_data, o) on core k.
Enqueue(k, o) ==
  LET data == rcu_data[k]
  IN  /\ rcu_data' = [rcu_data EXCEPT
           ![k] = [head |-> IF data.tail = Null THEN o ELSE data.head,
                   tail |-> o,
                   count |-> data.count + 1]]
      /\ next' = IF data.tail = Null THEN next
                 ELSE [next EXCEPT ![data.tail] = o]

\* Mutant: the object is stamped with the version before the increment.
call_rcu_OldValue(k, c) ==
  /\ c \in Deferrers
  /\ Step(k, c, "sync", IF rcu_data[k].count + 1 >= Threshold THEN "scan" ELSE "unlock")
  /\ sequencer' = sequencer + 1
  /\ version' = [version EXCEPT ![q[c]] = sequencer]
  /\ Enqueue(k, q[c])
  /\ callbacks' = [callbacks EXCEPT ![k] = Append(@, q[c])]
  /\ current_core' = [current_core EXCEPT ![c] = k]
  /\ i' = [i EXCEPT ![c] = 0]
  /\ min_version' = [min_version EXCEPT ![c] = UINT_MAX]
  /\ UNCHANGED <<reactorVars, heapVars, round, p, q, global_version,
                 writer_version, node>>

\* free_rcu(q): stamp and enqueue; with enough calls, thread_call_rcu().
call_rcu(k, c) ==
  /\ c \in Deferrers
  /\ Step(k, c, "sync", IF rcu_data[k].count + 1 >= Threshold THEN "scan" ELSE "unlock")
  /\ sequencer' = sequencer + 1
  /\ version' = [version EXCEPT ![q[c]] = sequencer + 1]
  /\ Enqueue(k, q[c])
  /\ callbacks' = [callbacks EXCEPT ![k] = Append(@, q[c])]
  /\ current_core' = [current_core EXCEPT ![c] = k]
  /\ i' = [i EXCEPT ![c] = 0]
  /\ min_version' = [min_version EXCEPT ![c] = UINT_MAX]
  /\ UNCHANGED <<reactorVars, heapVars, round, p, q, global_version,
                 writer_version, node>>

\* thread_call_rcu(): the least version of the other cores, one load each.
LoadVersion(k, c) ==
  /\ c \in Deferrers
  /\ Step(k, c, "scan", "scan")
  /\ i[c] < num_threads
  /\ i' = [i EXCEPT ![c] = @ + 1]
  /\ min_version' = [min_version EXCEPT ![c] =
       IF i[c] # current_core[c] /\ versions[i[c]] < @ THEN versions[i[c]] ELSE @]
  /\ UNCHANGED <<reactorVars, sequencer, heapVars, round, p, q, global_version,
                 writer_version, current_core, next, version, rcu_data, node,
                 callbacks>>

LoadHead(k, c) ==
  /\ c \in Deferrers
  /\ Step(k, c, "scan", "delete")
  /\ i[c] = num_threads
  /\ node' = [node EXCEPT ![c] = rcu_data[k].head]
  /\ UNCHANGED <<reactorVars, sequencer, heapVars, localVars, next, version,
                 rcu_data, min_version, callbacks>>

\* Mutant: the tail keeps pointing to the freed object.
FreeNode_KeepsTail(k, c) ==
  LET head == node[c]
      node2 == next[head]
  IN  /\ c \in Deferrers
      /\ Step(k, c, "delete", "delete")
      /\ head # Null
      /\ version[head] <= min_version[c]
      /\ allocated' = allocated \ {head}
      /\ node' = [node EXCEPT ![c] = node2]
      /\ rcu_data' = [rcu_data EXCEPT ![k].head = node2]
      /\ callbacks' = [callbacks EXCEPT ![k] = IF @ = <<>> THEN @ ELSE Tail(@)]
      /\ UNCHANGED <<reactorVars, sequencer, gp, locked, localVars, next,
                     version, min_version>>

\* Mutant: the callback gets node, which has moved on, instead of head.
FreeNode_FreesNext(k, c) ==
  LET head == node[c]
      node2 == next[head]
  IN  /\ c \in Deferrers
      /\ Step(k, c, "delete", "delete")
      /\ head # Null
      /\ version[head] <= min_version[c]
      /\ allocated' = allocated \ {node2}
      /\ node' = [node EXCEPT ![c] = node2]
      /\ rcu_data' = [rcu_data EXCEPT
           ![k].head = node2,
           ![k].tail = IF node2 = Null THEN Null ELSE @]
      /\ callbacks' = [callbacks EXCEPT ![k] = IF @ = <<>> THEN @ ELSE Tail(@)]
      /\ UNCHANGED <<reactorVars, sequencer, gp, locked, localVars, next,
                     version, min_version>>

\* One round of the loop: read next, then run the callback, which frees the
\* object.
FreeNode(k, c) ==
  LET head == node[c]
      node2 == next[head]
  IN  /\ c \in Deferrers
      /\ Step(k, c, "delete", "delete")
      /\ head # Null
      /\ version[head] <= min_version[c]
      /\ allocated' = allocated \ {head}
      /\ node' = [node EXCEPT ![c] = node2]
      /\ rcu_data' = [rcu_data EXCEPT
           ![k].head = node2,
           ![k].tail = IF node2 = Null THEN Null ELSE @]
      /\ callbacks' = [callbacks EXCEPT ![k] = IF @ = <<>> THEN @ ELSE Tail(@)]
      /\ UNCHANGED <<reactorVars, sequencer, gp, locked, localVars, next,
                     version, min_version>>

\* The list is empty, or its first object is too young.
LeaveLoop(k, c) ==
  /\ c \in Deferrers
  /\ Step(k, c, "delete", "unlock")
  /\ node[c] # Null => version[node[c]] > min_version[c]
  /\ node' = [node EXCEPT ![c] = Null]
  /\ UNCHANGED <<reactorVars, sequencer, heapVars, localVars, next, version,
                 rcu_data, min_version, callbacks>>

-----------------------------------------------------------------------------
\* What module Rcu's tasks do, but for the reclamation of the Deferrers.
RcuStep(k, c) ==
  /\ \/ ReadLock(k, c) \/ LoadSequencer(k, c) \/ PublishVersion(k, c)
     \/ Dereference(k, c) \/ ReadUnlock(k, c)
     \/ SpinAcquire(k, c) \/ SpinYield(k, c)
     \/ LoadOld(k, c) \/ AssignPointer(k, c)
     \/ SpinUnlock(k, c) \/ TaskReturn(k, c)
     \/ /\ c \notin Deferrers
        /\ \/ FetchAdd(k, c) \/ ScanPass(k, c) \/ ScanWait(k, c)
           \/ ScanEnd(k, c) \/ Delete(k, c)
  /\ UNCHANGED callVars

CCoroStep(k, c) ==
  \/ RcuStep(k, c)
  \/ Alloc(k, c)
  \/ call_rcu(k, c)
  \/ LoadVersion(k, c)
  \/ LoadHead(k, c)
  \/ FreeNode(k, c)
  \/ LeaveLoop(k, c)

CCoreStep(k) ==
  \/ Reactors(k) /\ UNCHANGED callVars
  \/ \E c \in Coros : CCoroStep(k, c)

CNext ==
  \/ SubmitTask /\ UNCHANGED callVars
  \/ \E k \in Cores : CCoreStep(k)
  \/ Stopped /\ UNCHANGED callVars

\* A reactor polls for ever.
CFairness ==
  /\ WF_cvars(SubmitTask /\ UNCHANGED callVars)
  /\ \A k \in Cores : WF_cvars(CCoreStep(k))

CSpec == CInit /\ [][CNext]_cvars /\ CFairness

-----------------------------------------------------------------------------
Nodes == Objects \cup {Null}

\* Every variable that module Rcu does not type has its type.
CTypeOK ==
  /\ TypeOK
  /\ next \in [Objects -> Nodes]
  /\ version \in [Objects -> Nat]
  /\ rcu_data \in [Cores -> [head : Nodes, tail : Nodes, count : Nat]]
  /\ min_version \in [Coros -> 0 .. UINT_MAX]
  /\ node \in [Coros -> Nodes]

Staged == UNION {Range(callbacks[k]) : k \in Cores}
Retiring ==
  {c \in Writers : pc[c] \in
     IF c \in Deferrers THEN {"sync"} ELSE {"sync", "scan", "delete"}}

\* Nothing leaks from the lists and nothing is freed twice: the allocated
\* objects are gp's, the fresh ones, those of writers that wait or are about to
\* hand theirs over, and those in the lists, all different.
CallbacksAccounted ==
  LET owned == {p[c] : c \in Fresh} \cup {q[c] : c \in Retiring} \cup {gp}
  IN  /\ CTypeOK
      /\ allocated = owned \cup Staged
      /\ owned \cap Staged = {}
      /\ \A k \in Cores : IsInjective(callbacks[k])
      /\ \A j, k \in Cores :
           j # k => Range(callbacks[j]) \cap Range(callbacks[k]) = {}

\* The list a thread walks holds exactly the objects it was handed, in that
\* order, with increasing versions: thread_call_rcu() frees what "the thread"
\* handed over (the comment at rcu.cpp:92), and its break at the first young
\* object keeps back no old one.
ListIntact ==
  \A k \in Cores :
    LET s == callbacks[k]
    IN  /\ rcu_data[k].head = IF s = <<>> THEN Null ELSE Head(s)
        /\ rcu_data[k].tail = IF s = <<>> THEN Null ELSE Last(s)
        /\ \A n \in 1 .. Len(s) - 1 :
             next[s[n]] = s[n + 1] /\ version[s[n]] < version[s[n + 1]]

=============================================================================
