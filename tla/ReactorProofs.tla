--------------------------- MODULE ReactorProofs ---------------------------
(***************************************************************************)
(* Facts about the building blocks and the steps of module Reactor that    *)
(* the proofs about every primitive use: each keeps the types.             *)
(***************************************************************************)
EXTENDS Reactor, SequenceTheorems, TLAPS

\* Every task has a core.
LEMMA HomeType ==
  ASSUME NEW c \in Nat
  PROVE  Home(c) \in Cores
BY ReactorAssumption DEF Home, Cores

\* Submit sends a task to a core.
LEMMA SubmitType ==
  ASSUME ReactorTypeOK, Submit
  PROVE  ReactorTypeOK'
<1>1. Home(submitted) \in Cores
  BY HomeType, ReactorAssumption DEF ReactorTypeOK
<1>2. submitted \in Coros /\ submitted' \in 0 .. NumTasks
  BY ReactorAssumption DEF ReactorTypeOK, Submit, Coros
<1>3. inbox' \in [Cores -> Seq(Coros)]
  BY <1>1, <1>2, AppendProperties DEF ReactorTypeOK, Submit, SendMsg
<1> QED
  BY <1>2, <1>3 DEF ReactorTypeOK, Submit, stackVars, rcuVars

\* rcu_offline keeps the types.
LEMMA OfflineType ==
  ASSUME ReactorTypeOK, NEW k \in Cores, rcu_offline(k)
  PROVE  /\ versions' \in [Cores -> Nat]
         /\ rcu_count' \in [Cores -> 0 .. (Refresh - 1)]
BY ReactorAssumption DEF ReactorTypeOK, rcu_offline

\* rcu_read_lock keeps the types: the counter wraps below Refresh.
LEMMA ReadLockType ==
  ASSUME ReactorTypeOK, NEW k \in Cores, NEW g \in Nat, rcu_read_lock(k, g)
  PROVE  /\ versions' \in [Cores -> Nat]
         /\ rcu_count' \in [Cores -> 0 .. (Refresh - 1)]
<1>1. rcu_count[k] \in 0 .. (Refresh - 1) /\ Refresh \in Nat \ {0}
  BY ReactorAssumption DEF ReactorTypeOK
<1>2. CASE rcu_count[k] + 1 = Refresh
  <2>1. 0 \in 0 .. (Refresh - 1)
    BY <1>1
  <2> QED
    BY <1>2, <2>1 DEF rcu_read_lock, ReactorTypeOK
<1>3. CASE rcu_count[k] + 1 # Refresh
  <2>1. rcu_count[k] + 1 \in 0 .. (Refresh - 1)
    BY <1>1, <1>3
  <2> QED
    BY <1>3, <2>1 DEF rcu_read_lock, ReactorTypeOK
<1> QED BY <1>2, <1>3

\* resume() and its return keep the stacks' types.
LEMMA ResumeType ==
  ASSUME ReactorTypeOK, NEW k \in Cores, NEW c \in Coros,
         Resume(k, c) \/ Return(k, c)
  PROVE  /\ running' \in [Cores -> Coros \cup {None}]
         /\ resumer' \in [Coros -> Coros \cup {None}]
BY DEF ReactorTypeOK, Resume, Return

\* Taking a message off an inbox keeps the types.
LEMMA DispatchType ==
  ASSUME ReactorTypeOK, NEW k \in Cores, Dispatch(k)
  PROVE  ReactorTypeOK'
<1>1. inbox[k] \in Seq(Coros) /\ inbox[k] # <<>>
  BY DEF ReactorTypeOK, Dispatch
<1>2. Head(inbox[k]) \in Coros /\ Tail(inbox[k]) \in Seq(Coros)
  BY <1>1, HeadTailProperties
<1> QED
  BY <1>2, ResumeType DEF ReactorTypeOK, Dispatch, rcuVars

\* yield() keeps the types.
LEMMA YieldType ==
  ASSUME ReactorTypeOK, NEW k \in Cores, NEW c \in Coros, Yield(k, c)
  PROVE  ReactorTypeOK'
<1>1. inbox' \in [Cores -> Seq(Coros)]
  BY AppendProperties DEF ReactorTypeOK, Yield, SendMsg
<1> QED
  BY <1>1, OfflineType, ResumeType DEF ReactorTypeOK, Yield

-----------------------------------------------------------------------------
(***************************************************************************)
(* Lists without repetition: the inboxes, queues and gates.                *)
(***************************************************************************)

\* Appending a new element to an injective sequence.
LEMMA InjectiveAppend ==
  ASSUME NEW S, NEW s \in Seq(S), NEW e \in S,
         IsInjective(s), e \notin Range(s)
  PROVE  /\ IsInjective(Append(s, e))
         /\ Range(Append(s, e)) = Range(s) \cup {e}
<1> DEFINE t == Append(s, e)
<1>1. /\ t \in Seq(S) /\ Len(t) = Len(s) + 1
      /\ \A i \in 1 .. Len(s) : t[i] = s[i]
      /\ t[Len(s) + 1] = e
  BY AppendProperties
<1>2. /\ DOMAIN t = 1 .. Len(s) + 1
      /\ DOMAIN s = 1 .. Len(s)
      /\ Len(s) \in Nat
  BY <1>1, LenProperties
<1> HIDE DEF t
<1>3. IsInjective(t)
  BY <1>1, <1>2 DEF IsInjective, Range
<1>4. Range(t) = Range(s) \cup {e}
  BY <1>1, <1>2 DEF Range
<1> QED BY <1>3, <1>4 DEF t

\* Dropping the head of an injective sequence.
LEMMA InjectiveTail ==
  ASSUME NEW S, NEW s \in Seq(S), s # <<>>, IsInjective(s)
  PROVE  /\ IsInjective(Tail(s))
         /\ Range(Tail(s)) = Range(s) \ {Head(s)}
         /\ Head(s) \in Range(s)
<1> DEFINE t == Tail(s)
<1>1. /\ t \in Seq(S) /\ Len(t) = Len(s) - 1
      /\ \A i \in 1 .. Len(t) : t[i] = s[i + 1]
  BY HeadTailProperties
<1>2. /\ DOMAIN t = 1 .. Len(s) - 1
      /\ DOMAIN s = 1 .. Len(s)
      /\ Len(s) \in Nat \ {0}
  BY <1>1, LenProperties, EmptySeq
<1>3. Head(s) = s[1]
  BY <1>2
<1> HIDE DEF t
<1>4. IsInjective(t)
  BY <1>1, <1>2 DEF IsInjective
<1>5. Range(t) \subseteq Range(s) \ {Head(s)}
  BY <1>1, <1>2, <1>3 DEF IsInjective, Range
<1>6. ASSUME NEW i \in DOMAIN s, s[i] # Head(s)
      PROVE  s[i] \in Range(t)
  <2>1. i - 1 \in DOMAIN t /\ t[i - 1] = s[i - 1 + 1]
    BY <1>1, <1>2, <1>3, <1>6
  <2>2. i - 1 + 1 = i
    BY <1>2
  <2> QED BY <2>1, <2>2 DEF Range
<1>7. Range(s) \ {Head(s)} \subseteq Range(t)
  BY <1>6 DEF Range
<1> QED BY <1>2, <1>3, <1>4, <1>5, <1>7 DEF t, Range

\* A new element in front of an injective list.
LEMMA InjectiveCons ==
  ASSUME NEW S, NEW s \in Seq(S), NEW e \in S
  PROVE  /\ <<e>> \o s \in Seq(S)
         /\ Range(<<e>> \o s) = Range(s) \cup {e}
         /\ IsInjective(s) /\ e \notin Range(s) => IsInjective(<<e>> \o s)
<1> DEFINE t == <<e>> \o s
<1>1. <<e>> \in Seq(S) /\ Len(<<e>>) = 1 /\ <<e>>[1] = e
  OBVIOUS
<1>2. /\ t \in Seq(S) /\ Len(t) = Len(s) + 1
      /\ t[1] = e
      /\ \A i \in 2 .. Len(s) + 1 : t[i] = s[i - 1]
  BY <1>1, ConcatProperties, LenProperties
<1>3. /\ DOMAIN t = 1 .. Len(s) + 1
      /\ DOMAIN s = 1 .. Len(s)
      /\ Len(s) \in Nat
  BY <1>2, LenProperties
<1> HIDE DEF t
<1>4. \A i \in 1 .. Len(s) : t[i + 1] = s[i] /\ i + 1 \in DOMAIN t
  <2> TAKE i \in 1 .. Len(s)
  <2>1. i + 1 \in 2 .. Len(s) + 1 /\ (i + 1) - 1 = i
    BY <1>3
  <2> QED BY <1>2, <1>3, <2>1
<1>5. Range(t) \subseteq Range(s) \cup {e}
  <2> SUFFICES ASSUME NEW i \in DOMAIN t, i # 1 PROVE t[i] \in Range(s)
    BY <1>2 DEF Range
  <2>1. i - 1 \in DOMAIN s /\ t[i] = s[i - 1]
    BY <1>2, <1>3
  <2> QED BY <2>1 DEF Range
<1>6. Range(s) \cup {e} \subseteq Range(t)
  <2>1. e \in Range(t)
    <3>1. 1 \in DOMAIN t
      BY <1>3
    <3> QED BY <1>2, <3>1 DEF Range
  <2>2. \A i \in DOMAIN s : s[i] \in Range(t)
    BY <1>3, <1>4 DEF Range
  <2> QED BY <2>1, <2>2 DEF Range
<1>7. ASSUME IsInjective(s), e \notin Range(s)
      PROVE  IsInjective(t)
  <2>1. \A i \in DOMAIN t : i # 1 => i - 1 \in DOMAIN s /\ t[i] = s[i - 1]
    BY <1>2, <1>3
  <2>2. \A i \in DOMAIN t : i # 1 => t[i] # e
    BY <1>7, <2>1 DEF Range
  <2> QED BY <1>2, <1>3, <1>7, <2>1, <2>2 DEF IsInjective
<1> QED BY <1>2, <1>5, <1>6, <1>7 DEF t

\* The empty list, and a list that has a head.
LEMMA RangeEmpty ==
  ASSUME NEW S, NEW s \in Seq(S)
  PROVE  /\ Range(s) \subseteq S
         /\ s = <<>> <=> Range(s) = {}
         /\ s = <<>> => IsInjective(s)
<1>1. DOMAIN s = 1 .. Len(s) /\ Len(s) \in Nat /\ \A i \in DOMAIN s : s[i] \in S
  BY LenProperties, ElementOfSeq
<1>2. s = <<>> <=> Len(s) = 0
  BY EmptySeq
<1>3. s = <<>> => DOMAIN s = {}
  BY <1>1, <1>2
<1>4. s # <<>> => 1 \in DOMAIN s
  BY <1>1, <1>2
<1> QED BY <1>1, <1>3, <1>4 DEF Range, IsInjective

\* The range of a concatenation, and when it repeats nothing.
LEMMA InjectiveConcat ==
  ASSUME NEW S, NEW s \in Seq(S), NEW t \in Seq(S)
  PROVE  /\ s \o t \in Seq(S)
         /\ Range(s \o t) = Range(s) \cup Range(t)
         /\ /\ IsInjective(s) /\ IsInjective(t) /\ Range(s) \cap Range(t) = {}
            => IsInjective(s \o t)
<1> DEFINE r == s \o t
<1>1. /\ r \in Seq(S) /\ Len(r) = Len(s) + Len(t)
      /\ \A i \in 1 .. Len(s) + Len(t) :
           r[i] = IF i <= Len(s) THEN s[i] ELSE t[i - Len(s)]
  BY ConcatProperties
<1>2. /\ DOMAIN r = 1 .. Len(s) + Len(t)
      /\ DOMAIN s = 1 .. Len(s) /\ DOMAIN t = 1 .. Len(t)
      /\ Len(s) \in Nat /\ Len(t) \in Nat
  BY <1>1, LenProperties
<1> HIDE DEF r
<1>3. \A i \in DOMAIN s : i \in DOMAIN r /\ r[i] = s[i]
  BY <1>1, <1>2
<1>4. \A j \in DOMAIN t : j + Len(s) \in DOMAIN r /\ r[j + Len(s)] = t[j]
  <2> TAKE j \in DOMAIN t
  <2>1. /\ j + Len(s) \in 1 .. Len(s) + Len(t)
        /\ ~(j + Len(s) <= Len(s)) /\ (j + Len(s)) - Len(s) = j
    BY <1>2
  <2> QED BY <1>1, <1>2, <2>1
<1>5. \A i \in DOMAIN r :
        \/ i \in DOMAIN s /\ r[i] = s[i]
        \/ i - Len(s) \in DOMAIN t /\ r[i] = t[i - Len(s)]
  BY <1>1, <1>2
<1>6. Range(r) \subseteq Range(s) \cup Range(t)
  BY <1>5 DEF Range
<1>7. Range(s) \cup Range(t) \subseteq Range(r)
  BY <1>3, <1>4 DEF Range
<1>8. ASSUME IsInjective(s), IsInjective(t), Range(s) \cap Range(t) = {}
      PROVE  IsInjective(r)
  <2> SUFFICES ASSUME NEW i \in DOMAIN r, NEW j \in DOMAIN r, r[i] = r[j]
               PROVE  i = j
    BY DEF IsInjective
  <2>1. CASE i \in DOMAIN s /\ r[i] = s[i] /\ j \in DOMAIN s /\ r[j] = s[j]
    BY <1>8, <2>1 DEF IsInjective
  <2>2. CASE /\ i - Len(s) \in DOMAIN t /\ r[i] = t[i - Len(s)]
             /\ j - Len(s) \in DOMAIN t /\ r[j] = t[j - Len(s)]
    <3>1. i - Len(s) = j - Len(s)
      BY <1>8, <2>2 DEF IsInjective
    <3> QED BY <1>2, <3>1
  <2>3. ~(i \in DOMAIN s /\ r[i] = s[i]
          /\ j - Len(s) \in DOMAIN t /\ r[j] = t[j - Len(s)])
    BY <1>8 DEF Range
  <2>4. ~(j \in DOMAIN s /\ r[j] = s[j]
          /\ i - Len(s) \in DOMAIN t /\ r[i] = t[i - Len(s)])
    BY <1>8 DEF Range
  <2> QED BY <1>5, <2>1, <2>2, <2>3, <2>4
<1> QED BY <1>1, <1>6, <1>7, <1>8 DEF r

-----------------------------------------------------------------------------
(***************************************************************************)
(* Call stacks and inboxes: what keeps a coroutine in one place.           *)
(***************************************************************************)

\* A coroutine has one frame: on top of one stack or below one other.
OneFrame ==
  /\ \A c \in Coros, j, k \in Cores : running[j] = c /\ running[k] = c => j = k
  /\ \A c, d, e \in Coros : resumer[d] = c /\ resumer[e] = c => d = e
  /\ \A c, d \in Coros, k \in Cores : ~(running[k] = c /\ resumer[d] = c)

\* It is in one inbox at most, once.
InboxOnce ==
  /\ \A k \in Cores : IsInjective(inbox[k])
  /\ \A j, k \in Cores : j # k => Range(inbox[j]) \cap Range(inbox[k]) = {}

\* Tasks scheduler_init has not sent yet, and tasks a message waits for.
Unsent(c) == c >= submitted
InInbox(c) == \E k \in Cores : c \in Range(inbox[k])

\* resume() of a coroutine that is on no stack.
LEMMA ResumeStack ==
  ASSUME ReactorTypeOK, OneFrame, NEW k \in Cores, NEW e \in Coros, ~OnStack(e), Resume(k, e)
  PROVE  /\ OneFrame'
         /\ \A d \in Coros : (OnStack(d))' => OnStack(d) \/ d = e
<1>1. /\ \A j \in Cores : running'[j] = IF j = k THEN e ELSE running[j]
      /\ \A d \in Coros : resumer'[d] = IF d = e THEN running[k] ELSE resumer[d]
  BY DEF Resume, ReactorTypeOK
<1>2. \A c \in Coros, i, j \in Cores : running'[i] = c /\ running'[j] = c => i = j
  BY <1>1 DEF OneFrame, OnStack
<1>3. \A c, d, f \in Coros : resumer'[d] = c /\ resumer'[f] = c => d = f
  BY <1>1 DEF OneFrame
<1>4. \A c, d \in Coros, j \in Cores : ~(running'[j] = c /\ resumer'[d] = c)
  BY <1>1 DEF OneFrame, OnStack
<1>5. \A d \in Coros : (OnStack(d))' => OnStack(d) \/ d = e
  BY <1>1 DEF OnStack
<1> QED BY <1>2, <1>3, <1>4, <1>5 DEF OneFrame

\* The coroutine on top of a stack suspends or returns.
LEMMA ReturnStack ==
  ASSUME ReactorTypeOK, OneFrame, NEW k \in Cores, NEW c \in Coros, running[k] = c, Return(k, c)
  PROVE  /\ OneFrame'
         /\ \A d \in Coros : (OnStack(d))' => OnStack(d) /\ d # c
<1>1. /\ \A j \in Cores : running'[j] = IF j = k THEN resumer[c] ELSE running[j]
      /\ \A d \in Coros : resumer'[d] = IF d = c THEN None ELSE resumer[d]
      /\ None \notin Coros
  BY ReactorAssumption DEF Return, ReactorTypeOK
<1>2. \A d \in Coros, i, j \in Cores : running'[i] = d /\ running'[j] = d => i = j
  BY <1>1 DEF OneFrame
<1>3. \A d, e, f \in Coros : resumer'[d] = e /\ resumer'[f] = e => d = f
  BY <1>1 DEF OneFrame
<1>4. \A e, d \in Coros, j \in Cores : ~(running'[j] = e /\ resumer'[d] = e)
  BY <1>1 DEF OneFrame
<1>5. \A d \in Coros : (OnStack(d))' => OnStack(d) /\ d # c
  BY <1>1 DEF OneFrame, OnStack
<1> QED BY <1>2, <1>3, <1>4, <1>5 DEF OneFrame

\* A message for a coroutine that has none.
LEMMA SendOnce ==
  ASSUME ReactorTypeOK, InboxOnce, NEW k \in Cores, NEW c \in Coros, ~InInbox(c), SendMsg(k, c)
  PROVE  /\ InboxOnce'
         /\ \A d \in Coros : (InInbox(d))' => InInbox(d) \/ d = c
         /\ \A j \in Cores : \A d \in Coros :
              d \in Range(inbox'[j]) => d \in Range(inbox[j]) \/ (j = k /\ d = c)
<1>1. inbox \in [Cores -> Seq(Coros)]
  BY DEF ReactorTypeOK
<1>2. /\ IsInjective(Append(inbox[k], c))
      /\ Range(Append(inbox[k], c)) = Range(inbox[k]) \cup {c}
  BY <1>1, InjectiveAppend DEF InboxOnce, InInbox
<1>3. /\ inbox'[k] = Append(inbox[k], c)
      /\ \A j \in Cores : j # k => inbox'[j] = inbox[j]
  BY <1>1 DEF SendMsg
<1>4. \A j \in Cores : /\ IsInjective(inbox'[j])
                        /\ Range(inbox'[j]) =
                             IF j = k THEN Range(inbox[k]) \cup {c} ELSE Range(inbox[j])
  BY <1>2, <1>3 DEF InboxOnce
<1>5. InboxOnce'
  BY <1>4 DEF InboxOnce, InInbox
<1>6. \A d \in Coros : (InInbox(d))' => InInbox(d) \/ d = c
  BY <1>4 DEF InInbox
<1>7. \A j \in Cores : \A d \in Coros :
        d \in Range(inbox'[j]) => d \in Range(inbox[j]) \/ (j = k /\ d = c)
  BY <1>4
<1> QED BY <1>5, <1>6, <1>7

\* The reactor takes a message.
LEMMA TakeOnce ==
  ASSUME ReactorTypeOK, InboxOnce, NEW k \in Cores, inbox[k] # <<>>,
         inbox' = [inbox EXCEPT ![k] = Tail(@)]
  PROVE  /\ InboxOnce'
         /\ Head(inbox[k]) \in Coros /\ InInbox(Head(inbox[k]))
         /\ Head(inbox[k]) \in Range(inbox[k])
         /\ \A j \in Cores : Range(inbox'[j]) \subseteq Range(inbox[j])
         /\ \A d \in Coros : (InInbox(d))' => InInbox(d) /\ d # Head(inbox[k])
<1>1. inbox \in [Cores -> Seq(Coros)]
  BY DEF ReactorTypeOK
<1>2. /\ IsInjective(Tail(inbox[k]))
      /\ Range(Tail(inbox[k])) = Range(inbox[k]) \ {Head(inbox[k])}
      /\ Head(inbox[k]) \in Range(inbox[k])
  BY <1>1, InjectiveTail DEF InboxOnce
<1>3. Head(inbox[k]) \in Coros
  BY <1>1, HeadTailProperties
<1>4. /\ inbox'[k] = Tail(inbox[k])
      /\ \A j \in Cores : j # k => inbox'[j] = inbox[j]
  BY <1>1
<1>5. \A j \in Cores : /\ IsInjective(inbox'[j])
                        /\ Range(inbox'[j]) =
                             IF j = k THEN Range(inbox[k]) \ {Head(inbox[k])}
                             ELSE Range(inbox[j])
  <2> TAKE j \in Cores
  <2>1. CASE j = k
    BY <1>2, <1>4, <2>1
  <2>2. CASE j # k
    BY <1>4, <2>2 DEF InboxOnce
  <2> QED BY <2>1, <2>2
<1>6. \A j \in Cores : Range(inbox'[j]) \subseteq Range(inbox[j])
  BY <1>5
<1>7. InboxOnce'
  <2>1. \A i, j \in Cores : i # j => Range(inbox'[i]) \cap Range(inbox'[j]) = {}
    BY <1>6 DEF InboxOnce
  <2> QED BY <1>5, <2>1 DEF InboxOnce
<1>8. \A d \in Coros : (InInbox(d))' => InInbox(d) /\ d # Head(inbox[k])
  BY <1>2, <1>5 DEF InInbox, InboxOnce
<1> QED BY <1>2, <1>3, <1>7, <1>8, <1>6 DEF InInbox

=============================================================================
