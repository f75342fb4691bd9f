-------------------------- MODULE PoolManager_proofs --------------------------
(* Theorems about PoolManager.                                             *)
EXTENDS PoolManager, SequenceTheorems, FiniteSetTheorems, TLAPS
-----------------------------------------------------------------------------
(* Queues.                                                                 *)

(* A part of a queue is a queue: SubSeq keeps the items m..n, in order.    *)
LEMMA SubSeqOfQueue ==
  ASSUME NEW S, NEW q \in Seq(S), NEW m \in Nat \ {0}, NEW n \in Nat, n <= Len(q)
  PROVE  /\ SubSeq(q, m, n) \in Seq(S)
         /\ DOMAIN SubSeq(q, m, n) = 1..(n - m + 1)
         /\ \A i \in 1..(n - m + 1) : SubSeq(q, m, n)[i] = q[m + i - 1]
<1>1. \A i \in m..n : q[i] \in S
  BY ElementOfSeq
<1>2. /\ SubSeq(q, m, n) \in Seq(S)
      /\ Len(SubSeq(q, m, n)) = IF m <= n THEN n - m + 1 ELSE 0
      /\ \A i \in 1..(n - m + 1) : SubSeq(q, m, n)[i] = q[m + i - 1]
  BY <1>1, SubSeqProperties
<1>3. DOMAIN SubSeq(q, m, n) = 1..Len(SubSeq(q, m, n))
  BY <1>2, LenProperties
<1>. QED  BY <1>2, <1>3

(* RemoveAt takes out the item at i, and the items behind it move up.      *)
LEMMA RemoveAtOfQueue ==
  ASSUME NEW S, NEW q \in Seq(S), NEW i \in DOMAIN q
  PROVE  /\ RemoveAt(q, i) \in Seq(S)
         /\ DOMAIN RemoveAt(q, i) = 1..(Len(q) - 1)
         /\ \A j \in 1..(Len(q) - 1) :
               RemoveAt(q, i)[j] = IF j < i THEN q[j] ELSE q[j + 1]
<1>. DEFINE s == SubSeq(q, 1, i - 1)
            t == SubSeq(q, i + 1, Len(q))
<1>1. Len(q) \in Nat /\ DOMAIN q = 1..Len(q) /\ i \in 1..Len(q)
  BY LenProperties
<1>2. /\ s \in Seq(S) /\ DOMAIN s = 1..(i - 1)
      /\ \A j \in 1..(i - 1) : s[j] = q[j]
  BY <1>1, SubSeqOfQueue
<1>3. /\ t \in Seq(S) /\ DOMAIN t = 1..(Len(q) - i)
      /\ \A j \in 1..(Len(q) - i) : t[j] = q[i + j]
  BY <1>1, SubSeqOfQueue
<1>4a. RemoveAt(q, i) = s \o t
  BY DEF RemoveAt
<1>. HIDE DEF s, t
<1>4. Len(s) = i - 1 /\ Len(t) = Len(q) - i
  BY <1>1, <1>2, <1>3, LenProperties
<1>5. /\ s \o t \in Seq(S)
      /\ Len(s \o t) = Len(q) - 1
      /\ \A j \in 1..(Len(q) - 1) :
            (s \o t)[j] = IF j <= i - 1 THEN s[j] ELSE t[j - (i - 1)]
  <2>1. /\ s \o t \in Seq(S)
        /\ Len(s \o t) = Len(s) + Len(t)
        /\ \A j \in 1..(Len(s) + Len(t)) :
              (s \o t)[j] = IF j <= Len(s) THEN s[j] ELSE t[j - Len(s)]
    BY <1>2, <1>3, ConcatProperties
  <2>2. Len(s) + Len(t) = Len(q) - 1
    BY <1>1, <1>4
  <2>. QED  BY <1>4, <2>1, <2>2
<1>6. DOMAIN (s \o t) = 1..(Len(q) - 1)
  BY <1>5, LenProperties
<1>8. ASSUME NEW j \in 1..(Len(q) - 1)
      PROVE  (s \o t)[j] = IF j < i THEN q[j] ELSE q[j + 1]
  <2>1. CASE j < i
    BY <1>1, <1>2, <1>5, <2>1
  <2>2. CASE ~(j < i)
    <3>1. /\ (s \o t)[j] = t[j - (i - 1)] /\ j - (i - 1) \in 1..(Len(q) - i)
          /\ i + (j - (i - 1)) = j + 1
      BY <1>1, <1>5, <2>2
    <3>. QED  BY <1>3, <2>2, <3>1
  <2>. QED  BY <2>1, <2>2
<1>. QED  BY <1>5, <1>6, <1>4a, <1>8

(* Unregister takes away at most one entry, and one of the task if there   *)
(* is one.                                                                 *)
LEMMA UnregisterOfTask ==
  ASSUME NEW t, NEW R \in Unregister(t)
  PROVE  /\ R \subseteq running
         /\ \A e \in running \ R : TaskOf[e] = t
         /\ R = running \/ \E e \in running : R = running \ {e}
         /\ (\E e \in running : TaskOf[e] = t)
               => \E e \in running : TaskOf[e] = t /\ R = running \ {e}
<1>. DEFINE entries == {e \in running : TaskOf[e] = t}
<1>1. CASE entries = {}
  BY <1>1 DEF Unregister
<1>2. CASE entries # {}
  <2>1. PICK e \in entries : R = running \ {e}
    BY <1>2 DEF Unregister
  <2>. QED  BY <2>1
<1>. QED  BY <1>1, <1>2
-----------------------------------------------------------------------------
(* Type correctness.                                                       *)

(* The queues that remain after nextQueued has taken an item are queues.   *)
LEMMA AfterTakeType ==
  ASSUME TypeOK, NEW a \in Actions, NEW i \in DOMAIN queues[a], NEW S, Takes(a, i)
  PROVE  AfterTake(a, i, S) \in [Actions -> Seq(Calls)]
<1>1. queues[a] \in Seq(Calls) /\ Len(queues[a]) \in Nat /\ i \in 1..Len(queues[a])
  BY LenProperties DEF TypeOK
<1>2. SubSeq(queues[a], 1, i - 1) \in Seq(Calls)
  BY <1>1, SubSeqOfQueue
<1>3. SubSeq(queues[a], i + 1, Len(queues[a])) \in Seq(Calls)
  BY <1>1, SubSeqOfQueue
<1>4. Rest(a, i) \in Seq(Calls)
  BY <1>2, <1>3 DEF Rest
<1>5. <<>> \in Seq(Calls)
  BY EmptySeq
<1>. QED  BY <1>4, <1>5 DEF AfterTake, TypeOK

(* The action order stays a sequence of actions.                           *)
LEMMA MoveToFrontType ==
  ASSUME TypeOK, NEW a \in Actions
  PROVE  MoveToFront(a) \in Seq(Actions)
<1>1. <<a>> \in Seq(Actions) /\ actionOrder \in Seq(Actions)
  BY DEF TypeOK
<1>2. CASE \E i \in DOMAIN actionOrder : actionOrder[i] = a
  <2>. DEFINE k == CHOOSE i \in DOMAIN actionOrder : actionOrder[i] = a
  <2>1. k \in DOMAIN actionOrder
    BY <1>2
  <2>2. MoveToFront(a) = <<a>> \o RemoveAt(actionOrder, k)
    BY <1>2 DEF MoveToFront
  <2>. HIDE DEF k
  <2>3. RemoveAt(actionOrder, k) \in Seq(Actions)
    BY <1>1, <2>1, RemoveAtOfQueue
  <2>. QED  BY <1>1, <2>2, <2>3, ConcatProperties
<1>3. CASE ~ \E i \in DOMAIN actionOrder : actionOrder[i] = a
  BY <1>1, <1>3, ConcatProperties DEF MoveToFront
<1>. QED  BY <1>2, <1>3

(* What Release leaves behind has the right types.                         *)
LEMMA ReleaseType ==
  ASSUME TypeOK, NEW t, NEW ph \in [Calls -> Phases], Release(t, ph)
  PROVE  /\ running' \subseteq Calls
         /\ queues' \in [Actions -> Seq(Calls)]
         /\ phase' \in [Calls -> Phases]
<1>1. CASE ReleaseAndAdmit(t, ph)
  <2>1. PICK a \in Actions : \E i \in Fresh(a), S \in Passed(a) : Admit(t, ph, a, i, S)
    BY <1>1 DEF ReleaseAndAdmit
  <2>1a. PICK i \in Fresh(a), S \in Passed(a) : Admit(t, ph, a, i, S)
    BY <2>1
  <2>2. i \in DOMAIN queues[a] /\ queues[a] \in Seq(Calls)
    BY DEF Fresh, TypeOK
  <2>3. queues[a][i] \in Calls
    BY <2>2, ElementOfSeq, LenProperties
  <2>4. running' \subseteq Calls
    BY <2>1a, <2>3, UnregisterOfTask DEF TypeOK, Admit
  <2>5. phase' \in [Calls -> Phases]
    BY <2>1a DEF Phases, Admit
  <2>. QED  BY <2>1a, <2>2, <2>4, <2>5, AfterTakeType DEF Admit
<1>2. CASE ReleaseOnly(t, ph)
  <2>1. running' \subseteq Calls
    BY <1>2, UnregisterOfTask DEF ReleaseOnly, TypeOK
  <2>2. queues' \in [Actions -> Seq(Calls)]
    BY <1>2, EmptySeq DEF ReleaseOnly
  <2>3. phase' \in [Calls -> Phases]
    BY <1>2 DEF ReleaseOnly, Phases
  <2>. QED  BY <2>1, <2>2, <2>3
<1>. QED  BY <1>1, <1>2 DEF Release

(* Taking items off the queues keeps the types.                            *)
LEMMA TakeOffType ==
  ASSUME TypeOK, NEW Q \in [Actions -> Seq(Calls)], TakeOff(Q),
         running' \subseteq Calls, drained' \in BOOLEAN
  PROVE  TypeOK'
<1>1. phase' \in [Calls -> Phases]
  BY DEF TakeOff, TypeOK, Phases
<1>. QED  BY <1>1 DEF TakeOff, TypeOK

(* A configuration stays one when set_pool writes to it.                   *)
LEMMA SetLimitsType ==
  ASSUME TypeOK, NEW s \in Scopes, NEW l \in Nat, NEW n \in Nat, SetLimits(s, l, n)
  PROVE  config' \in [Scopes -> PoolConfig]
<1>. DEFINE old == IF config[s].queue = NoQueue THEN Disabled ELSE config[s].queue
            new == [old EXCEPT !.size = n]
<1>1. old \in QueueConfig
  BY DEF TypeOK, PoolConfig, QueueConfig, Disabled
<1>2. new \in QueueConfig
  BY <1>1 DEF QueueConfig
<1>3. config' = [config EXCEPT ![s] = [limit |-> l, queue |-> new]]
  BY DEF SetLimits
<1>. HIDE DEF new
<1>4. [limit |-> l, queue |-> new] \in PoolConfig
  BY <1>2 DEF PoolConfig
<1>. QED  BY <1>3, <1>4 DEF TypeOK

LEMMA InitType == Init => TypeOK
<1>1. <<>> \in Seq(Calls) /\ <<>> \in Seq(Actions)
  BY EmptySeq
<1>. QED  BY <1>1, PoolAssumption DEF Init, TypeOK, Phases

LEMMA AcquireType ==
  ASSUME TypeOK, NEW c \in Calls, Acquire(c)
  PROVE  TypeOK'
<1>. DEFINE a == ActionOf[c]
<1>1. a \in Actions
  BY PoolAssumption
<1>2. ASSUME NoRoom(c) PROVE capture' \in [Actions -> Scopes \cup {Unset, Detached}]
  BY <1>1, <1>2 DEF NoRoom, TypeOK, CaptureOf, EffectiveScope, Scopes
<1>3. CASE AcquireRun(c)
  BY <1>3 DEF AcquireRun, TypeOK, Phases
<1>4. CASE AcquireQueue(c)
  <2>1. queues' \in [Actions -> Seq(Calls)]
    BY <1>1, <1>4, AppendProperties DEF AcquireQueue, TypeOK
  <2>2. actionOrder' \in Seq(Actions)
    BY <1>1, <1>4, MoveToFrontType DEF AcquireQueue
  <2>3. phase' \in [Calls -> Phases]
    BY <1>4 DEF AcquireQueue, TypeOK, Phases
  <2>. QED  BY <1>2, <1>4, <2>1, <2>2, <2>3 DEF AcquireQueue, NoRoom, TypeOK
<1>5. CASE AcquireDisplace(c)
  <2>1. PICK b \in DisplaceFrom(c) : \E i \in DOMAIN queues[b] : Displace(c, b, i)
    BY <1>5 DEF AcquireDisplace
  <2>1a. PICK i \in DOMAIN queues[b] : Displace(c, b, i)
    BY <2>1
  <2>. DEFINE rest == [queues EXCEPT ![b] = RemoveAt(@, i)]
  <2>2. b \in Actions /\ queues[b] \in Seq(Calls)
    BY <1>1 DEF DisplaceFrom, TypeOK
  <2>3. rest \in [Actions -> Seq(Calls)]
    BY <2>2, RemoveAtOfQueue DEF TypeOK
  <2>. HIDE DEF rest
  <2>4. queues' \in [Actions -> Seq(Calls)]
    BY <1>1, <2>1a, <2>3, AppendProperties DEF rest, Displace
  <2>5. phase' \in [Calls -> Phases]
    BY <2>1a DEF TypeOK, Phases, Displace
  <2>6. actionOrder' \in Seq(Actions)
    BY <1>1, <1>5, MoveToFrontType DEF AcquireDisplace
  <2>. QED  BY <1>2, <1>5, <2>4, <2>5, <2>6 DEF AcquireDisplace, NoRoom, TypeOK
<1>6. CASE AcquireReject(c)
  BY <1>2, <1>6 DEF AcquireReject, NoRoom, TypeOK, Phases
<1>. QED  BY <1>3, <1>4, <1>5, <1>6 DEF Acquire

(* Every step of the pool keeps the types.                                 *)
LEMMA NextType ==
  ASSUME TypeOK, [Next]_poolVars
  PROVE  TypeOK'
<1>1. ASSUME NEW c \in Calls, Request(c) PROVE TypeOK'
  BY <1>1, AcquireType DEF Request
<1>2. ASSUME NEW c \in Calls, StartOK(c) \/ StartFail(c) \/ RunCancelFn(c) PROVE TypeOK'
  BY <1>2 DEF StartOK, StartFail, RunCancelFn, TypeOK, Phases
<1>3. ASSUME NEW c \in Calls, Rollback(c) PROVE TypeOK'
  <2>1. running' \subseteq Calls
    BY <1>3, UnregisterOfTask DEF Rollback, TypeOK
  <2>. QED  BY <1>3, <2>1 DEF Rollback, TypeOK, Phases
<1>4. ASSUME NEW c \in Calls, Exit(c) PROVE TypeOK'
  <2>. DEFINE ph == [phase EXCEPT ![c] = "ended"]
  <2>1. ph \in [Calls -> Phases] /\ Release(TaskOf[c], ph)
    BY <1>4 DEF Exit, TypeOK, Phases
  <2>. HIDE DEF ph
  <2>2. /\ running' \subseteq Calls /\ queues' \in [Actions -> Seq(Calls)]
        /\ phase' \in [Calls -> Phases]
    BY <2>1, ReleaseType
  <2>. QED  BY <1>4, <2>1, <2>2 DEF Exit, Release, TypeOK
<1>5. ASSUME NEW c \in Calls, Age(c) PROVE TypeOK'
  BY <1>5 DEF Age, TypeOK
<1>6. ASSUME NEW t, Dequeue(t) PROVE TypeOK'
  <2>1. PICK a \in Actions : \E i \in DOMAIN queues[a] :
          TakeOff([queues EXCEPT ![a] = RemoveAt(@, i)])
    BY <1>6 DEF Dequeue
  <2>2. PICK i \in DOMAIN queues[a] : TakeOff([queues EXCEPT ![a] = RemoveAt(@, i)])
    BY <2>1
  <2>3. [queues EXCEPT ![a] = RemoveAt(@, i)] \in [Actions -> Seq(Calls)]
    BY RemoveAtOfQueue DEF TypeOK
  <2>. QED  BY <1>6, <2>2, <2>3, TakeOffType DEF Dequeue, TypeOK
<1>7. ASSUME NEW a \in Actions, Expire(a) PROVE TypeOK'
  <2>1. PICK n \in DOMAIN queues[a] :
          TakeOff([queues EXCEPT ![a] = SubSeq(@, n + 1, Len(@))])
    BY <1>7 DEF Expire
  <2>2. queues[a] \in Seq(Calls) /\ n \in 1..Len(queues[a]) /\ Len(queues[a]) \in Nat
    BY LenProperties DEF TypeOK
  <2>3. SubSeq(queues[a], n + 1, Len(queues[a])) \in Seq(Calls)
    BY <2>2, SubSeqOfQueue
  <2>4. [queues EXCEPT ![a] = SubSeq(@, n + 1, Len(@))] \in [Actions -> Seq(Calls)]
    BY <2>3 DEF TypeOK
  <2>. QED  BY <1>7, <2>1, <2>4, TakeOffType DEF Expire, TypeOK
<1>8. ASSUME NEW s \in Scopes, PurgeQueue(s) PROVE TypeOK'
  <2>1. [a \in Actions |-> IF s \in {a, Global} THEN <<>> ELSE queues[a]]
          \in [Actions -> Seq(Calls)]
    BY EmptySeq DEF TypeOK
  <2>. QED  BY <1>8, <2>1, TakeOffType DEF PurgeQueue, TypeOK
<1>9. CASE DrainAll
  <2>1. [a \in Actions |-> <<>>] \in [Actions -> Seq(Calls)]
    BY EmptySeq
  <2>. QED  BY <1>9, <2>1, TakeOffType DEF DrainAll
<1>10. ASSUME NEW s \in Scopes, NEW l \in NewLimits, NEW n \in NewSizes, SetLimits(s, l, n)
       PROVE  TypeOK'
  <2>1. l \in Nat /\ n \in Nat
    BY PoolAssumption
  <2>2. config' \in [Scopes -> PoolConfig]
    BY <1>10, <2>1, SetLimitsType
  <2>3. stopping' \subseteq Calls
    BY <1>10 DEF SetLimits, RunningFor, kSubset, TypeOK
  <2>. QED  BY <1>10, <2>2, <2>3 DEF SetLimits, TypeOK
<1>11. ASSUME NEW c \in Calls, StopExcess(c) PROVE TypeOK'
  <2>1. phase \in [Calls -> Phases] /\ Release(TaskOf[c], phase)
    BY <1>11 DEF StopExcess, TypeOK
  <2>2. /\ running' \subseteq Calls /\ queues' \in [Actions -> Seq(Calls)]
        /\ phase' \in [Calls -> Phases]
    BY <2>1, ReleaseType
  <2>. QED  BY <1>11, <2>1, <2>2 DEF StopExcess, Release, TypeOK
<1>12. CASE UNCHANGED poolVars
  BY <1>12 DEF TypeOK, poolVars
<1>. QED  BY <1>1, <1>2, <1>3, <1>4, <1>5, <1>6, <1>7, <1>8, <1>9, <1>10, <1>11, <1>12
          DEF Next, Serve, Resize

(* Type correctness of the pool, whatever the limits, the queues and the    *)
(* set_pool requests are.                                                  *)
THEOREM TypeCorrect == Spec => []TypeOK
<1>1. Init => TypeOK
  BY InitType
<1>2. TypeOK /\ [Next]_poolVars => TypeOK'
  BY NextType
<1>. QED  BY <1>1, <1>2, PTL DEF Spec
-----------------------------------------------------------------------------
(* The inductive invariant.  QueuesSound and NoSlotLeak hold each other up: *)
(* an item is admitted into the running list, so it must have been waiting *)
(* there once and for itself; and a release removes some entry of a task,  *)
(* so the entry is the caller's own only if no other live call has its     *)
(* task.  OneCallPerTask is what the owner's discipline (Owned) provides.  *)
OneCallPerTask ==
  \A c, d \in Calls : Live(c) /\ Live(d) /\ TaskOf[c] = TaskOf[d] => c = d

PoolInv == TypeOK /\ QueuesSound /\ NoSlotLeak /\ OneCallPerTask

(* The step brings no call to life.                                        *)
NoneRevived == \A c \in Calls : Live(c)' => Live(c)

(* The step starts no call whose cancelFn has run or is due.               *)
CancelKept == \A c \in Calls : phase[c] \in {"cancelling", "cancelled"}
                               => phase'[c] \in {"cancelling", "cancelled"}

LEMMA OneCallKept == OneCallPerTask /\ NoneRevived => OneCallPerTask'
BY DEF OneCallPerTask, NoneRevived

(* Q holds no more than the queues do, and nothing twice.                  *)
Thinned(Q) == \A a \in Actions : /\ IsInjective(Q[a])
                                 /\ ToSet(Q[a]) \subseteq ToSet(queues[a])

LEMMA RemoveAtThins ==
  ASSUME TypeOK, QueuesSound, NEW a \in Actions, NEW i \in DOMAIN queues[a]
  PROVE  /\ Thinned([queues EXCEPT ![a] = RemoveAt(@, i)])
         /\ queues[a][i] \notin ToSet(RemoveAt(queues[a], i))
<1>. DEFINE q == queues[a]
            r == RemoveAt(q, i)
<1>1. q \in Seq(Calls) /\ Len(q) \in Nat /\ DOMAIN q = 1..Len(q)
  BY LenProperties DEF TypeOK
<1>2. /\ DOMAIN r = 1..(Len(q) - 1)
      /\ \A j \in 1..(Len(q) - 1) : r[j] = IF j < i THEN q[j] ELSE q[j + 1]
  BY <1>1, RemoveAtOfQueue
<1>. HIDE DEF r
<1>3. \A j, k \in DOMAIN q : q[j] = q[k] => j = k
  BY DEF QueuesSound, IsInjective
<1>4. IsInjective(r)
  <2>. SUFFICES ASSUME NEW j \in DOMAIN r, NEW k \in DOMAIN r, r[j] = r[k] PROVE j = k
    BY DEF IsInjective
  <2>. DEFINE at(x) == IF x < i THEN x ELSE x + 1
  <2>1. at(j) \in DOMAIN q /\ at(k) \in DOMAIN q
    BY <1>1, <1>2
  <2>2. q[at(j)] = q[at(k)]
    BY <1>1, <1>2
  <2>3. at(j) = at(k)
    BY <1>3, <2>1, <2>2
  <2>. QED  BY <1>1, <1>2, <2>3
<1>5. \A j \in DOMAIN r : r[j] \in ToSet(q) /\ r[j] # q[i]
  <2>. SUFFICES ASSUME NEW j \in DOMAIN r PROVE r[j] \in ToSet(q) /\ r[j] # q[i]
    OBVIOUS
  <2>. DEFINE k == IF j < i THEN j ELSE j + 1
  <2>1. k \in DOMAIN q /\ r[j] = q[k] /\ k # i
    BY <1>1, <1>2
  <2>. QED  BY <1>1, <1>3, <2>1 DEF ToSet
<1>6. ToSet(r) \subseteq ToSet(q) /\ q[i] \notin ToSet(r)
  BY <1>5 DEF ToSet
<1>7. Thinned([queues EXCEPT ![a] = r])
  BY <1>4, <1>6 DEF Thinned, TypeOK, QueuesSound
<1>. QED  BY <1>6, <1>7 DEF r

LEMMA SubSeqThins ==
  ASSUME TypeOK, QueuesSound, NEW a \in Actions, NEW m \in Nat \ {0}, NEW n \in Nat,
         n <= Len(queues[a])
  PROVE  /\ IsInjective(SubSeq(queues[a], m, n))
         /\ ToSet(SubSeq(queues[a], m, n)) = {queues[a][k] : k \in m..n}
         /\ ToSet(SubSeq(queues[a], m, n)) \subseteq ToSet(queues[a])
<1>. DEFINE q == queues[a]
            r == SubSeq(q, m, n)
<1>1. q \in Seq(Calls) /\ Len(q) \in Nat /\ DOMAIN q = 1..Len(q)
  BY LenProperties DEF TypeOK
<1>2. /\ DOMAIN r = 1..(n - m + 1)
      /\ \A j \in 1..(n - m + 1) : r[j] = q[m + j - 1]
  BY <1>1, SubSeqOfQueue
<1>. HIDE DEF r
<1>3. \A j, k \in DOMAIN q : q[j] = q[k] => j = k
  BY DEF QueuesSound, IsInjective
<1>4. IsInjective(r)
  <2>. SUFFICES ASSUME NEW j \in DOMAIN r, NEW k \in DOMAIN r, r[j] = r[k] PROVE j = k
    BY DEF IsInjective
  <2>1. m + j - 1 \in DOMAIN q /\ m + k - 1 \in DOMAIN q
    BY <1>1, <1>2
  <2>2. m + j - 1 = m + k - 1
    BY <1>2, <1>3, <2>1
  <2>. QED  BY <1>2, <2>2
<1>5. ToSet(r) \subseteq {q[k] : k \in m..n}
  <2>. SUFFICES ASSUME NEW j \in DOMAIN r PROVE r[j] \in {q[k] : k \in m..n}
    BY DEF ToSet
  <2>1. m + j - 1 \in m..n /\ r[j] = q[m + j - 1]
    BY <1>1, <1>2
  <2>. QED  BY <2>1
<1>6. ASSUME NEW k \in m..n PROVE q[k] \in ToSet(r)
  <2>1. k - m + 1 \in DOMAIN r /\ m + (k - m + 1) - 1 = k
    BY <1>1, <1>2
  <2>. QED  BY <1>2, <2>1 DEF ToSet
<1>7. \A k \in m..n : k \in DOMAIN q
  BY <1>1
<1>. QED  BY <1>4, <1>5, <1>6, <1>7 DEF r, ToSet

LEMMA TailThins ==
  ASSUME TypeOK, QueuesSound, NEW a \in Actions, NEW n \in DOMAIN queues[a]
  PROVE  Thinned([queues EXCEPT ![a] = SubSeq(@, n + 1, Len(@))])
<1>1. n + 1 \in Nat \ {0} /\ Len(queues[a]) \in Nat /\ Len(queues[a]) <= Len(queues[a])
  BY LenProperties DEF TypeOK
<1>2. /\ IsInjective(SubSeq(queues[a], n + 1, Len(queues[a])))
      /\ ToSet(SubSeq(queues[a], n + 1, Len(queues[a]))) \subseteq ToSet(queues[a])
  BY <1>1, SubSeqThins
<1>. QED  BY <1>2 DEF Thinned, QueuesSound, TypeOK

LEMMA PurgeThins ==
  ASSUME QueuesSound, NEW s
  PROVE  Thinned([a \in Actions |-> IF s \in {a, Global} THEN <<>> ELSE queues[a]])
BY EmptySeq DEF Thinned, QueuesSound, IsInjective, ToSet

(* What nextQueued leaves of the queues: it takes one item out for good.    *)
LEMMA AfterTakeThins ==
  ASSUME TypeOK, QueuesSound, NEW a \in Actions, NEW i \in DOMAIN queues[a], NEW S
  PROVE  /\ Thinned(AfterTake(a, i, S))
         /\ \A b \in Actions : queues[a][i] \notin ToSet(AfterTake(a, i, S)[b])
<1>. DEFINE q == queues[a]
            Q == AfterTake(a, i, S)
<1>1. q \in Seq(Calls) /\ Len(q) \in Nat /\ DOMAIN q = 1..Len(q) /\ i \in 1..Len(q)
  BY LenProperties DEF TypeOK
<1>2. /\ IsInjective(Rest(a, i)) /\ ToSet(Rest(a, i)) \subseteq ToSet(q)
      /\ q[i] \notin ToSet(Rest(a, i))
  <2>1. \A j, k \in DOMAIN q : q[j] = q[k] => j = k
    BY DEF QueuesSound, IsInjective
  <2>. DEFINE m == IF Cfg(a).lifo THEN 1 ELSE i + 1
              n == IF Cfg(a).lifo THEN i - 1 ELSE Len(q)
  <2>2. /\ Rest(a, i) = SubSeq(queues[a], m, n)
        /\ m \in Nat \ {0} /\ n \in Nat /\ n <= Len(queues[a]) /\ i \notin m..n
        /\ m..n \subseteq DOMAIN q
    <3>1. CASE Cfg(a).lifo
      BY <1>1, <3>1 DEF Rest
    <3>2. CASE ~Cfg(a).lifo
      BY <1>1, <3>2 DEF Rest
    <3>. QED  BY <3>1, <3>2
  <2>. HIDE DEF m, n
  <2>3. /\ IsInjective(Rest(a, i)) /\ ToSet(Rest(a, i)) \subseteq ToSet(q)
        /\ ToSet(Rest(a, i)) = {q[k] : k \in m..n}
    <3>1. /\ IsInjective(SubSeq(queues[a], m, n))
          /\ ToSet(SubSeq(queues[a], m, n)) = {queues[a][k] : k \in m..n}
          /\ ToSet(SubSeq(queues[a], m, n)) \subseteq ToSet(queues[a])
      BY <2>2, SubSeqThins
    <3>. QED  BY <2>2, <3>1
  <2>4. \A k \in m..n : q[k] # q[i]
    BY <1>1, <2>1, <2>2
  <2>. QED  BY <2>3, <2>4
<1>3. \A b \in Actions : /\ IsInjective(Q[b]) /\ ToSet(Q[b]) \subseteq ToSet(queues[b])
                         /\ q[i] \notin ToSet(Q[b])
  <2>. SUFFICES ASSUME NEW b \in Actions
                PROVE  /\ IsInjective(Q[b]) /\ ToSet(Q[b]) \subseteq ToSet(queues[b])
                       /\ q[i] \notin ToSet(Q[b])
    OBVIOUS
  <2>1. CASE b = a
    BY <1>2, <2>1 DEF AfterTake
  <2>2. CASE b # a /\ b \in S
    <3>1. Q[b] = <<>>
      BY <2>2 DEF AfterTake
    <3>. QED  BY <3>1, EmptySeq DEF IsInjective, ToSet
  <2>3. CASE b # a /\ b \notin S
    <3>1. Q[b] = queues[b]
      BY <2>3 DEF AfterTake
    <3>2. q[i] \notin ToSet(queues[b])
      BY <1>1, <2>3 DEF QueuesSound, ToSet
    <3>. QED  BY <3>1, <3>2 DEF QueuesSound
  <2>. QED  BY <2>1, <2>2, <2>3
<1>. QED  BY <1>3 DEF Thinned

(* Taking items off thinned queues leaves sound queues and revives none.   *)
LEMMA TakeOffSound ==
  ASSUME PoolInv, NEW Q, Thinned(Q), TakeOff(Q), running' \subseteq running
  PROVE  QueuesSound' /\ NoSlotLeak' /\ NoneRevived /\ CancelKept
<1>1. \A x \in Queued(queues) : x \in Calls => phase[x] = "queued"
  BY DEF Queued, PoolInv, QueuesSound
<1>2. \A x \in Calls : phase'[x] = IF x \in Queued(queues) \ Queued(Q)
                                   THEN "cancelling" ELSE phase[x]
  BY DEF TakeOff
<1>3. QueuesSound'
  <2>. SUFFICES ASSUME NEW a \in Actions, NEW x \in ToSet(Q[a])
                PROVE  phase'[x] = "queued" /\ ActionOf[x] = a
    BY DEF QueuesSound, TakeOff, Thinned
  <2>1. x \in ToSet(queues[a]) /\ x \in Queued(Q)
    BY DEF Thinned, Queued
  <2>2. x \in Calls
    BY <2>1, ElementOfSeq, LenProperties DEF ToSet, PoolInv, TypeOK
  <2>. QED  BY <1>2, <2>1, <2>2 DEF PoolInv, QueuesSound
<1>4. NoSlotLeak'
  BY <1>1, <1>2 DEF NoSlotLeak, PoolInv, TypeOK
<1>5. NoneRevived
  BY <1>1, <1>2 DEF NoneRevived, Live
<1>6. CancelKept
  BY <1>1, <1>2 DEF CancelKept
<1>. QED  BY <1>3, <1>4, <1>5, <1>6

(* The same for a release whose caller ends at most the call x, no entry of *)
(* which is left behind.                                                   *)
LEMMA ReleaseSound ==
  ASSUME PoolInv, NEW t, NEW ph \in [Calls -> Phases], Release(t, ph),
         \A x \in Calls : \/ ph[x] = phase[x]
                          \/ /\ phase[x] = "up" /\ ph[x] = "ended"
                             /\ \A R \in Unregister(t) : x \notin R
  PROVE  QueuesSound' /\ NoSlotLeak' /\ NoneRevived /\ CancelKept
<1>1. \A x \in Calls : x \in Queued(queues) => phase[x] = "queued" /\ ph[x] = "queued"
  BY DEF Queued, PoolInv, QueuesSound
<1>2. CASE ReleaseAndAdmit(t, ph)
  <2>1. PICK a \in Actions : \E i \in Fresh(a), S \in Passed(a) : Admit(t, ph, a, i, S)
    BY <1>2 DEF ReleaseAndAdmit
  <2>2. PICK i \in Fresh(a), S \in Passed(a) : Admit(t, ph, a, i, S)
    BY <2>1
  <2>. DEFINE q == queues[a]
              Q == AfterTake(a, i, S)
  <2>3. q \in Seq(Calls) /\ i \in DOMAIN q /\ DOMAIN q = 1..Len(q)
    BY LenProperties DEF Fresh, PoolInv, TypeOK
  <2>4. q[i] \in Calls /\ q[i] \in Queued(queues)
    BY <2>3, ElementOfSeq DEF Queued, ToSet
  <2>6. Thinned(Q) /\ \A b \in Actions : q[i] \notin ToSet(Q[b])
    BY <2>2, <2>3, AfterTakeThins DEF Admit, PoolInv
  <2>7. /\ queues' = Q
        /\ \A x \in Calls :
              phase'[x] = IF x = q[i] THEN "starting"
                          ELSE IF x \in Queued(queues) \ Queued(Q) THEN "cancelled"
                          ELSE ph[x]
        /\ \E R \in Unregister(t) : running' = R \cup {q[i]}
    BY <2>2 DEF Admit
  <2>. HIDE DEF Q, q
  <2>8. QueuesSound'
    <3>. SUFFICES ASSUME NEW b \in Actions, NEW x \in ToSet(Q[b])
                  PROVE  phase'[x] = "queued" /\ ActionOf[x] = b
      BY <2>6, <2>7 DEF QueuesSound, Thinned
    <3>1. x \in ToSet(queues[b]) /\ x \in Queued(Q) /\ x # q[i] /\ x \in Queued(queues)
      BY <2>6 DEF Queued, Thinned
    <3>2. x \in Calls
      BY <3>1, ElementOfSeq, LenProperties DEF ToSet, PoolInv, TypeOK
    <3>. QED  BY <1>1, <2>7, <3>1, <3>2 DEF PoolInv, QueuesSound
  <2>9. NoSlotLeak'
    <3>1. PICK R \in Unregister(t) : running' = R \cup {q[i]}
      BY <2>7
    <3>2. R \subseteq running
      BY UnregisterOfTask
    <3>. QED  BY <1>1, <2>4, <2>7, <3>1, <3>2 DEF q, NoSlotLeak, PoolInv, TypeOK
  <2>10. NoneRevived
    BY <1>1, <2>4, <2>7 DEF q, NoneRevived, Live
  <2>11. CancelKept
    BY <1>1, <2>4, <2>7 DEF q, CancelKept
  <2>. QED  BY <2>8, <2>9, <2>10, <2>11
<1>3. CASE ReleaseOnly(t, ph)
  <2>1. QueuesSound'
    BY <1>3, EmptySeq DEF ReleaseOnly, QueuesSound, IsInjective, ToSet
  <2>2. NoSlotLeak'
    BY <1>1, <1>3, UnregisterOfTask DEF ReleaseOnly, NoSlotLeak, PoolInv, TypeOK
  <2>3. NoneRevived
    BY <1>1, <1>3 DEF ReleaseOnly, NoneRevived, Live
  <2>4. CancelKept
    BY <1>1, <1>3 DEF ReleaseOnly, CancelKept
  <2>. QED  BY <2>1, <2>2, <2>3, <2>4
<1>. QED  BY <1>2, <1>3 DEF Release

(* Enqueue puts a newcomer behind the items of a queue.                    *)
LEMMA AppendOfQueue ==
  ASSUME NEW S, NEW q \in Seq(S), NEW x \in S, IsInjective(q), x \notin ToSet(q)
  PROVE  /\ Append(q, x) \in Seq(S)
         /\ IsInjective(Append(q, x))
         /\ ToSet(Append(q, x)) = ToSet(q) \cup {x}
<1>. DEFINE r == Append(q, x)
<1>1. /\ r \in Seq(S) /\ Len(q) \in Nat /\ DOMAIN q = 1..Len(q)
      /\ DOMAIN r = 1..(Len(q) + 1)
      /\ \A j \in 1..Len(q) : r[j] = q[j]
      /\ r[Len(q) + 1] = x
  BY AppendProperties, LenProperties
<1>. HIDE DEF r
<1>2. \A j \in DOMAIN r : j \in DOMAIN q \/ j = Len(q) + 1
  BY <1>1
<1>3. IsInjective(r)
  BY <1>1, <1>2 DEF IsInjective, ToSet
<1>4. ToSet(r) \subseteq ToSet(q) \cup {x}
  BY <1>1, <1>2 DEF ToSet
<1>5. Len(q) + 1 \in DOMAIN r /\ \A j \in DOMAIN q : j \in DOMAIN r
  BY <1>1
<1>6. ToSet(q) \cup {x} \subseteq ToSet(r)
  BY <1>1, <1>5 DEF ToSet
<1>. QED  BY <1>1, <1>3, <1>4, <1>6 DEF r

(* A newcomer disturbs no other call but the one it displaces.             *)
LEMMA AcquireSound ==
  ASSUME PoolInv, NEW c \in Calls, Acquire(c)
  PROVE  /\ QueuesSound' /\ NoSlotLeak' /\ CancelKept
         /\ \A x \in Calls : Live(x)' => Live(x) \/ x = c
<1>. DEFINE a == ActionOf[c]
<1>1. a \in Actions /\ TypeOK /\ QueuesSound
  BY PoolAssumption DEF PoolInv
<1>2. phase[c] = "idle" /\ c \notin running /\ \A b \in Actions : c \notin ToSet(queues[b])
  <2>1. phase[c] = "idle"
    BY DEF Acquire, AcquireRun, AcquireQueue, AcquireDisplace, AcquireReject, NoRoom
  <2>. QED  BY <2>1 DEF PoolInv, QueuesSound, NoSlotLeak
<1>3. CASE AcquireRun(c)
  <2>1. QueuesSound'
    BY <1>2, <1>3 DEF AcquireRun, PoolInv, QueuesSound, TypeOK
  <2>2. NoSlotLeak'
    BY <1>2, <1>3 DEF AcquireRun, PoolInv, NoSlotLeak, TypeOK
  <2>3. CancelKept /\ \A x \in Calls : Live(x)' => Live(x) \/ x = c
    BY <1>2, <1>3 DEF AcquireRun, CancelKept, Live, PoolInv, TypeOK
  <2>. QED  BY <2>1, <2>2, <2>3
<1>4. CASE AcquireQueue(c)
  <2>1. /\ IsInjective(Append(queues[a], c))
        /\ ToSet(Append(queues[a], c)) = ToSet(queues[a]) \cup {c}
    BY <1>1, <1>2, AppendOfQueue DEF QueuesSound, TypeOK
  <2>2. QueuesSound'
    BY <1>1, <1>2, <1>4, <2>1 DEF AcquireQueue, QueuesSound, TypeOK
  <2>3. NoSlotLeak'
    BY <1>2, <1>4 DEF AcquireQueue, NoRoom, PoolInv, NoSlotLeak, TypeOK
  <2>4. CancelKept /\ \A x \in Calls : Live(x)' => Live(x) \/ x = c
    BY <1>2, <1>4 DEF AcquireQueue, CancelKept, Live, PoolInv, TypeOK
  <2>. QED  BY <2>2, <2>3, <2>4
<1>5. CASE AcquireDisplace(c)
  <2>1. PICK b \in DisplaceFrom(c) : \E i \in DOMAIN queues[b] : Displace(c, b, i)
    BY <1>5 DEF AcquireDisplace
  <2>1a. PICK i \in DOMAIN queues[b] : Displace(c, b, i)
    BY <2>1
  <2>. DEFINE rest == [queues EXCEPT ![b] = RemoveAt(@, i)]
              out == queues[b][i]
  <2>2. b \in Actions /\ queues[b] \in Seq(Calls)
    BY <1>1 DEF DisplaceFrom, TypeOK
  <2>3. /\ out \in Calls /\ phase[out] = "queued" /\ ActionOf[out] = b
        /\ out \in ToSet(queues[b])
    BY <1>1, <2>2, ElementOfSeq, LenProperties DEF QueuesSound, ToSet
  <2>4. /\ rest \in [Actions -> Seq(Calls)]
        /\ Thinned(rest) /\ out \notin ToSet(rest[b])
    BY <1>1, <2>2, RemoveAtOfQueue, RemoveAtThins DEF TypeOK
  <2>5. /\ queues' = IF Full(a, rest[a]) THEN rest ELSE [rest EXCEPT ![a] = Append(@, c)]
        /\ phase' = [phase EXCEPT ![c] = "queued", ![out] = "cancelling"]
    BY <2>1a DEF Displace
  <2>. HIDE DEF rest, out
  <2>6. \A x \in Calls : phase'[x] = IF x = out THEN "cancelling"
                                     ELSE IF x = c THEN "queued" ELSE phase[x]
    BY <1>2, <2>3, <2>5 DEF PoolInv, TypeOK
  <2>7. \A d \in Actions : /\ IsInjective(rest[d])
                           /\ \A x \in ToSet(rest[d]) : /\ x \in Calls /\ x # out /\ x # c
                                                        /\ phase[x] = "queued"
                                                        /\ ActionOf[x] = d
    <3>. SUFFICES ASSUME NEW d \in Actions, NEW x \in ToSet(rest[d])
                  PROVE  /\ x \in Calls /\ x # out /\ x # c
                         /\ phase[x] = "queued" /\ ActionOf[x] = d
      BY <2>4 DEF Thinned
    <3>1. x \in ToSet(queues[d])
      BY <2>4 DEF Thinned
    <3>2. phase[x] = "queued" /\ ActionOf[x] = d
      BY <1>1, <3>1 DEF QueuesSound
    <3>3. x \in Calls
      BY <1>1, <3>1, ElementOfSeq, LenProperties DEF ToSet, TypeOK
    <3>4. x # out
      BY <2>3, <2>4, <3>2
    <3>. QED  BY <1>2, <3>1, <3>2, <3>3, <3>4
  <2>8. /\ IsInjective(Append(rest[a], c))
        /\ ToSet(Append(rest[a], c)) = ToSet(rest[a]) \cup {c}
    BY <1>1, <2>4, <2>7, AppendOfQueue
  <2>9. QueuesSound'
    <3>. SUFFICES ASSUME NEW d \in Actions
                  PROVE  /\ IsInjective(queues'[d])
                         /\ \A x \in ToSet(queues'[d]) : phase'[x] = "queued" /\ ActionOf[x] = d
      BY DEF QueuesSound
    <3>1. c # out
      BY <1>2, <2>3
    <3>2. CASE queues'[d] = rest[d]
      BY <2>6, <2>7, <3>2
    <3>3. CASE d = a /\ queues'[d] = Append(rest[a], c)
      BY <2>6, <2>7, <2>8, <3>1, <3>3
    <3>. QED  BY <1>1, <2>4, <2>5, <3>2, <3>3
  <2>10. NoSlotLeak'
    BY <1>2, <1>5, <2>3, <2>6 DEF AcquireDisplace, NoRoom, PoolInv, NoSlotLeak, TypeOK
  <2>11. CancelKept /\ \A x \in Calls : Live(x)' => Live(x) \/ x = c
    BY <1>2, <2>3, <2>6 DEF CancelKept, Live
  <2>. QED  BY <2>9, <2>10, <2>11
<1>6. CASE AcquireReject(c)
  <2>1. QueuesSound'
    BY <1>2, <1>6 DEF AcquireReject, PoolInv, QueuesSound, TypeOK
  <2>2. NoSlotLeak'
    BY <1>2, <1>6 DEF AcquireReject, NoRoom, PoolInv, NoSlotLeak, TypeOK
  <2>3. CancelKept /\ \A x \in Calls : Live(x)' => Live(x) \/ x = c
    BY <1>2, <1>6 DEF AcquireReject, CancelKept, Live, PoolInv, TypeOK
  <2>. QED  BY <2>1, <2>2, <2>3
<1>. QED  BY <1>3, <1>4, <1>5, <1>6 DEF Acquire

(* A call whose exit is reported leaves no entry: the entry that Unregister *)
(* finds under its task ID is its own.                                     *)
LEMMA OwnEntryGoes ==
  ASSUME PoolInv, NEW c \in Calls, Live(c), NEW R \in Unregister(TaskOf[c])
  PROVE  /\ c \notin R
         /\ running \ {c} \subseteq R
         /\ c \in running => R = running \ {c}
<1>1. \A e \in running : TaskOf[e] = TaskOf[c] => e = c
  BY DEF PoolInv, TypeOK, NoSlotLeak, OneCallPerTask, Live
<1>. QED  BY <1>1, UnregisterOfTask

(* A step of one call that does not wait leaves the queues sound.          *)
LEMMA QueuesUndisturbed ==
  ASSUME PoolInv, NEW c \in Calls, phase[c] # "queued", queues' = queues,
         \A x \in Calls : x # c => phase'[x] = phase[x]
  PROVE  QueuesSound'
<1>1. \A a \in Actions : ToSet(queues[a]) \subseteq Calls
  BY ElementOfSeq, LenProperties DEF ToSet, PoolInv, TypeOK
<1>2. ASSUME NEW a \in Actions, NEW x \in ToSet(queues[a])
      PROVE  phase'[x] = "queued" /\ ActionOf[x] = a
  BY <1>1 DEF PoolInv, QueuesSound
<1>. QED  BY <1>2 DEF PoolInv, QueuesSound

LEMMA NextInv ==
  ASSUME PoolInv, [Next]_poolVars
  PROVE  PoolInv' /\ CancelKept
<1>. USE DEF PoolInv
<1>1. TypeOK'
  BY NextType
<1>. SUFFICES QueuesSound' /\ NoSlotLeak' /\ OneCallPerTask' /\ CancelKept
  BY <1>1
<1>2. ASSUME NEW c \in Calls, Request(c)
      PROVE  QueuesSound' /\ NoSlotLeak' /\ OneCallPerTask' /\ CancelKept
  <2>1. /\ QueuesSound' /\ NoSlotLeak' /\ CancelKept
        /\ \A x \in Calls : Live(x)' => Live(x) \/ x = c
    BY <1>2, AcquireSound DEF Request
  <2>2. OneCallPerTask'
    BY <1>2, <2>1 DEF Request, Owned, OneCallPerTask
  <2>. QED  BY <2>1, <2>2
<1>. SUFFICES (\/ \E c \in Calls : \/ StartOK(c) \/ StartFail(c) \/ RunCancelFn(c)
                                   \/ Rollback(c) \/ Exit(c) \/ Age(c) \/ StopExcess(c)
                                   \/ Dequeue(TaskOf[c])
               \/ \E a \in Actions : Expire(a)
               \/ \E s \in Scopes : PurgeQueue(s)
               \/ DrainAll
               \/ \E s \in Scopes, l \in NewLimits, n \in NewSizes : SetLimits(s, l, n)
               \/ UNCHANGED poolVars)
              => QueuesSound' /\ NoSlotLeak' /\ NoneRevived /\ CancelKept
  BY <1>2, OneCallKept DEF Next, Serve, Resize
<1>3. ASSUME NEW c \in Calls, StartOK(c) \/ StartFail(c) \/ RunCancelFn(c)
      PROVE  QueuesSound' /\ NoSlotLeak' /\ NoneRevived /\ CancelKept
  <2>1. QueuesSound'
    <3>1. phase[c] # "queued" /\ queues' = queues
          /\ \A x \in Calls : x # c => phase'[x] = phase[x]
      BY <1>3 DEF StartOK, StartFail, RunCancelFn, TypeOK
    <3>. HIDE DEF PoolInv
    <3>. QED  BY <3>1, QueuesUndisturbed
  <2>2. NoSlotLeak'
    BY <1>3 DEF StartOK, StartFail, RunCancelFn, NoSlotLeak, TypeOK
  <2>3. NoneRevived /\ CancelKept
    BY <1>3 DEF StartOK, StartFail, RunCancelFn, NoneRevived, CancelKept, Live, TypeOK
  <2>. QED  BY <2>1, <2>2, <2>3
<1>4. ASSUME NEW c \in Calls, Rollback(c)
      PROVE  QueuesSound' /\ NoSlotLeak' /\ NoneRevived /\ CancelKept
  <2>1. running' \subseteq running /\ c \notin running'
    BY <1>4, OwnEntryGoes, UnregisterOfTask DEF Rollback, Live
  <2>2. QueuesSound'
    <3>1. phase[c] # "queued" /\ queues' = queues
          /\ \A x \in Calls : x # c => phase'[x] = phase[x]
      BY <1>4 DEF Rollback, TypeOK
    <3>. HIDE DEF PoolInv
    <3>. QED  BY <3>1, QueuesUndisturbed
  <2>3. NoSlotLeak'
    BY <1>4, <2>1 DEF Rollback, NoSlotLeak, TypeOK
  <2>4. NoneRevived /\ CancelKept
    BY <1>4 DEF Rollback, NoneRevived, CancelKept, Live, TypeOK
  <2>. QED  BY <2>2, <2>3, <2>4
<1>5. ASSUME NEW c \in Calls, Exit(c)
      PROVE  QueuesSound' /\ NoSlotLeak' /\ NoneRevived /\ CancelKept
  <2>. DEFINE ph == [phase EXCEPT ![c] = "ended"]
  <2>1. /\ ph \in [Calls -> Phases] /\ Release(TaskOf[c], ph)
        /\ \A x \in Calls : ph[x] = IF x = c THEN "ended" ELSE phase[x]
    BY <1>5 DEF Exit, TypeOK, Phases
  <2>. HIDE DEF ph
  <2>2. phase[c] = "up" /\ \A R \in Unregister(TaskOf[c]) : c \notin R
    BY <1>5, OwnEntryGoes DEF Exit, Live
  <2>. QED  BY <2>1, <2>2, ReleaseSound
<1>6. ASSUME NEW c \in Calls, StopExcess(c)
      PROVE  QueuesSound' /\ NoSlotLeak' /\ NoneRevived /\ CancelKept
  <2>1. phase \in [Calls -> Phases] /\ Release(TaskOf[c], phase)
    BY <1>6 DEF StopExcess, TypeOK
  <2>. QED  BY <2>1, ReleaseSound
<1>7. ASSUME NEW t, Dequeue(t)
      PROVE  QueuesSound' /\ NoSlotLeak' /\ NoneRevived /\ CancelKept
  <2>1. PICK a \in Actions : \E i \in DOMAIN queues[a] :
          TakeOff([queues EXCEPT ![a] = RemoveAt(@, i)])
    BY <1>7 DEF Dequeue
  <2>2. PICK i \in DOMAIN queues[a] : TakeOff([queues EXCEPT ![a] = RemoveAt(@, i)])
    BY <2>1
  <2>3. Thinned([queues EXCEPT ![a] = RemoveAt(@, i)])
    BY RemoveAtThins
  <2>. QED  BY <1>7, <2>2, <2>3, TakeOffSound DEF Dequeue
<1>8. ASSUME NEW a \in Actions, Expire(a)
      PROVE  QueuesSound' /\ NoSlotLeak' /\ NoneRevived /\ CancelKept
  <2>1. PICK n \in DOMAIN queues[a] :
          TakeOff([queues EXCEPT ![a] = SubSeq(@, n + 1, Len(@))])
    BY <1>8 DEF Expire
  <2>2. Thinned([queues EXCEPT ![a] = SubSeq(@, n + 1, Len(@))])
    BY TailThins
  <2>. QED  BY <1>8, <2>1, <2>2, TakeOffSound DEF Expire
<1>9. ASSUME NEW s \in Scopes, PurgeQueue(s)
      PROVE  QueuesSound' /\ NoSlotLeak' /\ NoneRevived /\ CancelKept
  BY <1>9, PurgeThins, TakeOffSound DEF PurgeQueue
<1>10. ASSUME DrainAll
       PROVE  QueuesSound' /\ NoSlotLeak' /\ NoneRevived /\ CancelKept
  <2>1. Thinned([a \in Actions |-> <<>>])
    BY EmptySeq DEF Thinned, IsInjective, ToSet
  <2>. QED  BY <1>10, <2>1, TakeOffSound DEF DrainAll
<1>11. ASSUME \/ \E c \in Calls : Age(c)
              \/ \E s \in Scopes, l \in NewLimits, n \in NewSizes : SetLimits(s, l, n)
              \/ UNCHANGED poolVars
       PROVE  QueuesSound' /\ NoSlotLeak' /\ NoneRevived /\ CancelKept
  <2>1. UNCHANGED <<queues, running, phase>>
    BY <1>11 DEF Age, SetLimits, poolVars
  <2>. QED  BY <2>1 DEF QueuesSound, NoSlotLeak, NoneRevived, CancelKept, Live
<1>. QED  BY <1>3, <1>4, <1>5, <1>6, <1>7, <1>8, <1>9, <1>10, <1>11

LEMMA InitInv == Init => PoolInv
<1>. SUFFICES ASSUME Init PROVE PoolInv
  OBVIOUS
<1>1. QueuesSound
  BY EmptySeq DEF Init, QueuesSound, IsInjective, ToSet
<1>2. NoSlotLeak /\ OneCallPerTask
  BY DEF Init, NoSlotLeak, OneCallPerTask, Live
<1>. QED  BY <1>1, <1>2, InitType DEF PoolInv

LEMMA PoolInvariant == Spec => []PoolInv
<1>1. PoolInv /\ [Next]_poolVars => PoolInv'
  BY NextInv
<1>. QED  BY <1>1, InitInv, PTL DEF Spec

(* No item is in two places, in the queue of another action, or in a queue  *)
(* after its startFn or cancelFn has become due, whatever set_pool does.   *)
THEOREM QueuesAreSound == Spec => []QueuesSound
<1>1. PoolInv => QueuesSound
  BY DEF PoolInv
<1>. QED  BY <1>1, PoolInvariant, PTL

(* No slot is held for a call that has ended, failed or still waits: the    *)
(* release by task ID never leaves the entry of the call that is over.     *)
THEOREM SlotsDoNotLeak == Spec => []NoSlotLeak
<1>1. PoolInv => NoSlotLeak
  BY DEF PoolInv
<1>. QED  BY <1>1, PoolInvariant, PTL

(* A call whose cancelFn is due is never started.                          *)
THEOREM CancellationIsFinal == Spec => CancelledIsFinal
<1>1. PoolInv /\ [Next]_poolVars
      => [\A c \in Calls : phase[c] \in {"cancelling", "cancelled"}
                           => phase'[c] \in {"cancelling", "cancelled"}]_poolVars
  BY NextInv DEF CancelKept
<1>. QED  BY <1>1, PoolInvariant, PTL DEF Spec, CancelledIsFinal
-----------------------------------------------------------------------------
(* The limit.  Release admits without a look at it, so the limit is kept    *)
(* only because a release gives back the slot it fills, and that is so only *)
(* while every started task holds its slot (UpHoldsSlot).                  *)
Unresized == config = InitConfig /\ asked = {}

FixedInv == PoolInv /\ Unresized /\ UpHoldsSlot /\ GlobalCapacity

LEMMA RunningFinite ==
  ASSUME TypeOK
  PROVE  IsFiniteSet(running) /\ Cardinality(running) \in Nat
BY PoolAssumption, FS_Subset, FS_CardinalityType DEF TypeOK

LEMMA OneMore ==
  ASSUME NEW S, IsFiniteSet(S), NEW x
  PROVE  Cardinality(S \cup {x}) \in Nat /\ Cardinality(S \cup {x}) <= Cardinality(S) + 1
<1>1. Cardinality(S) \in Nat
  BY FS_CardinalityType
<1>2. Cardinality(S \cup {x}) = IF x \in S THEN Cardinality(S) ELSE Cardinality(S) + 1
  BY FS_AddElement
<1>3. CASE x \in S
  BY <1>1, <1>2, <1>3
<1>4. CASE x \notin S
  BY <1>1, <1>2, <1>4
<1>. QED  BY <1>3, <1>4

(* An exit passes the slot on, or gives it back.                           *)
LEMMA ExitKeepsLimit ==
  ASSUME FixedInv, NEW c \in Calls, Exit(c)
  PROVE  UpHoldsSlot' /\ GlobalCapacity'
<1>. DEFINE t == TaskOf[c]
            ph == [phase EXCEPT ![c] = "ended"]
<1>1. /\ phase[c] = "up" /\ Live(c) /\ Release(t, ph)
      /\ \A x \in Calls : ph[x] = IF x = c THEN "ended" ELSE phase[x]
  BY DEF Exit, Live, FixedInv, PoolInv, TypeOK
<1>. HIDE DEF ph
<1>2. UNCHANGED <<config, asked, drained>>
  BY <1>1 DEF Exit, Release
<1>. SUFFICES ASSUME ~drained PROVE UpHoldsSlot' /\ GlobalCapacity'
  BY <1>2 DEF UpHoldsSlot, GlobalCapacity
<1>3. c \in running
  BY <1>1 DEF FixedInv, Unresized, UpHoldsSlot
<1>4. \A R \in Unregister(t) : R = running \ {c}
  BY <1>1, <1>3, OwnEntryGoes DEF FixedInv
<1>5. /\ IsFiniteSet(running) /\ Cardinality(running) \in Nat
      /\ IsFiniteSet(running \ {c}) /\ Cardinality(running \ {c}) = Cardinality(running) - 1
      /\ Cardinality(running \ {c}) \in Nat
  BY <1>3, RunningFinite, FS_RemoveElement, FS_CardinalityType DEF FixedInv, PoolInv
<1>6. /\ running \ {c} \subseteq running'
      /\ Cardinality(running') \in Nat /\ Cardinality(running') <= Cardinality(running)
      /\ \A x \in Calls : phase'[x] \in {"starting", "aborting", "up"}
                          => x \in running' \/ (x # c /\ phase'[x] = phase[x])
  <2>1. CASE ReleaseAndAdmit(t, ph)
    <3>1. PICK a \in Actions : \E i \in Fresh(a), S \in Passed(a) : Admit(t, ph, a, i, S)
      BY <2>1 DEF ReleaseAndAdmit
    <3>2. PICK i \in Fresh(a), S \in Passed(a) : Admit(t, ph, a, i, S)
      BY <3>1
    <3>3. running' = (running \ {c}) \cup {queues[a][i]}
      BY <1>4, <3>2 DEF Admit
    <3>4. Cardinality(running') \in Nat /\ Cardinality(running') <= Cardinality(running)
      <4>1. /\ Cardinality(running') \in Nat
            /\ Cardinality(running') <= Cardinality(running \ {c}) + 1
        BY <1>5, <3>3, OneMore
      <4>. QED  BY <1>5, <4>1
    <3>5. \A x \in Calls : phase'[x] = IF x = queues[a][i] THEN "starting"
                                       ELSE IF x \in Queued(queues) \ Queued(AfterTake(a, i, S))
                                       THEN "cancelled" ELSE ph[x]
      BY <3>2 DEF Admit
    <3>. QED  BY <1>1, <3>3, <3>4, <3>5
  <2>2. CASE ReleaseOnly(t, ph)
    <3>1. running' = running \ {c}
      BY <1>4, <2>2 DEF ReleaseOnly
    <3>2. \A x \in Calls : phase'[x] = IF x \in Queued(queues) THEN "cancelled" ELSE ph[x]
      BY <2>2 DEF ReleaseOnly
    <3>. QED  BY <1>1, <1>5, <3>1, <3>2
  <2>. QED  BY <1>1, <2>1, <2>2 DEF Release
<1>7. UpHoldsSlot'
  BY <1>2, <1>6 DEF UpHoldsSlot, FixedInv, Unresized
<1>8. GlobalCapacity'
  <2>1. config[Global].limit \in Nat
    BY DEF FixedInv, PoolInv, TypeOK, Scopes, PoolConfig
  <2>. QED  BY <1>2, <1>5, <1>6, <2>1 DEF GlobalCapacity, FixedInv
<1>. QED  BY <1>7, <1>8

(* A newcomer takes a slot only below the limit.                           *)
LEMMA AcquireKeepsLimit ==
  ASSUME FixedInv, NEW c \in Calls, Acquire(c)
  PROVE  UpHoldsSlot' /\ GlobalCapacity'
<1>1. CASE AcquireRun(c)
  <2>1. UpHoldsSlot'
    BY <1>1 DEF AcquireRun, UpHoldsSlot, FixedInv, PoolInv, TypeOK
  <2>2. config[Global].limit \in Nat
    BY DEF FixedInv, PoolInv, TypeOK, Scopes, PoolConfig
  <2>3. IsFiniteSet(running) /\ Cardinality(running) \in Nat
    BY RunningFinite DEF FixedInv, PoolInv
  <2>4. Cardinality(running \cup {c}) <= Cardinality(running) + 1
        /\ Cardinality(running \cup {c}) \in Nat
    BY <2>3, OneMore
  <2>5. GlobalCapacity'
    BY <1>1, <2>2, <2>3, <2>4 DEF AcquireRun, HasCapacity, GlobalCapacity
  <2>. QED  BY <2>1, <2>5
<1>2. CASE AcquireQueue(c) \/ AcquireDisplace(c) \/ AcquireReject(c)
  <2>1. UNCHANGED <<running, config, asked, drained>>
    BY <1>2 DEF AcquireQueue, AcquireDisplace, AcquireReject, NoRoom
  <2>2. \A x \in Calls : phase'[x] \in {"starting", "aborting", "up"} => phase'[x] = phase[x]
    <3>1. CASE AcquireQueue(c) \/ AcquireReject(c)
      BY <3>1 DEF AcquireQueue, AcquireReject, FixedInv, PoolInv, TypeOK
    <3>2. CASE AcquireDisplace(c)
      <4>1. PICK b \in DisplaceFrom(c) : \E i \in DOMAIN queues[b] : Displace(c, b, i)
        BY <3>2 DEF AcquireDisplace
      <4>2. PICK i \in DOMAIN queues[b] : Displace(c, b, i)
        BY <4>1
      <4>. QED  BY <4>2 DEF Displace, FixedInv, PoolInv, TypeOK
    <3>. QED  BY <1>2, <3>1, <3>2
  <2>. QED  BY <2>1, <2>2 DEF UpHoldsSlot, GlobalCapacity, FixedInv
<1>. QED  BY <1>1, <1>2 DEF Acquire

LEMMA ServeKeepsLimit ==
  ASSUME FixedInv, [Serve]_poolVars
  PROVE  Unresized' /\ UpHoldsSlot' /\ GlobalCapacity'
<1>1. Unresized'
  BY DEF FixedInv, Unresized, Serve, Request, Acquire, AcquireRun, AcquireQueue,
         AcquireDisplace, AcquireReject, NoRoom, StartOK, StartFail, Rollback, RunCancelFn,
         Exit, Release, Age, Dequeue, Expire, PurgeQueue, DrainAll, TakeOff, poolVars
<1>. SUFFICES UpHoldsSlot' /\ GlobalCapacity'
  BY <1>1
<1>2. ASSUME NEW c \in Calls, Request(c) PROVE UpHoldsSlot' /\ GlobalCapacity'
  BY <1>2, AcquireKeepsLimit DEF Request
<1>3. ASSUME NEW c \in Calls, Exit(c) PROVE UpHoldsSlot' /\ GlobalCapacity'
  BY <1>3, ExitKeepsLimit
<1>4. ASSUME NEW c \in Calls, Rollback(c) PROVE UpHoldsSlot' /\ GlobalCapacity'
  <2>1. /\ running' \subseteq running /\ running \ {c} \subseteq running'
        /\ UNCHANGED <<config, asked, drained>>
    BY <1>4, OwnEntryGoes, UnregisterOfTask DEF Rollback, Live, FixedInv
  <2>2. \A x \in Calls : phase'[x] \in {"starting", "aborting", "up"}
                         => x # c /\ phase'[x] = phase[x]
    BY <1>4 DEF Rollback, FixedInv, PoolInv, TypeOK
  <2>3. UpHoldsSlot'
    BY <2>1, <2>2 DEF UpHoldsSlot, FixedInv
  <2>4. IsFiniteSet(running) /\ Cardinality(running) \in Nat
    BY RunningFinite DEF FixedInv, PoolInv
  <2>5. Cardinality(running') \in Nat /\ Cardinality(running') <= Cardinality(running)
    BY <2>1, <2>4, FS_Subset, FS_CardinalityType
  <2>6. config[Global].limit \in Nat
    BY DEF FixedInv, PoolInv, TypeOK, Scopes, PoolConfig
  <2>7. GlobalCapacity'
    BY <2>1, <2>4, <2>5, <2>6 DEF GlobalCapacity, FixedInv
  <2>. QED  BY <2>3, <2>7
<1>5. ASSUME NEW c \in Calls, StartOK(c) \/ StartFail(c) \/ RunCancelFn(c) \/ Age(c)
      PROVE  UpHoldsSlot' /\ GlobalCapacity'
  <2>1. UNCHANGED <<running, config, asked, drained>>
    BY <1>5 DEF StartOK, StartFail, RunCancelFn, Age
  <2>2. \A x \in Calls : phase'[x] \in {"starting", "aborting", "up"}
                         => phase[x] \in {"starting", "aborting", "up"}
    BY <1>5 DEF StartOK, StartFail, RunCancelFn, Age, FixedInv, PoolInv, TypeOK
  <2>. QED  BY <2>1, <2>2 DEF UpHoldsSlot, GlobalCapacity, FixedInv
<1>6. ASSUME NEW Q, TakeOff(Q), running' = running, drained' = drained
      PROVE  UpHoldsSlot' /\ GlobalCapacity'
  <2>1. UNCHANGED <<running, config, asked, drained>>
    BY <1>6 DEF TakeOff
  <2>2. \A x \in Calls : phase'[x] \in {"starting", "aborting", "up"} => phase'[x] = phase[x]
    BY <1>6 DEF TakeOff
  <2>. QED  BY <2>1, <2>2 DEF UpHoldsSlot, GlobalCapacity, FixedInv
<1>7. CASE DrainAll
  BY <1>7 DEF DrainAll, UpHoldsSlot, GlobalCapacity
<1>8. CASE UNCHANGED poolVars
  BY <1>8 DEF poolVars, UpHoldsSlot, GlobalCapacity, FixedInv
<1>9. ASSUME \/ \E t : Dequeue(t)
             \/ \E a \in Actions : Expire(a)
             \/ \E s \in Scopes : PurgeQueue(s)
      PROVE  UpHoldsSlot' /\ GlobalCapacity'
  <2>1. \E Q : TakeOff(Q) /\ running' = running /\ drained' = drained
    BY <1>9 DEF Dequeue, Expire, PurgeQueue
  <2>. QED  BY <1>6, <2>1
<1>. QED  BY <1>2, <1>3, <1>4, <1>5, <1>7, <1>8, <1>9 DEF Serve

LEMMA FixedInvariant == FixedSpec => []FixedInv
<1>1. Init => FixedInv
  <2>. SUFFICES ASSUME Init PROVE FixedInv
    OBVIOUS
  <2>1. PoolInv
    BY InitInv
  <2>2. Unresized /\ UpHoldsSlot
    BY DEF Init, Unresized, UpHoldsSlot
  <2>3. Cardinality(running) = 0
    BY FS_EmptySet DEF Init
  <2>4. config[Global].limit \in Nat
    BY <2>1 DEF PoolInv, TypeOK, Scopes, PoolConfig
  <2>. QED  BY <2>1, <2>2, <2>3, <2>4 DEF FixedInv, GlobalCapacity
<1>2. FixedInv /\ [Serve]_poolVars => FixedInv'
  <2>. SUFFICES ASSUME FixedInv, [Serve]_poolVars PROVE FixedInv'
    OBVIOUS
  <2>1. PoolInv'
    BY NextInv DEF FixedInv, Next
  <2>. QED  BY <2>1, ServeKeepsLimit DEF FixedInv
<1>. QED  BY <1>1, <1>2, PTL DEF FixedSpec

(* While the limits are those of the configuration file, the running list   *)
(* never exceeds the global limit: for any number of calls, tasks, actions *)
(* and queues, and any order of exits, failures, purges and expiries.      *)
THEOREM LimitIsKept == FixedSpec => []GlobalCapacity
<1>1. FixedInv => GlobalCapacity
  BY DEF FixedInv
<1>. QED  BY <1>1, FixedInvariant, PTL

(* And no started task runs without a slot until the pool is drained.      *)
THEOREM TasksHoldSlots == FixedSpec => []UpHoldsSlot
<1>1. FixedInv => UpHoldsSlot
  BY DEF FixedInv
<1>. QED  BY <1>1, FixedInvariant, PTL
-----------------------------------------------------------------------------
(* Nobody waits for nothing.  A failed start gives its slot back without   *)
(* admitting anybody, and this is the only harm: set_pool does none.       *)
OnlyFailingAbort == \A c \in Calls : phase[c] = "aborting" => c \in FailingCalls

(* Without capacity some entry is there, whose release will admit a caller. *)
LEMMA NoRoomMeansRunning ==
  ASSUME TypeOK, NEW a \in Actions, ~HasCapacity(a)
  PROVE  running # {}
<1>1. config[a].limit \in Nat /\ config[Global].limit \in Nat
  BY DEF TypeOK, Scopes, PoolConfig
<1>2. ASSUME running = {}
      PROVE  Cardinality(running) = 0 /\ Cardinality(RunningFor(a)) = 0
  <2>1. RunningFor(a) = {}
    BY <1>2 DEF RunningFor
  <2>. QED  BY <1>2, <2>1, FS_EmptySet
<1>. QED  BY <1>1, <1>2 DEF HasCapacity

LEMMA ReleaseStrandsNone ==
  ASSUME NEW t, NEW ph, Release(t, ph)
  PROVE  NoStranding'
<1>1. CASE ReleaseAndAdmit(t, ph)
  <2>1. running' # {}
    BY <1>1 DEF ReleaseAndAdmit, Admit
  <2>. QED  BY <2>1 DEF NoStranding
<1>2. CASE ReleaseOnly(t, ph)
  BY <1>2, EmptySeq DEF ReleaseOnly, NoStranding, Queued, ToSet
<1>. QED  BY <1>1, <1>2 DEF Release

(* Once a start has failed it has failed for good: its call is in no queue, *)
(* so nothing that empties the queues or releases a slot reaches it.       *)
LEMMA FailedStays ==
  ASSUME PoolInv, Failed, [Next]_poolVars
  PROVE  Failed'
<1>. DEFINE Late == {"aborting", "failed", "cancelling", "cancelled"}
<1>1. PICK c \in Calls \cap FailingCalls : phase[c] \in Late
  BY DEF Failed
<1>. SUFFICES phase'[c] \in Late
  BY DEF Failed
<1>2. phase[c] # "queued" /\ c \in Calls
  BY <1>1
<1>3. \A a \in Actions : c \notin ToSet(queues[a])
  BY <1>2 DEF PoolInv, QueuesSound
<1>4. c \notin Queued(queues)
  BY <1>3 DEF Queued
<1>5. ASSUME NEW t, NEW ph, Release(t, ph), ph[c] = phase[c]
      PROVE  phase'[c] \in Late
  <2>1. CASE ReleaseAndAdmit(t, ph)
    <3>1. PICK a \in Actions : \E i \in Fresh(a), S \in Passed(a) : Admit(t, ph, a, i, S)
      BY <2>1 DEF ReleaseAndAdmit
    <3>2. PICK i \in Fresh(a), S \in Passed(a) : Admit(t, ph, a, i, S)
      BY <3>1
    <3>3. queues[a][i] # c
      BY <1>3 DEF Fresh, ToSet
    <3>. QED  BY <1>1, <1>2, <1>4, <1>5, <3>2, <3>3 DEF Admit
  <2>2. CASE ReleaseOnly(t, ph)
    BY <1>1, <1>2, <1>4, <1>5, <2>2 DEF ReleaseOnly
  <2>. QED  BY <1>5, <2>1, <2>2 DEF Release
<1>6. ASSUME NEW d \in Calls, Exit(d) \/ StopExcess(d) PROVE phase'[c] \in Late
  <2>1. CASE Exit(d)
    <3>1. d # c
      BY <1>1, <2>1 DEF Exit
    <3>2. [phase EXCEPT ![d] = "ended"][c] = phase[c]
      BY <1>2, <3>1 DEF PoolInv, TypeOK
    <3>. QED  BY <1>5, <2>1, <3>2 DEF Exit
  <2>2. CASE StopExcess(d)
    BY <1>5, <2>2 DEF StopExcess
  <2>. QED  BY <1>6, <2>1, <2>2
<1>7. ASSUME NEW d \in Calls, Request(d) PROVE phase'[c] \in Late
  <2>1. CASE AcquireRun(d) \/ AcquireQueue(d) \/ AcquireReject(d)
    BY <1>1, <2>1 DEF AcquireRun, AcquireQueue, AcquireReject, NoRoom, PoolInv, TypeOK
  <2>2. CASE AcquireDisplace(d)
    <3>1. PICK b \in DisplaceFrom(d) : \E i \in DOMAIN queues[b] : Displace(d, b, i)
      BY <2>2 DEF AcquireDisplace
    <3>2. PICK i \in DOMAIN queues[b] : Displace(d, b, i)
      BY <3>1
    <3>3. phase[d] = "idle"
      BY <2>2 DEF AcquireDisplace, NoRoom
    <3>. QED  BY <1>1, <3>2, <3>3 DEF Displace, PoolInv, TypeOK
  <2>. QED  BY <1>7, <2>1, <2>2 DEF Request, Acquire
<1>8. ASSUME NEW d \in Calls, StartOK(d) \/ StartFail(d) \/ Rollback(d) \/ RunCancelFn(d)
      PROVE  phase'[c] \in Late
  BY <1>1, <1>8 DEF StartOK, StartFail, Rollback, RunCancelFn, PoolInv, TypeOK
<1>9. ASSUME NEW Q, TakeOff(Q) PROVE phase'[c] \in Late
  BY <1>1, <1>4, <1>9 DEF TakeOff
<1>10. ASSUME \/ \E t : Dequeue(t)
              \/ \E a \in Actions : Expire(a)
              \/ \E s \in Scopes : PurgeQueue(s)
              \/ DrainAll
       PROVE  phase'[c] \in Late
  BY <1>9, <1>10 DEF Dequeue, Expire, PurgeQueue, DrainAll
<1>11. ASSUME \/ \E d \in Calls : Age(d)
              \/ \E s \in Scopes, l \in NewLimits, n \in NewSizes : SetLimits(s, l, n)
              \/ UNCHANGED poolVars
       PROVE  phase'[c] \in Late
  BY <1>1, <1>11 DEF Age, SetLimits, poolVars
<1>. QED  BY <1>6, <1>7, <1>8, <1>10, <1>11 DEF Next, Serve, Resize

LEMMA NextStrandsNone ==
  ASSUME PoolInv, OnlyFailingAbort, NoStranding, [Next]_poolVars
  PROVE  OnlyFailingAbort' /\ NoStranding'
<1>1. OnlyFailingAbort'
  <2>1. ASSUME NEW t, NEW ph, Release(t, ph),
               \A x \in Calls : ph[x] = "aborting" => x \in FailingCalls
        PROVE  OnlyFailingAbort'
    BY <2>1 DEF Release, ReleaseAndAdmit, Admit, ReleaseOnly, OnlyFailingAbort
  <2>2. ASSUME NEW c \in Calls, Exit(c) \/ StopExcess(c) PROVE OnlyFailingAbort'
    <3>1. \A x \in Calls :
            phase[x] = "aborting" \/ [phase EXCEPT ![c] = "ended"][x] = "aborting"
            => x \in FailingCalls
      BY DEF OnlyFailingAbort, PoolInv, TypeOK
    <3>. QED  BY <2>1, <2>2, <3>1 DEF Exit, StopExcess
  <2>3. ASSUME NEW c \in Calls, Request(c) PROVE OnlyFailingAbort'
    <3>1. CASE AcquireRun(c) \/ AcquireQueue(c) \/ AcquireReject(c)
      BY <3>1 DEF AcquireRun, AcquireQueue, AcquireReject, OnlyFailingAbort, PoolInv, TypeOK
    <3>2. CASE AcquireDisplace(c)
      <4>1. PICK b \in DisplaceFrom(c) : \E i \in DOMAIN queues[b] : Displace(c, b, i)
        BY <3>2 DEF AcquireDisplace
      <4>2. PICK i \in DOMAIN queues[b] : Displace(c, b, i)
        BY <4>1
      <4>. QED  BY <4>2 DEF Displace, OnlyFailingAbort, PoolInv, TypeOK
    <3>. QED  BY <2>3, <3>1, <3>2 DEF Request, Acquire
  <2>4. ASSUME NEW c \in Calls, StartOK(c) \/ StartFail(c) \/ Rollback(c) \/ RunCancelFn(c)
        PROVE  OnlyFailingAbort'
    BY <2>4 DEF StartOK, StartFail, Rollback, RunCancelFn, OnlyFailingAbort, PoolInv, TypeOK
  <2>5. ASSUME NEW Q, TakeOff(Q) PROVE OnlyFailingAbort'
    BY <2>5 DEF TakeOff, OnlyFailingAbort
  <2>6. ASSUME \/ \E t : Dequeue(t)
               \/ \E a \in Actions : Expire(a)
               \/ \E s \in Scopes : PurgeQueue(s)
               \/ DrainAll
        PROVE  OnlyFailingAbort'
    BY <2>5, <2>6 DEF Dequeue, Expire, PurgeQueue, DrainAll
  <2>7. ASSUME \/ \E c \in Calls : Age(c)
               \/ \E s \in Scopes, l \in NewLimits, n \in NewSizes : SetLimits(s, l, n)
               \/ UNCHANGED poolVars
        PROVE  OnlyFailingAbort'
    BY <2>7 DEF Age, SetLimits, poolVars, OnlyFailingAbort
  <2>. QED  BY <2>2, <2>3, <2>4, <2>6, <2>7 DEF Next, Serve, Resize
<1>2. NoStranding'
  <2>. SUFFICES ASSUME ~Failed PROVE NoStranding'
    BY FailedStays DEF NoStranding
  <2>1. ASSUME NEW c \in Calls, Request(c) PROVE NoStranding'
    <3>1. CASE AcquireRun(c)
      BY <3>1 DEF AcquireRun, NoStranding
    <3>2. CASE NoRoom(c)
      BY <3>2, NoRoomMeansRunning, PoolAssumption DEF NoRoom, NoStranding, PoolInv
    <3>. QED  BY <2>1, <3>1, <3>2
              DEF Request, Acquire, AcquireQueue, AcquireDisplace, AcquireReject
  <2>2. ASSUME NEW c \in Calls, Exit(c) \/ StopExcess(c) PROVE NoStranding'
    BY <2>2, ReleaseStrandsNone DEF Exit, StopExcess
  <2>3. ASSUME NEW c \in Calls, Rollback(c) PROVE NoStranding'
    BY <2>3 DEF Rollback, OnlyFailingAbort, Failed
  <2>4. ASSUME NEW Q, Thinned(Q), TakeOff(Q), running' = running PROVE NoStranding'
    BY <2>4 DEF TakeOff, Thinned, NoStranding, Queued
  <2>5. ASSUME NEW t, Dequeue(t) PROVE NoStranding'
    <3>1. PICK a \in Actions : \E i \in DOMAIN queues[a] :
            TakeOff([queues EXCEPT ![a] = RemoveAt(@, i)])
      BY <2>5 DEF Dequeue
    <3>2. PICK i \in DOMAIN queues[a] : TakeOff([queues EXCEPT ![a] = RemoveAt(@, i)])
      BY <3>1
    <3>3. Thinned([queues EXCEPT ![a] = RemoveAt(@, i)])
      BY RemoveAtThins DEF PoolInv
    <3>. QED  BY <2>4, <2>5, <3>2, <3>3 DEF Dequeue
  <2>6. ASSUME NEW a \in Actions, Expire(a) PROVE NoStranding'
    <3>1. PICK n \in DOMAIN queues[a] :
            TakeOff([queues EXCEPT ![a] = SubSeq(@, n + 1, Len(@))])
      BY <2>6 DEF Expire
    <3>2. Thinned([queues EXCEPT ![a] = SubSeq(@, n + 1, Len(@))])
      BY TailThins DEF PoolInv
    <3>. QED  BY <2>4, <2>6, <3>1, <3>2 DEF Expire
  <2>7. ASSUME NEW s \in Scopes, PurgeQueue(s) PROVE NoStranding'
    BY <2>4, <2>7, PurgeThins DEF PurgeQueue, PoolInv
  <2>8. CASE DrainAll
    BY <2>8, EmptySeq DEF DrainAll, TakeOff, NoStranding, Queued, ToSet
  <2>9. ASSUME \/ \E c \in Calls : StartOK(c) \/ StartFail(c) \/ RunCancelFn(c) \/ Age(c)
               \/ \E s \in Scopes, l \in NewLimits, n \in NewSizes : SetLimits(s, l, n)
               \/ UNCHANGED poolVars
        PROVE  NoStranding'
    BY <2>9 DEF StartOK, StartFail, RunCancelFn, Age, SetLimits, poolVars, NoStranding, Queued
  <2>. QED  BY <2>1, <2>2, <2>3, <2>5, <2>6, <2>7, <2>8, <2>9 DEF Next, Serve, Resize
<1>. QED  BY <1>1, <1>2

(* A queue never holds a call with no task running whose exit would admit   *)
(* it, unless a start has failed: whatever set_pool asks for, and whatever *)
(* is displaced, purged, expired or drained.                               *)
THEOREM NobodyIsStranded == Spec => []NoStranding
<1>. DEFINE SInv == PoolInv /\ OnlyFailingAbort /\ NoStranding
<1>1. Init => SInv
  BY InitInv, EmptySeq DEF Init, OnlyFailingAbort, NoStranding, Queued, ToSet
<1>2. SInv /\ [Next]_poolVars => SInv'
  BY NextInv, NextStrandsNone
<1>3. SInv => NoStranding
  OBVIOUS
<1>. QED  BY <1>1, <1>2, <1>3, PTL DEF Spec
-----------------------------------------------------------------------------
(* Nobody is lost.  Acquire answers "queued" although the newcomer is put   *)
(* nowhere when the item it displaced was taken from another queue than its *)
(* own, which stays full.  With a configuration file that rules this out,   *)
(* and without set_pool, every caller that was told so is in the queue.     *)

(* The queue settings of an action, as the configuration file has them.    *)
InitQueue(a) == IF InitConfig[a].queue # NoQueue THEN InitConfig[a].queue
                ELSE IF InitConfig[Global].queue # NoQueue THEN InitConfig[Global].queue
                ELSE Disabled

(* Beside a queue that can be full there is no other whose items may go.   *)
OnlyOwnDisplaced ==
  \A a, b \in Actions :
    /\ a # b
    /\ InitQueue(a).enabled /\ InitQueue(a).size > 0
    /\ InitQueue(b).enabled
    => InitQueue(b).displace = "prohibit"

(* Queues are made with the settings of the file, are used only where they  *)
(* are enabled, and do not outgrow their size.                             *)
WithinSize ==
  \A a \in Actions : /\ capture[a] \in {Unset, EffectiveScope(a)}
                     /\ ~InitQueue(a).enabled => DOMAIN queues[a] = {}
                     /\ InitQueue(a).size > 0 => DOMAIN queues[a] \subseteq 1..InitQueue(a).size

HeldInv == FixedInv /\ WithinSize /\ QueuedIsHeld

(* Without set_pool a queue follows the settings of the file for good.     *)
LEMMA SettingsOfFile ==
  ASSUME FixedInv, WithinSize, NEW a \in Actions
  PROVE  /\ Cfg(a) = InitQueue(a) /\ QueueAt(EffectiveScope(a)) = InitQueue(a)
         /\ CaptureOf(a) = EffectiveScope(a)
         /\ InitQueue(a) \in QueueConfig
<1>1. config = InitConfig /\ a \in Scopes /\ Global \in Scopes
  BY DEF FixedInv, Unresized, Scopes
<1>2. CaptureOf(a) = EffectiveScope(a)
  BY DEF CaptureOf, WithinSize
<1>3. Detached \notin Scopes
  BY PoolAssumption
<1>4. QueueAt(EffectiveScope(a)) = InitQueue(a)
  BY <1>1, <1>3 DEF QueueAt, EffectiveScope, InitQueue
<1>5. InitQueue(a) \in QueueConfig
  <2>1. InitConfig[a] \in PoolConfig /\ InitConfig[Global] \in PoolConfig
    BY <1>1, PoolAssumption
  <2>2. InitConfig[a].queue \in QueueConfig \cup {NoQueue}
        /\ InitConfig[Global].queue \in QueueConfig \cup {NoQueue}
    BY <2>1 DEF PoolConfig
  <2>3. Disabled \in QueueConfig
    BY DEF Disabled, QueueConfig
  <2>. QED  BY <2>2, <2>3 DEF InitQueue
<1>. QED  BY <1>2, <1>4, <1>5 DEF Cfg

(* The step takes items off the queues, Q being what is left, and answers   *)
(* everybody whose item went.                                              *)
Answered(Q) == /\ queues' = Q
               /\ UNCHANGED <<capture, config>>
               /\ \A x \in Calls : phase'[x] = "queued"
                                   => phase[x] = "queued" /\ x \notin Queued(queues) \ Queued(Q)

(* What remains of a queue is no longer than the queue.                    *)
Shorter(Q) == \A a \in Actions : DOMAIN Q[a] \subseteq DOMAIN queues[a]

(* Whoever still waits after such a step is in the queue of its own action. *)
LEMMA AnsweredHeld ==
  ASSUME HeldInv, NEW Q, Thinned(Q), Shorter(Q), Answered(Q)
  PROVE  WithinSize' /\ QueuedIsHeld'
<1>1. WithinSize'
  BY DEF HeldInv, WithinSize, Shorter, Answered, EffectiveScope
<1>2. ASSUME NEW x \in Calls, phase'[x] = "queued"
      PROVE  x \in ToSet(Q[ActionOf[x]])
  <2>1. x \in ToSet(queues[ActionOf[x]]) /\ ActionOf[x] \in Actions
    BY <1>2, PoolAssumption DEF Answered, HeldInv, QueuedIsHeld
  <2>2. PICK b \in Actions : x \in ToSet(Q[b])
    BY <1>2, <2>1 DEF Answered, Queued
  <2>3. ActionOf[x] = b
    BY <2>2 DEF Thinned, HeldInv, FixedInv, PoolInv, QueuesSound
  <2>. QED  BY <2>2, <2>3
<1>3. QueuedIsHeld'
  BY <1>2 DEF Answered, QueuedIsHeld
<1>. QED  BY <1>1, <1>3

LEMMA RemoveAtShorter ==
  ASSUME TypeOK, NEW a \in Actions, NEW i \in DOMAIN queues[a]
  PROVE  Shorter([queues EXCEPT ![a] = RemoveAt(@, i)])
<1>1. queues[a] \in Seq(Calls) /\ Len(queues[a]) \in Nat /\ DOMAIN queues[a] = 1..Len(queues[a])
  BY LenProperties DEF TypeOK
<1>2. DOMAIN RemoveAt(queues[a], i) = 1..(Len(queues[a]) - 1)
  BY <1>1, RemoveAtOfQueue
<1>3. DOMAIN RemoveAt(queues[a], i) \subseteq DOMAIN queues[a]
  BY <1>1, <1>2
<1>. QED  BY <1>3 DEF Shorter, TypeOK

LEMMA SubSeqShorter ==
  ASSUME TypeOK, NEW a \in Actions, NEW m \in Nat \ {0}, NEW n \in Nat, n <= Len(queues[a])
  PROVE  DOMAIN SubSeq(queues[a], m, n) \subseteq DOMAIN queues[a]
<1>1. queues[a] \in Seq(Calls) /\ Len(queues[a]) \in Nat /\ DOMAIN queues[a] = 1..Len(queues[a])
  BY LenProperties DEF TypeOK
<1>2. DOMAIN SubSeq(queues[a], m, n) = 1..(n - m + 1)
  BY <1>1, SubSeqOfQueue
<1>. QED  BY <1>1, <1>2

LEMMA AfterTakeShorter ==
  ASSUME TypeOK, NEW a \in Actions, NEW i \in DOMAIN queues[a], NEW S
  PROVE  Shorter(AfterTake(a, i, S))
<1>1. /\ Len(queues[a]) \in Nat /\ i \in 1..Len(queues[a])
  BY LenProperties DEF TypeOK
<1>2. DOMAIN Rest(a, i) \subseteq DOMAIN queues[a]
  <2>1. CASE Cfg(a).lifo
    <3>1. 1 \in Nat \ {0} /\ i - 1 \in Nat /\ i - 1 <= Len(queues[a])
      BY <1>1
    <3>. QED  BY <2>1, <3>1, SubSeqShorter DEF Rest
  <2>2. CASE ~Cfg(a).lifo
    <3>1. i + 1 \in Nat \ {0} /\ Len(queues[a]) <= Len(queues[a])
      BY <1>1
    <3>. QED  BY <1>1, <2>2, <3>1, SubSeqShorter DEF Rest
  <2>. QED  BY <2>1, <2>2
<1>. QED  BY <1>2, EmptySeq DEF Shorter, AfterTake

(* Release answers the ones it admits and the expired ones it passes.      *)
LEMMA ReleaseAnswers ==
  ASSUME HeldInv, NEW t, NEW ph, Release(t, ph),
         \A x \in Calls : ph[x] = "queued" => phase[x] = "queued"
  PROVE  WithinSize' /\ QueuedIsHeld'
<1>1. TypeOK /\ QueuesSound
  BY DEF HeldInv, FixedInv, PoolInv
<1>2. CASE ReleaseAndAdmit(t, ph)
  <2>1. PICK a \in Actions : \E i \in Fresh(a), S \in Passed(a) : Admit(t, ph, a, i, S)
    BY <1>2 DEF ReleaseAndAdmit
  <2>2. PICK i \in Fresh(a), S \in Passed(a) : Admit(t, ph, a, i, S)
    BY <2>1
  <2>. DEFINE Q == AfterTake(a, i, S)
  <2>3. i \in DOMAIN queues[a]
    BY DEF Fresh
  <2>4. Thinned(Q) /\ Shorter(Q)
    BY <1>1, <2>3, AfterTakeThins, AfterTakeShorter
  <2>5. Answered(Q)
    BY <2>2 DEF Answered, Admit, Release
  <2>. QED  BY <2>4, <2>5, AnsweredHeld
<1>3. CASE ReleaseOnly(t, ph)
  <2>. DEFINE Q == [a \in Actions |-> <<>>]
  <2>1. Thinned(Q) /\ Shorter(Q) /\ Queued(Q) = {}
    BY EmptySeq DEF Thinned, Shorter, IsInjective, ToSet, Queued
  <2>2. Answered(Q)
    BY <1>3, <2>1 DEF Answered, ReleaseOnly, Release
  <2>. QED  BY <2>1, <2>2, AnsweredHeld
<1>. QED  BY <1>2, <1>3 DEF Release

(* A newcomer: only here can a queue grow, and a caller be told "queued".   *)
LEMMA AcquireHolds ==
  ASSUME HeldInv, OnlyOwnDisplaced, NEW c \in Calls, Acquire(c)
  PROVE  WithinSize' /\ QueuedIsHeld'
<1>. DEFINE a == ActionOf[c]
            size == InitQueue(a).size
<1>1. a \in Actions /\ TypeOK /\ QueuesSound /\ FixedInv /\ WithinSize /\ QueuedIsHeld
  BY PoolAssumption DEF HeldInv, FixedInv, PoolInv
<1>2. /\ Cfg(a) = InitQueue(a) /\ CaptureOf(a) = EffectiveScope(a)
      /\ size \in Nat /\ InitQueue(a) \in QueueConfig
  BY <1>1, SettingsOfFile DEF QueueConfig
<1>3. CASE AcquireRun(c)
  <2>1. UNCHANGED <<queues, capture, config>>
        /\ \A x \in Calls : phase'[x] = "queued" => phase[x] = "queued"
    BY <1>1, <1>3 DEF AcquireRun, TypeOK
  <2>. QED  BY <1>1, <2>1 DEF WithinSize, QueuedIsHeld, EffectiveScope
<1>4. ASSUME NoRoom(c)
      PROVE  /\ config' = config
             /\ \A b \in Actions : capture'[b] \in {Unset, EffectiveScope(b)'}
  BY <1>1, <1>2, <1>4 DEF NoRoom, TypeOK, WithinSize, EffectiveScope
<1>5. CASE AcquireReject(c)
  <2>1. queues' = queues
        /\ \A x \in Calls : phase'[x] = "queued" => phase[x] = "queued"
    BY <1>1, <1>5 DEF AcquireReject, TypeOK
  <2>. QED  BY <1>1, <1>4, <1>5, <2>1 DEF AcquireReject, WithinSize, QueuedIsHeld
(* When the queue of a has room for c.                                     *)
<1>6. ASSUME NEW Q \in [Actions -> Seq(Calls)], NoRoom(c), Cfg(a).enabled,
             Shorter(Q), size > 0 => Len(Q[a]) + 1 <= size,
             queues' = [Q EXCEPT ![a] = Append(@, c)],
             \A x \in Calls : phase'[x] = "queued" => x = c \/ x \in ToSet(Q[ActionOf[x]])
      PROVE  WithinSize' /\ QueuedIsHeld'
  <2>. DEFINE r == Append(Q[a], c)
  <2>1. /\ Len(Q[a]) \in Nat /\ DOMAIN Q[a] = 1..Len(Q[a])
        /\ DOMAIN r = 1..(Len(Q[a]) + 1) /\ r[Len(Q[a]) + 1] = c
        /\ \A j \in 1..Len(Q[a]) : r[j] = Q[a][j]
    BY <1>1, LenProperties, AppendProperties
  <2>. HIDE DEF r
  <2>2. c \in ToSet(r) /\ ToSet(Q[a]) \subseteq ToSet(r)
    <3>1. Len(Q[a]) + 1 \in DOMAIN r /\ \A j \in DOMAIN Q[a] : j \in DOMAIN r
      BY <2>1
    <3>. QED  BY <2>1, <3>1 DEF ToSet
  <2>3. \A b \in Actions : queues'[b] = IF b = a THEN r ELSE Q[b]
    BY <1>6 DEF r
  <2>4. QueuedIsHeld'
    BY <1>6, <2>2, <2>3, PoolAssumption DEF QueuedIsHeld
  <2>5. size > 0 => DOMAIN r \subseteq 1..size
    BY <1>2, <1>6, <2>1
  <2>6. WithinSize'
    <3>1. ASSUME NEW b \in Actions
          PROVE  /\ ~InitQueue(b).enabled => DOMAIN queues'[b] = {}
                 /\ InitQueue(b).size > 0 => DOMAIN queues'[b] \subseteq 1..InitQueue(b).size
      <4>1. CASE b = a
        BY <1>2, <1>6, <2>3, <2>5, <4>1
      <4>2. CASE b # a
        BY <1>1, <1>6, <2>3, <4>2 DEF WithinSize, Shorter
      <4>. QED  BY <4>1, <4>2
    <3>. QED  BY <1>4, <1>6, <3>1 DEF WithinSize
  <2>. QED  BY <2>4, <2>6
<1>7. CASE AcquireQueue(c)
  <2>1. /\ NoRoom(c) /\ Cfg(a).enabled /\ ~Full(a, queues[a])
        /\ queues' = [queues EXCEPT ![a] = Append(@, c)]
        /\ \A x \in Calls : phase'[x] = "queued" => x = c \/ phase[x] = "queued"
    BY <1>1, <1>7 DEF AcquireQueue, TypeOK
  <2>2. queues \in [Actions -> Seq(Calls)] /\ Shorter(queues) /\ Len(queues[a]) \in Nat
    BY <1>1, LenProperties DEF TypeOK, Shorter
  <2>3. size > 0 => Len(queues[a]) + 1 <= size
    BY <1>2, <2>1, <2>2 DEF Full
  <2>4. \A x \in Calls : phase'[x] = "queued" => x = c \/ x \in ToSet(queues[ActionOf[x]])
    BY <1>1, <2>1 DEF QueuedIsHeld
  <2>. QED  BY <1>6, <2>1, <2>2, <2>3, <2>4
<1>8. CASE AcquireDisplace(c)
  <2>1. NoRoom(c) /\ Cfg(a).enabled /\ Full(a, queues[a])
    BY <1>8 DEF AcquireDisplace
  <2>2. PICK b \in DisplaceFrom(c) : \E i \in DOMAIN queues[b] : Displace(c, b, i)
    BY <1>8 DEF AcquireDisplace
  <2>3. PICK i \in DOMAIN queues[b] : Displace(c, b, i)
    BY <2>2
  (* The displaced item was in the queue of c, which is full.              *)
  <2>4. b = a
    <3>1. b \in Actions /\ Displaceable(b, c \in ForcedCalls)
      BY DEF DisplaceFrom
    <3>2. ASSUME b \in Actions, b # a, Displaceable(b, c \in ForcedCalls) PROVE FALSE
      <4>1. InitQueue(b).displace # "prohibit"
        BY <1>1, <3>2, SettingsOfFile DEF Displaceable
      <4>2. InitQueue(b).enabled
        BY <1>1, <3>2 DEF Displaceable, WithinSize
      <4>3. InitQueue(a).enabled /\ InitQueue(a).size > 0
        BY <1>2, <2>1 DEF Full
      <4>. QED  BY <1>1, <3>2, <4>1, <4>2, <4>3 DEF OnlyOwnDisplaced
    <3>. QED  BY <3>1, <3>2
  <2>. DEFINE rest == [queues EXCEPT ![a] = RemoveAt(@, i)]
              out == queues[a][i]
  <2>5. i \in DOMAIN queues[a] /\ queues[a] \in Seq(Calls) /\ Len(queues[a]) \in Nat
        /\ DOMAIN queues[a] = 1..Len(queues[a])
    BY <1>1, <2>4, LenProperties DEF TypeOK
  <2>6. /\ RemoveAt(queues[a], i) \in Seq(Calls)
        /\ DOMAIN RemoveAt(queues[a], i) = 1..(Len(queues[a]) - 1)
        /\ Len(RemoveAt(queues[a], i)) = Len(queues[a]) - 1
    <3>1. /\ RemoveAt(queues[a], i) \in Seq(Calls)
          /\ DOMAIN RemoveAt(queues[a], i) = 1..(Len(queues[a]) - 1)
      BY <2>5, RemoveAtOfQueue
    <3>2. Len(RemoveAt(queues[a], i)) = Len(queues[a]) - 1
      BY <2>5, <3>1, LenProperties
    <3>. QED  BY <3>1, <3>2
  <2>7. rest \in [Actions -> Seq(Calls)] /\ Shorter(rest) /\ Thinned(rest)
        /\ rest[a] = RemoveAt(queues[a], i)
    BY <1>1, <2>5, <2>6, RemoveAtShorter, RemoveAtThins DEF TypeOK
  <2>8. /\ queues' = IF Full(a, rest[a]) THEN rest ELSE [rest EXCEPT ![a] = Append(@, c)]
        /\ phase' = [phase EXCEPT ![c] = "queued", ![out] = "cancelling"]
    BY <2>3, <2>4 DEF Displace
  <2>. HIDE DEF rest
  <2>9. size > 0 => Len(queues[a]) <= size
    BY <1>1, <1>2, <2>5 DEF WithinSize
  <2>10. size > 0 => Len(rest[a]) + 1 <= size
    BY <1>2, <2>5, <2>6, <2>7, <2>9
  <2>11. ~Full(a, rest[a])
    BY <1>2, <2>5, <2>6, <2>7, <2>10 DEF Full
  <2>12. ASSUME NEW x \in Calls, phase'[x] = "queued", x # c
         PROVE  x \in ToSet(rest[ActionOf[x]])
    <3>1. phase[x] = "queued" /\ x # out /\ ActionOf[x] \in Actions
      BY <1>1, <2>8, <2>12, PoolAssumption DEF TypeOK
    <3>2. x \in ToSet(queues[ActionOf[x]])
      BY <1>1, <3>1 DEF QueuedIsHeld
    <3>3. CASE ActionOf[x] # a
      BY <1>1, <3>2, <3>3 DEF rest, TypeOK
    <3>4. CASE ActionOf[x] = a
      <4>1. PICK k \in DOMAIN queues[a] : queues[a][k] = x
        BY <3>2, <3>4 DEF ToSet
      <4>2. k # i
        BY <3>1, <4>1
      <4>. DEFINE j == IF k < i THEN k ELSE k - 1
      <4>3. j \in 1..(Len(queues[a]) - 1) /\ (IF j < i THEN j ELSE j + 1) = k
        BY <2>5, <4>2
      <4>4. rest[a][j] = queues[a][k]
        BY <2>5, <2>7, <4>3, RemoveAtOfQueue
      <4>. QED  BY <2>6, <2>7, <3>4, <4>1, <4>3, <4>4 DEF ToSet
    <3>. QED  BY <3>3, <3>4
  <2>. QED  BY <1>6, <2>1, <2>7, <2>8, <2>10, <2>11, <2>12
<1>. QED  BY <1>3, <1>5, <1>7, <1>8 DEF Acquire

LEMMA ServeHolds ==
  ASSUME HeldInv, OnlyOwnDisplaced, [Serve]_poolVars
  PROVE  WithinSize' /\ QueuedIsHeld'
<1>0. TypeOK /\ QueuesSound
  BY DEF HeldInv, FixedInv, PoolInv
<1>1. ASSUME NEW c \in Calls, Request(c) PROVE WithinSize' /\ QueuedIsHeld'
  BY <1>1, AcquireHolds DEF Request
<1>2. ASSUME NEW c \in Calls, Exit(c) PROVE WithinSize' /\ QueuedIsHeld'
  <2>1. \A x \in Calls : [phase EXCEPT ![c] = "ended"][x] = "queued" => phase[x] = "queued"
    BY <1>0 DEF TypeOK
  <2>. QED  BY <1>2, <2>1, ReleaseAnswers DEF Exit
<1>3. ASSUME \/ \E c \in Calls : \/ StartOK(c) \/ StartFail(c) \/ Rollback(c)
                                 \/ RunCancelFn(c) \/ Age(c)
             \/ UNCHANGED poolVars
      PROVE  WithinSize' /\ QueuedIsHeld'
  <2>1. UNCHANGED <<queues, capture, config>>
    BY <1>3 DEF StartOK, StartFail, Rollback, RunCancelFn, Age, poolVars
  <2>2. \A x \in Calls : phase'[x] = "queued" => phase[x] = "queued"
    BY <1>0, <1>3 DEF StartOK, StartFail, Rollback, RunCancelFn, Age, poolVars, TypeOK
  <2>. QED  BY <2>1, <2>2 DEF HeldInv, WithinSize, QueuedIsHeld, EffectiveScope
<1>4. ASSUME NEW Q, Thinned(Q), Shorter(Q), TakeOff(Q) PROVE WithinSize' /\ QueuedIsHeld'
  <2>1. Answered(Q)
    BY <1>4 DEF TakeOff, Answered
  <2>. QED  BY <1>4, <2>1, AnsweredHeld
<1>5. ASSUME NEW t, Dequeue(t) PROVE WithinSize' /\ QueuedIsHeld'
  <2>1. PICK a \in Actions : \E i \in DOMAIN queues[a] :
          TakeOff([queues EXCEPT ![a] = RemoveAt(@, i)])
    BY <1>5 DEF Dequeue
  <2>2. PICK i \in DOMAIN queues[a] : TakeOff([queues EXCEPT ![a] = RemoveAt(@, i)])
    BY <2>1
  <2>. QED  BY <1>0, <1>4, <2>2, RemoveAtThins, RemoveAtShorter
<1>6. ASSUME NEW a \in Actions, Expire(a) PROVE WithinSize' /\ QueuedIsHeld'
  <2>1. PICK n \in DOMAIN queues[a] :
          TakeOff([queues EXCEPT ![a] = SubSeq(@, n + 1, Len(@))])
    BY <1>6 DEF Expire
  <2>2. n + 1 \in Nat \ {0} /\ Len(queues[a]) \in Nat /\ Len(queues[a]) <= Len(queues[a])
    BY <1>0, LenProperties DEF TypeOK
  <2>3. DOMAIN SubSeq(queues[a], n + 1, Len(queues[a])) \subseteq DOMAIN queues[a]
    BY <1>0, <2>2, SubSeqShorter
  <2>4. Shorter([queues EXCEPT ![a] = SubSeq(@, n + 1, Len(@))])
    BY <1>0, <2>3 DEF Shorter, TypeOK
  <2>. QED  BY <1>0, <1>4, <2>1, <2>4, TailThins
<1>7. ASSUME NEW s \in Scopes, PurgeQueue(s) PROVE WithinSize' /\ QueuedIsHeld'
  <2>1. Shorter([a \in Actions |-> IF s \in {a, Global} THEN <<>> ELSE queues[a]])
    BY EmptySeq DEF Shorter
  <2>. QED  BY <1>0, <1>4, <1>7, <2>1, PurgeThins DEF PurgeQueue
<1>8. CASE DrainAll
  <2>1. Thinned([a \in Actions |-> <<>>]) /\ Shorter([a \in Actions |-> <<>>])
    BY EmptySeq DEF Thinned, Shorter, IsInjective, ToSet
  <2>. QED  BY <1>4, <1>8, <2>1 DEF DrainAll
<1>. QED  BY <1>1, <1>2, <1>3, <1>5, <1>6, <1>7, <1>8 DEF Serve

(* Whoever was told "queued" is in the queue of its action until its        *)
(* startFn or cancelFn is due, provided a full queue can only displace its *)
(* own items; pool_lost shows the caller that is lost otherwise.           *)
THEOREM NobodyIsLost ==
  ASSUME OnlyOwnDisplaced
  PROVE  FixedSpec => []QueuedIsHeld
<1>1. Init => WithinSize /\ QueuedIsHeld
  BY EmptySeq DEF Init, WithinSize, QueuedIsHeld
<1>2. HeldInv /\ [Serve]_poolVars => WithinSize' /\ QueuedIsHeld'
  BY ServeHolds
<1>3. FixedInv /\ WithinSize /\ QueuedIsHeld => HeldInv
  BY DEF HeldInv
<1>. QED  BY <1>1, <1>2, <1>3, FixedInvariant, PTL DEF FixedSpec
-----------------------------------------------------------------------------
(* Nobody is let past.  Release admits the next item whatever its action,   *)
(* so with a limit per action a slot of one action may go to another and a  *)
(* newcomer may find room while older calls of its action wait.  Where only *)
(* the global limit counts, a call waits only while every slot is taken.   *)
OnlyGlobalLimit == \A a \in Actions : InitConfig[a].limit = 0

FullHouse == /\ config[Global].limit > 0
             /\ Cardinality(running) >= config[Global].limit
WaitersMeanFull == ~Failed /\ Queued(queues) # {} => FullHouse

WaitInv == FixedInv /\ OnlyFailingAbort /\ NoStranding /\ WaitersMeanFull

(* The counterpart of OneMore.                                             *)
LEMMA OneLess ==
  ASSUME NEW S, IsFiniteSet(S), NEW R, R = S \/ \E e \in S : R = S \ {e}
  PROVE  IsFiniteSet(R) /\ Cardinality(R) \in Nat /\ Cardinality(R) + 1 >= Cardinality(S)
<1>1. Cardinality(S) \in Nat
  BY FS_CardinalityType
<1>2. CASE R = S
  BY <1>1, <1>2
<1>3. ASSUME NEW e \in S, R = S \ {e}
      PROVE  IsFiniteSet(R) /\ Cardinality(R) \in Nat /\ Cardinality(R) + 1 >= Cardinality(S)
  <2>1. IsFiniteSet(R) /\ Cardinality(R) = Cardinality(S) - 1
    BY <1>3, FS_RemoveElement
  <2>2. Cardinality(R) \in Nat
    BY <2>1, FS_CardinalityType
  <2>. QED  BY <1>1, <2>1, <2>2
<1>. QED  BY <1>2, <1>3

(* Nobody waits in empty queues.                                           *)
LEMMA EmptyQueue ==
  ASSUME TypeOK, Queued(queues) = {}, NEW a \in Actions
  PROVE  queues[a] = <<>>
<1>1. queues[a] \in Seq(Calls) /\ Len(queues[a]) \in Nat /\ DOMAIN queues[a] = 1..Len(queues[a])
  BY LenProperties DEF TypeOK
<1>2. \A i \in DOMAIN queues[a] : queues[a][i] \in Queued(queues)
  BY DEF Queued, ToSet
<1>3. Len(queues[a]) = 0
  <2>1. CASE Len(queues[a]) > 0
    <3>1. 1 \in DOMAIN queues[a]
      BY <1>1, <2>1
    <3>. QED  BY <1>2, <3>1
  <2>. QED  BY <1>1, <2>1
<1>. QED  BY <1>1, <1>3, EmptySeq

(* The one whose exit is reported gives a slot back, and the one admitted   *)
(* in exchange had none.                                                   *)
LEMMA ReleaseKeepsFull ==
  ASSUME WaitInv, NEW t, NEW ph, Release(t, ph), ~Failed
  PROVE  WaitersMeanFull'
<1>1. config' = config /\ config[Global].limit \in Nat
  BY DEF Release, WaitInv, FixedInv, PoolInv, TypeOK, Scopes, PoolConfig
<1>2. IsFiniteSet(running) /\ Cardinality(running) \in Nat
  BY RunningFinite DEF WaitInv, FixedInv, PoolInv
<1>3. CASE ReleaseAndAdmit(t, ph)
  <2>1. PICK a \in Actions : \E i \in Fresh(a), S \in Passed(a) : Admit(t, ph, a, i, S)
    BY <1>3 DEF ReleaseAndAdmit
  <2>2. PICK i \in Fresh(a), S \in Passed(a) : Admit(t, ph, a, i, S)
    BY <2>1
  <2>3. PICK R \in Unregister(t) : running' = R \cup {queues[a][i]}
    BY <2>2 DEF Admit
  <2>4. queues[a][i] \in ToSet(queues[a])
    BY DEF Fresh, ToSet
  <2>5. FullHouse
    BY <2>4 DEF WaitInv, WaitersMeanFull, Queued
  <2>6. R = running \/ \E e \in running : R = running \ {e}
    BY UnregisterOfTask
  <2>7. IsFiniteSet(R) /\ Cardinality(R) \in Nat /\ Cardinality(R) + 1 >= Cardinality(running)
    BY <1>2, <2>6, OneLess
  <2>8. queues[a][i] \notin R
    <3>1. phase[queues[a][i]] = "queued"
      BY <2>4 DEF WaitInv, FixedInv, PoolInv, QueuesSound
    <3>. QED  BY <2>6, <3>1 DEF WaitInv, FixedInv, PoolInv, NoSlotLeak
  <2>9. Cardinality(running') = Cardinality(R) + 1
    BY <2>3, <2>7, <2>8, FS_AddElement
  <2>. QED  BY <1>1, <1>2, <2>5, <2>7, <2>9 DEF FullHouse, WaitersMeanFull
<1>4. CASE ReleaseOnly(t, ph)
  BY <1>4, EmptySeq DEF ReleaseOnly, WaitersMeanFull, Queued, ToSet
<1>. QED  BY <1>3, <1>4 DEF Release

LEMMA ServeKeepsFull ==
  ASSUME WaitInv, OnlyGlobalLimit, [Serve]_poolVars
  PROVE  WaitersMeanFull'
<1>1. PoolInv /\ TypeOK /\ QueuesSound /\ config = InitConfig
  BY DEF WaitInv, FixedInv, PoolInv, Unresized
<1>. SUFFICES ASSUME ~Failed PROVE WaitersMeanFull'
  BY <1>1, FailedStays DEF Next, WaitersMeanFull
<1>2. ASSUME NEW c \in Calls, Request(c) PROVE WaitersMeanFull'
  <2>1. CASE AcquireRun(c)
    <3>1. HasCapacity(ActionOf[c]) /\ UNCHANGED <<queues, config>>
      BY <2>1 DEF AcquireRun
    <3>2. IsFiniteSet(running) /\ Cardinality(running) \in Nat /\ config[Global].limit \in Nat
      BY <1>1, RunningFinite DEF TypeOK, Scopes, PoolConfig
    <3>3. ~FullHouse
      BY <3>1, <3>2 DEF HasCapacity, FullHouse
    <3>4. Queued(queues) = {}
      BY <3>3 DEF WaitInv, WaitersMeanFull
    <3>. QED  BY <3>1, <3>4 DEF WaitersMeanFull, Queued
  <2>2. CASE NoRoom(c)
    <3>1. ActionOf[c] \in Actions /\ ~HasCapacity(ActionOf[c]) /\ UNCHANGED <<running, config>>
      BY <2>2, PoolAssumption DEF NoRoom
    <3>2. config[ActionOf[c]].limit = 0
      BY <1>1, <3>1 DEF OnlyGlobalLimit
    <3>3. Cardinality(running) \in Nat /\ config[Global].limit \in Nat
      BY <1>1, RunningFinite DEF TypeOK, Scopes, PoolConfig
    <3>4. FullHouse
      BY <3>1, <3>2, <3>3 DEF HasCapacity, FullHouse
    <3>. QED  BY <3>1, <3>4 DEF WaitersMeanFull, FullHouse
  <2>. QED  BY <1>2, <2>1, <2>2
            DEF Request, Acquire, AcquireQueue, AcquireDisplace, AcquireReject
<1>3. ASSUME NEW c \in Calls, Exit(c) PROVE WaitersMeanFull'
  BY <1>3, ReleaseKeepsFull DEF Exit
(* The rollback of a failed start, which admits nobody, is the exception.  *)
<1>4. ASSUME NEW c \in Calls, Rollback(c) PROVE WaitersMeanFull'
  BY <1>4 DEF Rollback, WaitInv, OnlyFailingAbort, Failed
<1>5. ASSUME NEW Q, Thinned(Q), TakeOff(Q), running' = running PROVE WaitersMeanFull'
  <2>1. Queued(Q) \subseteq Queued(queues)
    BY <1>5 DEF Thinned, Queued
  <2>2. queues' = Q /\ config' = config
    BY <1>5 DEF TakeOff
  <2>. QED  BY <1>5, <2>1, <2>2 DEF WaitInv, WaitersMeanFull, FullHouse, Queued
<1>6. ASSUME NEW t, Dequeue(t) PROVE WaitersMeanFull'
  <2>1. PICK a \in Actions : \E i \in DOMAIN queues[a] :
          TakeOff([queues EXCEPT ![a] = RemoveAt(@, i)])
    BY <1>6 DEF Dequeue
  <2>2. PICK i \in DOMAIN queues[a] : TakeOff([queues EXCEPT ![a] = RemoveAt(@, i)])
    BY <2>1
  <2>. QED  BY <1>1, <1>5, <1>6, <2>2, RemoveAtThins DEF Dequeue
<1>7. ASSUME NEW a \in Actions, Expire(a) PROVE WaitersMeanFull'
  <2>1. PICK n \in DOMAIN queues[a] :
          TakeOff([queues EXCEPT ![a] = SubSeq(@, n + 1, Len(@))])
    BY <1>7 DEF Expire
  <2>. QED  BY <1>1, <1>5, <1>7, <2>1, TailThins DEF Expire
<1>8. ASSUME NEW s \in Scopes, PurgeQueue(s) PROVE WaitersMeanFull'
  BY <1>1, <1>5, <1>8, PurgeThins DEF PurgeQueue
<1>9. CASE DrainAll
  BY <1>9, EmptySeq DEF DrainAll, TakeOff, WaitersMeanFull, Queued, ToSet
<1>10. ASSUME \/ \E c \in Calls : StartOK(c) \/ StartFail(c) \/ RunCancelFn(c) \/ Age(c)
              \/ UNCHANGED poolVars
       PROVE  WaitersMeanFull'
  <2>1. UNCHANGED <<running, queues, config>>
    BY <1>10 DEF StartOK, StartFail, RunCancelFn, Age, poolVars
  <2>. QED  BY <2>1 DEF WaitInv, WaitersMeanFull, FullHouse, Queued
<1>. QED  BY <1>2, <1>3, <1>4, <1>6, <1>7, <1>8, <1>9, <1>10 DEF Serve

(* A call that has not been made is started only by its own Acquire.       *)
LEMMA StartedByAcquire ==
  ASSUME PoolInv, [Serve]_poolVars, NEW c \in Calls, phase[c] = "idle", phase'[c] = "starting"
  PROVE  AcquireRun(c)
<1>1. c \notin Queued(queues)
  BY DEF Queued, PoolInv, QueuesSound
<1>2. ASSUME NEW d \in Calls, Request(d) PROVE AcquireRun(c)
  <2>1. CASE AcquireRun(d)
    BY <2>1 DEF AcquireRun, PoolInv, TypeOK
  <2>2. CASE AcquireQueue(d) \/ AcquireReject(d)
    BY <2>2 DEF AcquireQueue, AcquireReject, PoolInv, TypeOK
  <2>3. CASE AcquireDisplace(d)
    <3>1. PICK b \in DisplaceFrom(d) : \E i \in DOMAIN queues[b] : Displace(d, b, i)
      BY <2>3 DEF AcquireDisplace
    <3>2. PICK i \in DOMAIN queues[b] : Displace(d, b, i)
      BY <3>1
    <3>. QED  BY <3>2 DEF Displace, PoolInv, TypeOK
  <2>. QED  BY <1>2, <2>1, <2>2, <2>3 DEF Request, Acquire
<1>3. ASSUME NEW d \in Calls, Exit(d) PROVE FALSE
  <2>. DEFINE ph == [phase EXCEPT ![d] = "ended"]
  <2>1. Release(TaskOf[d], ph) /\ ph[c] # "starting"
    BY <1>3 DEF Exit, PoolInv, TypeOK
  <2>. HIDE DEF ph
  <2>2. CASE ReleaseAndAdmit(TaskOf[d], ph)
    <3>1. PICK a \in Actions : \E i \in Fresh(a), S \in Passed(a) : Admit(TaskOf[d], ph, a, i, S)
      BY <2>2 DEF ReleaseAndAdmit
    <3>2. PICK i \in Fresh(a), S \in Passed(a) : Admit(TaskOf[d], ph, a, i, S)
      BY <3>1
    <3>3. queues[a][i] # c
      BY <1>1 DEF Fresh, ToSet, Queued
    <3>. QED  BY <1>1, <2>1, <3>2, <3>3 DEF Admit
  <2>3. CASE ReleaseOnly(TaskOf[d], ph)
    BY <1>1, <2>1, <2>3 DEF ReleaseOnly
  <2>. QED  BY <2>1, <2>2, <2>3 DEF Release
<1>4. ASSUME NEW Q, TakeOff(Q) PROVE FALSE
  BY <1>4 DEF TakeOff
<1>5. ASSUME \/ \E t : Dequeue(t)
             \/ \E a \in Actions : Expire(a)
             \/ \E s \in Scopes : PurgeQueue(s)
             \/ DrainAll
      PROVE  FALSE
  BY <1>4, <1>5 DEF Dequeue, Expire, PurgeQueue, DrainAll
<1>6. ASSUME \/ \E d \in Calls : \/ StartOK(d) \/ StartFail(d) \/ Rollback(d)
                                 \/ RunCancelFn(d) \/ Age(d)
             \/ UNCHANGED poolVars
      PROVE  FALSE
  BY <1>6 DEF StartOK, StartFail, Rollback, RunCancelFn, Age, poolVars, PoolInv, TypeOK
<1>. QED  BY <1>2, <1>3, <1>5, <1>6 DEF Serve

(* A newcomer is never started past a call of its action that waits, as     *)
(* long as no start has failed and only the global limit is in use.        *)
THEOREM NobodyIsOvertaken ==
  ASSUME OnlyGlobalLimit
  PROVE  FixedSpec => NoOvertaking
<1>1. Init => OnlyFailingAbort /\ NoStranding /\ WaitersMeanFull
  BY EmptySeq DEF Init, OnlyFailingAbort, NoStranding, WaitersMeanFull, Queued, ToSet
<1>2. FixedInv /\ OnlyFailingAbort /\ NoStranding /\ WaitersMeanFull /\ [Serve]_poolVars
      => OnlyFailingAbort' /\ NoStranding' /\ WaitersMeanFull'
  BY ServeKeepsFull, NextStrandsNone DEF WaitInv, FixedInv, Next
<1>3. FixedInv /\ OnlyFailingAbort /\ NoStranding /\ WaitersMeanFull /\ [Serve]_poolVars
      => [\A c \in Calls : phase[c] = "idle" /\ phase'[c] = "starting" /\ ~Failed
                           => queues[ActionOf[c]] = <<>>]_poolVars
  <2>. SUFFICES ASSUME FixedInv, WaitersMeanFull, [Serve]_poolVars, NEW c \in Calls,
                       phase[c] = "idle", phase'[c] = "starting", ~Failed
                PROVE  queues[ActionOf[c]] = <<>>
    OBVIOUS
  <2>1. PoolInv /\ TypeOK /\ ActionOf[c] \in Actions
    BY PoolAssumption DEF FixedInv, PoolInv
  <2>2. HasCapacity(ActionOf[c])
    BY <2>1, StartedByAcquire DEF AcquireRun
  <2>3. Cardinality(running) \in Nat /\ config[Global].limit \in Nat
    BY <2>1, RunningFinite DEF TypeOK, Scopes, PoolConfig
  <2>4. ~FullHouse
    BY <2>2, <2>3 DEF HasCapacity, FullHouse
  <2>5. Queued(queues) = {}
    BY <2>4 DEF WaitersMeanFull
  <2>. QED  BY <2>1, <2>5, EmptyQueue
<1>. QED  BY <1>1, <1>2, <1>3, FixedInvariant, PTL DEF FixedSpec, NoOvertaking
=============================================================================
