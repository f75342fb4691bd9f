---------------------------- MODULE Delivery_proofs ----------------------------
(* Theorems about Delivery and Metrics: for any number of connections, lines, *)
(* restarts and other tasks, any size of the ring and any cap on the table.  *)
EXTENDS Delivery, SequenceTheorems, FiniteSetTheorems, TLAPS
-----------------------------------------------------------------------------
(* The inductive invariant.                                                *)

TableInv == /\ MetricsTypeOK
            /\ byTask \in [ToSet(taskOrder) -> [TaskCounters -> Nat]]
            /\ Len(taskOrder) <= MaxTaskEntries
            /\ \A i, j \in 1..Len(taskOrder) : taskOrder[i] = taskOrder[j] => i = j

TaskTypes ==
  /\ seq \in 0..MaxLines /\ stopped \in BOOLEAN /\ worker \in 0..ErrorThreshold
  /\ rings \in [Gens -> Seq(Messages)] /\ \A g \in Gens : Len(rings[g]) <= RingSize
  /\ muHolder \in Goroutines \cup {Free}
  /\ work \in [Gens -> {"off", "idle", "numbered", "sending", "exiting", "reporting",
                        "settling", "telling", "done"}]
  /\ launch \in [Gens -> {"off", "due", "assign", "subscribe", "record", "telling", "done"}]

CastTypes == cast \in [Goroutines -> [msg : Messages, to : SUBSET Conns,
                                     left : SUBSET Conns, dead : SUBSET Conns]]

ClientTypes ==
  /\ clients \subseteq Conns /\ subs \subseteq Conns /\ broken \subseteq Conns
  /\ moves \in 0..MaxMoves
  /\ inbox \in [Conns -> Seq(Messages)]
  /\ replayed \in [Conns -> SUBSET (1..MaxLines)]
  /\ resumed \in [Conns -> 0..(MaxLines + 1)]

TypeInv == TaskTypes /\ CastTypes /\ ClientTypes

(* One generation is at work at a time, and who holds task.mu is where it    *)
(* holds it.                                                               *)
Generations ==
  /\ launch[1] \in {"due", "assign", "subscribe", "record", "done"}
  /\ \A g \in Gens : g > 1 => launch[g] \in {"off", "due", "telling", "done"}
  /\ \A g \in Gens : work[g] # "off" => launch[g] \notin {"off", "due"}
  /\ \A g, h \in Gens : h < g /\ launch[g] # "off" => work[h] = "done"
  /\ launch[1] # "due" => work[1] # "off"
  /\ worker # 0 => work[worker] # "off"

MuHeld ==
  /\ \A g \in Gens : launch[g] = "telling" <=> muHolder = <<"launch", g>>
  /\ \A g \in Gens : work[g] \in {"settling", "telling"} <=> muHolder = <<"work", g>>
  /\ \A g \in Gens : launch[g] = "telling" => work[g] \in {"idle", "exiting", "reporting"}

Control == Generations /\ MuHeld

(* What a goroutine broadcasts, and where.                                  *)
InFlight ==
  /\ \A g \in Gens : ~Told(<<"work", g>>) => work[g] \in {"sending", "reporting", "telling"}
  /\ \A g \in Gens : g > 1 /\ ~Told(<<"launch", g>>) => launch[g] = "telling"
  /\ \A g \in Gens :
       LET m == cast[<<"work", g>>].msg
       IN  /\ work[g] = "sending" => m = Message("output", g, seq)
           /\ work[g] = "reporting" => m = Message("exited", g, 0)
           /\ work[g] = "telling" => \E k \in {"restarting", "errored"} : m = Message(k, g, 0)
  /\ \A g \in Gens : launch[g] = "telling" => cast[<<"launch", g>>].msg = Message("started", g, 0)
  /\ cast[<<"launch", 1>>].left # {} => ~Noted(cast[<<"launch", 1>>].msg)

(* What the message m says has come to pass.                                *)
Happened(m) ==
  /\ m.gen \in Gens /\ m.kind \in Kinds /\ work[m.gen] # "off"
  /\ m.kind = "output" => m.seq <= seq /\ (work[m.gen] = "numbered" => m.seq < seq)
  /\ m.kind = "exited" => work[m.gen] \in {"reporting", "settling", "telling", "done"}
  /\ m.kind \in {"restarting", "errored"} => work[m.gen] \in {"telling", "done"}

Has(c, m) == \E i \in DOMAIN inbox[c] : inbox[c][i] = m
OnlyNews == \A c \in Conns, m \in Messages : Has(c, m) => Happened(m)

(* What is still to be sent may come after all that was received.           *)
Follows(n, m) == m # n /\ ~Before(n, m)
LineUp == \A p \in Goroutines : \A c \in cast[p].left : Noted(cast[p].msg) =>
            \A m \in Messages : Has(c, m) => Follows(cast[p].msg, m)

PassInv == \A p \in Goroutines : Noted(cast[p].msg) =>
             \A c \in cast[p].to \ (cast[p].left \cup broken) : Has(c, cast[p].msg)

Relaunched == {g \in Gens : g > 1 /\ (launch[g] # "off" \/ work[g - 1] = "telling")}
CountInv ==
  /\ total["output"] + Cardinality({g \in Gens : work[g] = "numbered"}) = seq
  /\ total["completed"] = total["errored"]
       + Cardinality({g \in Gens : work[g] \in {"settling", "telling", "done"}})
  /\ total["restarted"] = Cardinality(Relaunched)

(* The ring of the newest worker holds the last of the lines that are        *)
(* numbered and stored, then perhaps the exit.                             *)
Newest(g) == work[g] # "off" /\ \A h \in Gens : h > g => work[h] = "off"
LastLine(g) == IF work[g] \in {"numbered", "sending"} THEN seq - 1 ELSE seq
Held(g) == IF work[g] \in {"idle", "numbered", "sending"} THEN Len(rings[g]) ELSE Len(rings[g]) - 1
RingOf(g) ==
  /\ \A i \in 1..Held(g) : rings[g][i].kind = "output" /\ rings[g][i].seq = LastLine(g) - (Held(g) - i)
  /\ Held(g) # Len(rings[g]) => Held(g) >= 0 /\ rings[g][Len(rings[g])].kind = "exited"
RingInv ==
  /\ \A g \in Gens : work[g] \in {"numbered", "sending"} => seq > 0
  /\ \A g \in Gens : work[g] = "off" => rings[g] = <<>>
  /\ \A g \in Gens : \A i \in 1..Len(rings[g]) : rings[g][i].kind = "output" => rings[g][i].seq \in 1..seq
  /\ \A g \in Gens : Newest(g) => RingOf(g)

Lost(c) == (resumed[c]..seq) \ (Received(c) \cup OnItsWay(c))
LostInv == \A c \in Conns : resumed[c] # 0 =>
             c \in subs \ broken /\ \A m, n \in Lost(c) : m = n

DeliveryInv == TypeInv /\ TableInv /\ NoGhost /\ Control /\ InFlight /\ OnlyNews /\ LineUp
               /\ InOrder /\ PassInv /\ CountInv /\ RingInv /\ LostInv
-----------------------------------------------------------------------------
(* The metrics.                                                            *)

LEMMA RecordKeeps ==
  ASSUME TableInv, NEW t \in Tasks, NEW a \in Actions, NEW K \in SUBSET Counters, Record(t, a, K)
  PROVE  /\ TableInv'
         /\ total' = [k \in Counters |-> IF k \in K THEN total[k] + 1 ELSE total[k]]
<1>. DEFINE order == taskOrder
           n == Len(taskOrder)
<1>1. /\ order \in Seq(Tasks) /\ n \in Nat /\ n <= MaxTaskEntries /\ MaxTaskEntries \in Nat \ {0}
      /\ \A i, j \in 1..n : order[i] = order[j] => i = j
      /\ DOMAIN byTask = ToSet(order) /\ ToSet(order) = {order[i] : i \in 1..n}
      /\ \A u \in ToSet(order) : byTask[u] \in [TaskCounters -> Nat] /\ u \in Tasks
      /\ total \in [Counters -> Nat] /\ byAction \in [Actions -> [Counters -> Nat]]
  <2>1. order \in Seq(Tasks) /\ n \in Nat /\ DOMAIN order = 1..n /\ \A i \in 1..n : order[i] \in Tasks
    BY LenProperties, ElementOfSeq DEF TableInv, MetricsTypeOK
  <2>. QED  BY <2>1, MetricsAssumption DEF TableInv, MetricsTypeOK, ToSet
<1>2. /\ total' = [k \in Counters |-> IF k \in K THEN total[k] + 1 ELSE total[k]]
      /\ total' \in [Counters -> Nat]
  BY <1>1 DEF Record, Bump
<1>3. byAction' \in [Actions -> [Counters -> Nat]]
  <2>1. Bump(byAction[a], K) \in [Counters -> Nat]
    BY <1>1 DEF Bump
  <2>. QED  BY <1>1, <2>1 DEF Record
<1>4. /\ taskOrder' \in Seq(Tasks) /\ Len(taskOrder') \in Nat /\ Len(taskOrder') <= MaxTaskEntries
      /\ \A i, j \in 1..Len(taskOrder') : taskOrder'[i] = taskOrder'[j] => i = j
      /\ \A i \in 1..Len(taskOrder') : taskOrder'[i] \in ToSet(order) \cup {t}
  <2>1. CASE t \in DOMAIN byTask
    BY <1>1, <2>1 DEF Record, TaskOrderWith
  <2>2. CASE t \notin DOMAIN byTask /\ n >= MaxTaskEntries
    <3>1. taskOrder' = Append(Tail(order), t) /\ n # 0 /\ order # <<>>
      BY <1>1, <2>2, EmptySeq DEF Record, TaskOrderWith
    <3>2. /\ Tail(order) \in Seq(Tasks) /\ Len(Tail(order)) = n - 1
          /\ \A i \in 1..(n - 1) : Tail(order)[i] = order[i + 1]
      BY <1>1, <3>1, HeadTailProperties
    <3>3. /\ taskOrder' \in Seq(Tasks) /\ Len(taskOrder') = n /\ taskOrder'[n] = t
          /\ \A i \in 1..(n - 1) : taskOrder'[i] = order[i + 1] /\ i + 1 \in 1..n
      BY <1>1, <3>1, <3>2, AppendProperties
    <3>4. \A i \in 1..n : order[i] # t
      BY <1>1, <2>2
    <3>5. \A i \in 1..n : i = n \/ i \in 1..(n - 1)
      BY <1>1
    <3>6. \A i, j \in 1..n : taskOrder'[i] = taskOrder'[j] => i = j
      <4>. SUFFICES ASSUME NEW i \in 1..n, NEW j \in 1..n, taskOrder'[i] = taskOrder'[j] PROVE i = j
        OBVIOUS
      <4>1. CASE i = n \/ j = n
        BY <3>3, <3>4, <3>5, <4>1
      <4>2. CASE i \in 1..(n - 1) /\ j \in 1..(n - 1)
        <5>1. order[i + 1] = order[j + 1] /\ i + 1 \in 1..n /\ j + 1 \in 1..n
          BY <3>3, <4>2
        <5>2. i + 1 = j + 1
          BY <1>1, <5>1
        <5>. QED  BY <5>2
      <4>. QED  BY <3>5, <4>1, <4>2
    <3>7. \A i \in 1..n : taskOrder'[i] \in ToSet(order) \cup {t}
      BY <1>1, <3>3, <3>5
    <3>. QED  BY <1>1, <3>3, <3>6, <3>7
  <2>3. CASE t \notin DOMAIN byTask /\ ~(n >= MaxTaskEntries)
    <3>1. taskOrder' = Append(order, t)
      BY <2>3 DEF Record, TaskOrderWith
    <3>2. /\ taskOrder' \in Seq(Tasks) /\ Len(taskOrder') = n + 1 /\ taskOrder'[n + 1] = t
          /\ \A i \in 1..n : taskOrder'[i] = order[i]
      BY <1>1, <3>1, AppendProperties
    <3>3. \A i \in 1..n : order[i] # t
      BY <1>1, <2>3
    <3>4. n + 1 \in Nat /\ n + 1 <= MaxTaskEntries /\ \A i \in 1..(n + 1) : i = n + 1 \/ i \in 1..n
      BY <1>1, <2>3
    <3>5. \A i, j \in 1..(n + 1) : taskOrder'[i] = taskOrder'[j] => i = j
      BY <1>1, <3>2, <3>3, <3>4
    <3>6. \A i \in 1..(n + 1) : taskOrder'[i] \in ToSet(order) \cup {t}
      BY <1>1, <3>2, <3>4
    <3>. QED  BY <3>2, <3>4, <3>5, <3>6
  <2>. QED  BY <2>1, <2>2, <2>3
<1>5. byTask' \in [ToSet(taskOrder') -> [TaskCounters -> Nat]]
  <2>1. \A u \in ToSet(taskOrder') : u \in ToSet(order) \cup {t}
    BY <1>4, LenProperties DEF ToSet
  <2>2. TaskEntry(t) \in [TaskCounters -> Nat]
    BY <1>1 DEF TaskEntry
  <2>3. Bump(TaskEntry(t), K) \in [TaskCounters -> Nat]
    BY <2>2 DEF Bump
  <2>4. \A u \in ToSet(taskOrder') : (IF u = t THEN Bump(TaskEntry(t), K) ELSE byTask[u]) \in [TaskCounters -> Nat]
    BY <1>1, <2>1, <2>3
  <2>. QED  BY <2>4 DEF Record
<1>6. DOMAIN byTask' \subseteq Tasks
  BY <1>1, <1>4, <1>5, LenProperties DEF ToSet
<1>. QED  BY <1>2, <1>3, <1>4, <1>5, <1>6 DEF TableInv, MetricsTypeOK

LEMMA TableInvSound ==
  ASSUME TableInv
  PROVE  TableSound
<1>. DEFINE n == Len(taskOrder)
<1>1. /\ n \in Nat /\ DOMAIN taskOrder = 1..n /\ n <= MaxTaskEntries
      /\ DOMAIN byTask = ToSet(taskOrder)
  BY LenProperties DEF TableInv, MetricsTypeOK
<1>2. taskOrder \in Bijection(1..n, ToSet(taskOrder))
  <2>1. taskOrder \in [1..n -> ToSet(taskOrder)]
    BY <1>1, LenProperties DEF TableInv, MetricsTypeOK, ToSet
  <2>2. \A i, j \in 1..n : taskOrder[i] = taskOrder[j] => i = j
    BY DEF TableInv
  <2>3. \A u \in ToSet(taskOrder) : \E i \in 1..n : taskOrder[i] = u
    BY <1>1 DEF ToSet
  <2>. QED  BY <2>1, <2>2, <2>3 DEF Bijection, Injection, Surjection, IsInjective
<1>3. Cardinality(ToSet(taskOrder)) = n
  BY <1>1, <1>2, FS_CountingElements DEF ExistsBijection
<1>. QED  BY <1>1, <1>3 DEF TableSound
-----------------------------------------------------------------------------
(* Constants and messages.                                                 *)

LEMMA GenType ==
  /\ ErrorThreshold \in Nat \ {0} /\ RingSize \in Nat \ {0} /\ MaxLines \in Nat /\ MaxMoves \in Nat
  /\ 1 \in Gens /\ Gens = 1..ErrorThreshold /\ \A g \in Gens : g \in Nat /\ g >= 1 /\ g <= ErrorThreshold
  /\ \A g \in Gens : g < ErrorThreshold => g + 1 \in Gens
  /\ \A g \in Gens : g > 1 => g - 1 \in Gens
  /\ \A g \in Gens : <<"work", g>> \in Goroutines /\ <<"launch", g>> \in Goroutines
  /\ \A p \in Goroutines : \E g \in Gens : p = <<"work", g>> \/ p = <<"launch", g>>
  /\ Free \notin Goroutines /\ Starter \in Conns /\ Task \in Tasks /\ Action \in Actions
BY DeliveryAssumption DEF Gens, Goroutines

(* A step of a virtual worker moves that worker alone.                      *)
LEMMA WorkMoves ==
  ASSUME TaskTypes, NEW g \in Gens, NEW from, NEW to, GoesTo(g, from, to)
  PROVE  work[g] = from /\ work'[g] = to /\ \A h \in Gens : h # g => work'[h] = work[h]
BY DEF GoesTo, TaskTypes

LEMMA LaunchMoves ==
  ASSUME TaskTypes, NEW from, NEW to, Launching(from, to)
  PROVE  launch[1] = from /\ launch'[1] = to /\ \A h \in Gens : h # 1 => launch'[h] = launch[h]
BY DeliveryAssumption DEF Launching, TaskTypes, Gens

LEMMA MessageType ==
  /\ \A k \in Kinds \cup {"none"}, g \in Gens \cup {0}, n \in 0..MaxLines :
       /\ Message(k, g, n) \in Messages
       /\ Message(k, g, n).kind = k /\ Message(k, g, n).gen = g /\ Message(k, g, n).seq = n
  /\ \A m \in Messages : /\ m.kind \in Kinds \cup {"none"} /\ m.gen \in Gens \cup {0} /\ m.seq \in 0..MaxLines
                         /\ m = Message(m.kind, m.gen, m.seq)
BY DEF Messages, Message

LEMMA MetricsStep ==
  ASSUME [DeliveryNext]_deliveryVars
  PROVE  \/ UNCHANGED metricsVars
         \/ \E t \in Tasks, K \in SUBSET Counters : Record(t, Action, K)
<1>. {"started"} \in SUBSET Counters /\ {"output"} \in SUBSET Counters /\ {"restarted"} \in SUBSET Counters
     /\ {"completed"} \in SUBSET Counters /\ {"completed", "errored"} \in SUBSET Counters /\ Task \in Tasks
  BY GenType DEF Counters
<1>1. CASE UNCHANGED deliveryVars
  BY <1>1 DEF deliveryVars
<1>2. ASSUME NEW p \in Goroutines, Broadcasting(p) PROVE UNCHANGED metricsVars
  BY <1>2 DEF Broadcasting, Send, Reap
<1>3. ASSUME NEW g \in Gens, VirtualWorker(g)
      PROVE  UNCHANGED metricsVars \/ \E K \in SUBSET Counters : Record(Task, Action, K)
  BY <1>3 DEF VirtualWorker, Number, SendLine, Store, Finish, ReportExit, CountExit, Decide, Settled,
              RecordOutput, RecordExit, RecordRestart
<1>4. ASSUME NEW g \in Gens, DoRestart(g) \/ Restarted(g) PROVE UNCHANGED metricsVars
  BY <1>4 DEF DoRestart, Restarted
<1>5. CASE StartFn
  BY <1>5 DEF StartFn, Start, Assign, AutoSubscribe, AnnounceStart, RecordStart
<1>6. CASE StopTask
  BY <1>6 DEF StopTask
<1>7. ASSUME NEW c \in Conns, Client(c) PROVE UNCHANGED metricsVars
  BY <1>7 DEF Client, Disconnect, Break, Subscribe, Unsubscribe, Replay
<1>8. ASSUME NEW t \in Tasks, OtherTaskStarts(t) PROVE Record(t, Action, {"started"})
  BY <1>8 DEF OtherTaskStarts, RecordStart
<1>. QED  BY <1>1, <1>2, <1>3, <1>4, <1>5, <1>6, <1>7, <1>8 DEF DeliveryNext

LEMMA NextTable ==
  ASSUME TableInv, [DeliveryNext]_deliveryVars
  PROVE  TableInv'
<1>1. CASE UNCHANGED metricsVars
  BY <1>1 DEF metricsVars, TableInv, MetricsTypeOK
<1>. QED  BY <1>1, MetricsStep, RecordKeeps, GenType

(* The steps that the task does not notice.                                 *)
LEMMA QuietSteps ==
  /\ \A p \in Goroutines : Broadcasting(p) => UNCHANGED taskVars
  /\ \A c \in Conns : Client(c) => UNCHANGED <<taskVars, cast, metricsVars>>
  /\ \A t \in Tasks : OtherTaskStarts(t) =>
       UNCHANGED <<taskVars, cast, clients, subs, broken, inbox, replayed, resumed>>
BY DEF Broadcasting, Send, Reap, Client, Disconnect, Break, Subscribe, Unsubscribe, Replay, OtherTaskStarts
-----------------------------------------------------------------------------
(* Types.                                                                  *)

(* addEvent: the event comes last, and all others stay or the oldest goes.   *)
LEMMA StoredProperties ==
  ASSUME NEW ring \in Seq(Messages), Len(ring) <= RingSize, NEW m \in Messages
  PROVE  /\ Stored(ring, m) \in Seq(Messages)
         /\ Len(Stored(ring, m)) <= RingSize
         /\ \E d \in {0, 1} :
              /\ Len(ring) >= d /\ Len(Stored(ring, m)) = Len(ring) + 1 - d
              /\ Stored(ring, m)[Len(ring) + 1 - d] = m
              /\ \A i \in 1..(Len(ring) - d) : Stored(ring, m)[i] = ring[i + d]
<1>. DEFINE n == Len(ring)
<1>1. n \in Nat /\ RingSize \in Nat \ {0} /\ n <= RingSize
  BY LenProperties, GenType
<1>2. CASE n >= RingSize
  <2>1. Stored(ring, m) = Append(Tail(ring), m) /\ ring # <<>> /\ n >= 1
    BY <1>1, <1>2, EmptySeq DEF Stored
  <2>2. /\ Tail(ring) \in Seq(Messages) /\ Len(Tail(ring)) = n - 1
        /\ \A i \in 1..(n - 1) : Tail(ring)[i] = ring[i + 1]
    BY <2>1, HeadTailProperties
  <2>3. /\ Stored(ring, m) \in Seq(Messages) /\ Len(Stored(ring, m)) = n
        /\ Stored(ring, m)[n] = m /\ \A i \in 1..(n - 1) : Stored(ring, m)[i] = ring[i + 1]
    BY <1>1, <2>1, <2>2, AppendProperties
  <2>4. n + 1 - 1 = n
    BY <1>1
  <2>. QED  BY <1>1, <2>1, <2>3, <2>4
<1>3. CASE ~(n >= RingSize)
  <2>1. Stored(ring, m) = Append(ring, m)
    BY <1>3 DEF Stored
  <2>2. /\ Stored(ring, m) \in Seq(Messages) /\ Len(Stored(ring, m)) = n + 1
        /\ Stored(ring, m)[n + 1] = m /\ \A i \in 1..n : Stored(ring, m)[i] = ring[i]
    BY <2>1, AppendProperties
  <2>3. n + 1 - 0 = n + 1 /\ n >= 0 /\ n + 1 <= RingSize /\ n - 0 = n /\ \A i \in 1..n : i + 0 = i
    BY <1>1, <1>3
  <2>. QED  BY <2>2, <2>3
<1>. QED  BY <1>2, <1>3

LEMMA NextTaskTypes ==
  ASSUME TypeInv, [DeliveryNext]_deliveryVars
  PROVE  TaskTypes'
<1>. USE GenType DEF TypeInv
<1>1. CASE UNCHANGED taskVars
  BY <1>1 DEF taskVars, TaskTypes
<1>2. ASSUME NEW g \in Gens, VirtualWorker(g) PROVE TaskTypes'
  <2>1. CASE Number(g)
    BY <2>1 DEF Number, GoesTo, TaskTypes
  <2>2. CASE SendLine(g) \/ ReportExit(g)
    BY <2>2 DEF SendLine, ReportExit, GoesTo, TaskTypes
  <2>3. CASE Store(g)
    <3>1. Message("output", g, seq) \in Messages
      BY MessageType DEF TaskTypes, Kinds
    <3>2. /\ rings'[g] \in Seq(Messages) /\ Len(rings'[g]) <= RingSize
          /\ rings' = [rings EXCEPT ![g] = rings'[g]]
      BY <2>3, <3>1, StoredProperties DEF Store, TaskTypes
    <3>. QED  BY <2>3, <3>2 DEF Store, GoesTo, TaskTypes
  <2>4. CASE Finish(g)
    <3>1. Message("exited", g, 0) \in Messages
      BY MessageType DEF TaskTypes, Kinds
    <3>2. /\ rings'[g] \in Seq(Messages) /\ Len(rings'[g]) <= RingSize
          /\ rings' = [rings EXCEPT ![g] = rings'[g]]
      BY <2>4, <3>1, StoredProperties DEF Finish, TaskTypes
    <3>. QED  BY <2>4, <3>2 DEF Finish, GoesTo, TaskTypes
  <2>5. CASE CountExit(g)
    BY <2>5 DEF CountExit, GoesTo, TaskTypes
  <2>6. CASE Decide(g)
    BY <2>6 DEF Decide, GoesTo, TaskTypes
  <2>7. CASE Settled(g)
    BY <2>7 DEF Settled, GoesTo, TaskTypes
  <2>. QED  BY <1>2, <2>1, <2>2, <2>3, <2>4, <2>5, <2>6, <2>7 DEF VirtualWorker
<1>3. ASSUME NEW g \in Gens, DoRestart(g) PROVE TaskTypes'
  <2>1. CASE UNCHANGED <<worker, work, muHolder>> /\ launch' = [launch EXCEPT ![g] = "done"]
    BY <1>3, <2>1 DEF DoRestart, TaskTypes
  <2>2. CASE /\ worker' = g /\ work' = [work EXCEPT ![g] = "idle"]
             /\ launch' = [launch EXCEPT ![g] = "telling"] /\ muHolder' = <<"launch", g>>
    <3>1. worker' \in 0..ErrorThreshold
      <4>1. g \in 0..ErrorThreshold
        BY GenType
      <4>. QED  BY <2>2, <4>1
    <3>3. muHolder' \in Goroutines \cup {Free}
      BY <2>2
    <3>2. /\ work' \in [Gens -> {"off", "idle", "numbered", "sending", "exiting", "reporting",
                                "settling", "telling", "done"}]
          /\ launch' \in [Gens -> {"off", "due", "assign", "subscribe", "record", "telling", "done"}]
      BY <2>2 DEF TaskTypes
    <3>. QED  BY <1>3, <3>1, <3>2, <3>3 DEF DoRestart, TaskTypes
  <2>. QED  BY <1>3, <2>1, <2>2 DEF DoRestart
<1>4. ASSUME NEW g \in Gens, Restarted(g) PROVE TaskTypes'
  BY <1>4 DEF Restarted, TaskTypes
<1>5. CASE StartFn
  <2>1. CASE Start
    BY <2>1 DEF Start, Launching, TaskTypes
  <2>2. CASE Assign
    <3>1. 1 \in 0..ErrorThreshold
      BY GenType
    <3>. QED  BY <2>2, <3>1 DEF Assign, Launching, TaskTypes
  <2>3. CASE AutoSubscribe \/ AnnounceStart
    BY <2>3 DEF AutoSubscribe, AnnounceStart, Launching, TaskTypes, connVars
  <2>. QED  BY <1>5, <2>1, <2>2, <2>3 DEF StartFn
<1>6. CASE StopTask
  BY <1>6 DEF StopTask, TaskTypes
<1>. QED  BY <1>1, <1>2, <1>3, <1>4, <1>5, <1>6, QuietSteps DEF DeliveryNext, deliveryVars

(* The goroutine p begins to broadcast m.                                   *)
Tells(p, m) ==
  /\ Announce(p, m) /\ m \in Messages
  /\ UNCHANGED connVars
  /\ \/ \E g \in Gens : /\ p = <<"work", g>>
                        /\ \/ SendLine(g) /\ m = Message("output", g, seq)
                           \/ ReportExit(g) /\ m = Message("exited", g, 0)
                           \/ /\ Decide(g) /\ work'[g] = "telling"
                              /\ m = Message("restarting", g, 0) \/ m = Message("errored", g, 0)
     \/ p = <<"launch", 1>> /\ AnnounceStart /\ m = Message("started", 1, 0)
     \/ \E g \in Gens : /\ p = <<"launch", g>> /\ DoRestart(g) /\ launch'[g] = "telling"
                        /\ m = Message("started", g, 0)

(* Nothing else changes what is on its way.                                 *)
LEMMA CastSteps ==
  ASSUME TypeInv, [DeliveryNext]_deliveryVars
  PROVE  \/ UNCHANGED cast
         \/ \E p \in Goroutines : Broadcasting(p)
         \/ \E p \in Goroutines, m \in Messages : Tells(p, m)
<1>. USE GenType
<1>. DEFINE Telling == \E p \in Goroutines, m \in Messages : Tells(p, m)
<1>2. \A g \in Gens, n \in 0..MaxLines, k \in Kinds : Message(k, g, n) \in Messages
  BY MessageType
<1>3. ASSUME NEW g \in Gens, SendLine(g) PROVE Telling
  <2>1. Message("output", g, seq) \in Messages
    BY <1>2 DEF TypeInv, TaskTypes, Kinds
  <2>2. Tells(<<"work", g>>, Message("output", g, seq))
    BY <1>3, <2>1 DEF SendLine, Tells
  <2>. QED  BY <2>1, <2>2
<1>4. ASSUME NEW g \in Gens, ReportExit(g) PROVE Telling
  <2>1. Message("exited", g, 0) \in Messages
    BY <1>2 DEF Kinds
  <2>2. Tells(<<"work", g>>, Message("exited", g, 0))
    BY <1>4, <2>1 DEF ReportExit, Tells
  <2>. QED  BY <2>1, <2>2
<1>5. ASSUME NEW g \in Gens, Decide(g), cast' # cast PROVE Telling
  <2>1. Message("errored", g, 0) \in Messages /\ Message("restarting", g, 0) \in Messages
    BY <1>2 DEF Kinds
  <2>2. work'[g] = "telling" /\ UNCHANGED connVars
    BY <1>5 DEF Decide, GoesTo, TypeInv, TaskTypes
  <2>3. \/ Announce(<<"work", g>>, Message("errored", g, 0))
        \/ Announce(<<"work", g>>, Message("restarting", g, 0))
    BY <1>5 DEF Decide
  <2>4. \/ Tells(<<"work", g>>, Message("errored", g, 0))
        \/ Tells(<<"work", g>>, Message("restarting", g, 0))
    BY <1>5, <2>1, <2>2, <2>3 DEF Tells
  <2>. QED  BY <2>1, <2>4
<1>6. ASSUME AnnounceStart PROVE Telling
  <2>1. Message("started", 1, 0) \in Messages
    BY <1>2 DEF Kinds
  <2>2. Tells(<<"launch", 1>>, Message("started", 1, 0))
    BY <1>6, <2>1 DEF AnnounceStart, Tells
  <2>. QED  BY <2>1, <2>2
<1>7. ASSUME NEW g \in Gens, DoRestart(g), cast' # cast PROVE Telling
  <2>1. Message("started", g, 0) \in Messages
    BY <1>2 DEF Kinds
  <2>2. launch'[g] = "telling" /\ UNCHANGED connVars /\ Announce(<<"launch", g>>, Message("started", g, 0))
    BY <1>7 DEF DoRestart, TypeInv, TaskTypes
  <2>3. Tells(<<"launch", g>>, Message("started", g, 0))
    BY <1>7, <2>1, <2>2 DEF Tells
  <2>. QED  BY <2>1, <2>3
<1>. HIDE DEF Telling
<1>8. ASSUME NEW g \in Gens, VirtualWorker(g), cast' # cast
      PROVE  SendLine(g) \/ ReportExit(g) \/ Decide(g)
  BY <1>8 DEF VirtualWorker, Number, Store, Finish, CountExit, Settled
<1>9. ASSUME StartFn, cast' # cast
      PROVE  AnnounceStart
  BY <1>9 DEF StartFn, Start, Assign, AutoSubscribe
<1>10. ASSUME NEW g \in Gens, Restarted(g) PROVE UNCHANGED cast
  BY <1>10 DEF Restarted
<1>11. StopTask => UNCHANGED cast
  BY DEF StopTask
<1>12. cast' = cast \/ (\E p \in Goroutines : Broadcasting(p)) \/ Telling
  <2>1. ASSUME NEW g \in Gens, VirtualWorker(g) \/ DoRestart(g) \/ Restarted(g), cast' # cast
        PROVE  Telling
    BY <1>3, <1>4, <1>5, <1>7, <1>8, <1>10, <2>1
  <2>2. ASSUME StartFn \/ StopTask, cast' # cast PROVE Telling
    BY <1>6, <1>9, <1>11, <2>2
  <2>3. ASSUME NEW c \in Conns, Client(c) PROVE cast' = cast
    BY <2>3, QuietSteps
  <2>4. ASSUME NEW t \in Tasks, OtherTaskStarts(t) PROVE cast' = cast
    BY <2>4, QuietSteps
  <2>. SUFFICES ASSUME DeliveryNext, cast' # cast, ~Telling
                PROVE  \E p \in Goroutines : Broadcasting(p)
    BY DEF deliveryVars
  <2>. QED  BY <2>1, <2>2, <2>3, <2>4 DEF DeliveryNext
<1>. QED  BY <1>12 DEF Telling
(* One write of a broadcast.                                               *)
LEMMA SendEffect ==
  ASSUME TypeInv, NEW p \in Goroutines, Send(p)
  PROVE  \E c \in cast[p].left :
           /\ cast' \in [Goroutines -> [msg : Messages, to : SUBSET Conns,
                                        left : SUBSET Conns, dead : SUBSET Conns]]
           /\ \A q \in Goroutines \ {p} : cast'[q] = cast[q]
           /\ cast'[p].msg = cast[p].msg /\ cast'[p].to = cast[p].to
           /\ cast'[p].left = cast[p].left \ {c}
           /\ \/ c \in broken /\ cast'[p].dead = cast[p].dead \cup {c} /\ inbox' = inbox
              \/ /\ c \notin broken /\ cast'[p].dead = cast[p].dead
                 /\ inbox' = IF Noted(cast[p].msg) THEN [inbox EXCEPT ![c] = Append(@, cast[p].msg)]
                             ELSE inbox
           /\ UNCHANGED <<taskVars, metricsVars, clients, subs, broken, moves, replayed, resumed>>
<1>1. PICK c \in cast[p].left :
        /\ IF c \in broken
           THEN /\ cast' = [cast EXCEPT ![p].left = @ \ {c}, ![p].dead = @ \cup {c}]
                /\ UNCHANGED inbox
           ELSE /\ cast' = [cast EXCEPT ![p].left = @ \ {c}]
                /\ inbox' = IF Noted(cast[p].msg) THEN [inbox EXCEPT ![c] = Append(@, cast[p].msg)]
                            ELSE inbox
        /\ UNCHANGED <<taskVars, metricsVars, clients, subs, broken, moves, replayed, resumed>>
  BY DEF Send
<1>2. cast[p] \in [msg : Messages, to : SUBSET Conns, left : SUBSET Conns, dead : SUBSET Conns] /\ c \in Conns
  BY <1>1 DEF TypeInv, CastTypes
<1>3. CASE c \in broken
  BY <1>1, <1>2, <1>3 DEF TypeInv, CastTypes
<1>4. CASE c \notin broken
  BY <1>1, <1>2, <1>4 DEF TypeInv, CastTypes
<1>. QED  BY <1>3, <1>4

LEMMA ReapEffect ==
  ASSUME TypeInv, NEW p \in Goroutines, Reap(p)
  PROVE  \E c \in cast[p].dead :
           /\ cast' \in [Goroutines -> [msg : Messages, to : SUBSET Conns,
                                        left : SUBSET Conns, dead : SUBSET Conns]]
           /\ \A q \in Goroutines \ {p} : cast'[q] = cast[q]
           /\ cast'[p].msg = cast[p].msg /\ cast'[p].to = cast[p].to
           /\ cast[p].left = {} /\ cast'[p].left = {} /\ cast'[p].dead = cast[p].dead \ {c}
           /\ c \in Conns /\ RemoveClient(c)
           /\ UNCHANGED <<taskVars, metricsVars, moves>>
BY DEF Reap, TypeInv, CastTypes

LEMMA NextCastTypes ==
  ASSUME TypeInv, [DeliveryNext]_deliveryVars
  PROVE  CastTypes'
<1>1. CASE UNCHANGED cast
  BY <1>1 DEF TypeInv, CastTypes
<1>2. ASSUME NEW p \in Goroutines, Broadcasting(p) PROVE CastTypes'
  BY <1>2, SendEffect, ReapEffect DEF Broadcasting, CastTypes
<1>3. ASSUME NEW p \in Goroutines, NEW m \in Messages, Tells(p, m) PROVE CastTypes'
  <2>1. cast' = [cast EXCEPT ![p] = [msg |-> m, to |-> subs, left |-> subs, dead |-> {}]] /\ subs \in SUBSET Conns
    BY <1>3 DEF Tells, Announce, TypeInv, ClientTypes
  <2>. QED  BY <2>1 DEF TypeInv, CastTypes
<1>. QED  BY <1>1, <1>2, <1>3, CastSteps

(* Nothing comes back into h.subscriptions.                                 *)
LEMMA NextNoGhost ==
  ASSUME TypeInv, NoGhost, [DeliveryNext]_deliveryVars
  PROVE  NoGhost'
<1>. USE DEF NoGhost, connVars
<1>1. CASE UNCHANGED deliveryVars
  BY <1>1 DEF deliveryVars
<1>2. ASSUME NEW p \in Goroutines, Broadcasting(p) PROVE NoGhost'
  BY <1>2 DEF Broadcasting, Send, Reap, RemoveClient
<1>3. ASSUME NEW g \in Gens, VirtualWorker(g) PROVE NoGhost'
  BY <1>3 DEF VirtualWorker, Number, SendLine, Store, Finish, ReportExit, CountExit, Decide, Settled
<1>4. ASSUME NEW g \in Gens, DoRestart(g) \/ Restarted(g) PROVE NoGhost'
  BY <1>4 DEF DoRestart, Restarted
<1>5. CASE StartFn
  BY <1>5 DEF StartFn, Start, Assign, AutoSubscribe, AnnounceStart
<1>6. CASE StopTask
  BY <1>6 DEF StopTask
<1>7. ASSUME NEW c \in Conns, Client(c) PROVE NoGhost'
  BY <1>7 DEF Client, Disconnect, Break, Subscribe, Unsubscribe, Replay, RemoveClient
<1>8. ASSUME NEW t \in Tasks, OtherTaskStarts(t) PROVE NoGhost'
  BY <1>8 DEF OtherTaskStarts
<1>. QED  BY <1>1, <1>2, <1>3, <1>4, <1>5, <1>6, <1>7, <1>8 DEF DeliveryNext
-----------------------------------------------------------------------------
(* The goroutines of the task.                                              *)

LEMMA OneAtWork ==
  ASSUME Generations, NEW g \in Gens, work[g] \notin {"off", "done"}
  PROVE  /\ \A h \in Gens : h < g => work[h] = "done"
         /\ \A h \in Gens : h > g => work[h] = "off" /\ launch[h] = "off"
         /\ \A h \in Gens : h # g => work[h] \in {"off", "done"}
<1>. USE GenType
<1>1. \A h \in Gens : h < g => work[h] = "done"
  BY DEF Generations
<1>2. \A h \in Gens : h > g => launch[h] = "off"
  BY DEF Generations
<1>3. \A h \in Gens : h > g => work[h] = "off"
  BY <1>2 DEF Generations
<1>4. \A h \in Gens : h < g \/ h = g \/ h > g
  OBVIOUS
<1>. QED  BY <1>1, <1>2, <1>3, <1>4

(* A worker goes on, and nothing but its own place changes.                 *)
LEMMA WorkGoesOn ==
  ASSUME TaskTypes, Generations, NEW g \in Gens, NEW from, NEW to, GoesTo(g, from, to),
         from \notin {"off", "done"}, to # "off", UNCHANGED <<launch, worker>>
  PROVE  /\ Generations'
         /\ work'[g] = to /\ \A h \in Gens : h # g => work'[h] = work[h]
<1>1. work'[g] = to /\ \A h \in Gens : h # g => work'[h] = work[h]
  BY DEF GoesTo, TaskTypes
<1>2. \A h \in Gens : work'[h] = "off" <=> work[h] = "off"
  BY <1>1 DEF GoesTo
<1>3. \A h \in Gens : work[h] = "done" => work'[h] = "done"
  BY <1>1 DEF GoesTo
<1>4. worker # 0 => worker \in Gens
  BY GenType DEF TaskTypes
<1>. QED  BY <1>1, <1>2, <1>3, <1>4, GenType DEF Generations

LEMMA NextGenerations ==
  ASSUME TypeInv, Control, [DeliveryNext]_deliveryVars
  PROVE  Generations'
<1>. USE GenType DEF TypeInv, Control
<1>1. CASE UNCHANGED taskVars
  BY <1>1 DEF taskVars, Generations
<1>2. ASSUME NEW g \in Gens, VirtualWorker(g), launch' = launch PROVE Generations'
  <2>1. \E from, to : GoesTo(g, from, to) /\ from \notin {"off", "done"} /\ to # "off" /\ worker' = worker
    BY <1>2 DEF VirtualWorker, Number, SendLine, Store, Finish, ReportExit, CountExit, Decide, Settled
  <2>. QED  BY <1>2, <2>1, WorkGoesOn
<1>3. ASSUME NEW g \in Gens, VirtualWorker(g), launch' # launch PROVE Generations'
  <2>1. /\ GoesTo(g, "telling", "done") /\ worker' = worker
        /\ g + 1 \in Gens /\ launch' = [launch EXCEPT ![g + 1] = "due"]
    <3>1. Settled(g)
      BY <1>3 DEF VirtualWorker, Number, SendLine, Store, Finish, ReportExit, CountExit, Decide
    <3>. QED  BY <1>3, <3>1 DEF Settled
  <2>2. /\ work[g] = "telling" /\ work'[g] = "done" /\ \A h \in Gens : h # g => work'[h] = work[h]
        /\ launch'[g + 1] = "due" /\ \A h \in Gens : h # g + 1 => launch'[h] = launch[h]
    BY <2>1 DEF GoesTo, TaskTypes
  <2>3. /\ \A h \in Gens : h < g => work[h] = "done"
        /\ \A h \in Gens : h > g => work[h] = "off" /\ launch[h] = "off"
    BY <2>2, OneAtWork
  <2>4. \A h \in Gens : h < g + 1 => work'[h] = "done"
    BY <2>2, <2>3
  <2>5. \A h, k \in Gens : h < k /\ launch'[k] # "off" => work'[h] = "done"
    BY <2>2, <2>3, <2>4 DEF Generations
  <2>6. \A h \in Gens : work'[h] # "off" => launch'[h] \notin {"off", "due"}
    BY <2>2, <2>3 DEF Generations
  <2>7. worker' # 0 => work'[worker'] # "off"
    BY <2>1, <2>2 DEF Generations, TaskTypes
  <2>8. g + 1 # 1 /\ 1 \in Gens
    OBVIOUS
  <2>9. launch'[1] = launch[1] /\ (work[1] # "off" => work'[1] # "off")
    BY <2>2, <2>8
  <2>. QED  BY <2>2, <2>5, <2>6, <2>7, <2>9 DEF Generations
<1>4. ASSUME NEW g \in Gens, DoRestart(g) PROVE Generations'
  <2>1. g > 1 /\ launch[g] = "due" /\ work[g] = "off"
    BY <1>4 DEF DoRestart, Generations
  <2>2. CASE launch' = [launch EXCEPT ![g] = "done"] /\ UNCHANGED <<work, worker>>
    BY <2>1, <2>2 DEF Generations, TaskTypes
  <2>3. CASE /\ launch' = [launch EXCEPT ![g] = "telling"] /\ work' = [work EXCEPT ![g] = "idle"]
             /\ worker' = g
    <3>1. /\ launch'[g] = "telling" /\ \A h \in Gens : h # g => launch'[h] = launch[h]
          /\ work'[g] = "idle" /\ \A h \in Gens : h # g => work'[h] = work[h]
      BY <2>3 DEF TaskTypes
    <3>2. \A h, k \in Gens : h < k /\ launch'[k] # "off" => work'[h] = "done"
      <4>. SUFFICES ASSUME NEW h \in Gens, NEW k \in Gens, h < k, launch'[k] # "off"
                    PROVE  work'[h] = "done"
        OBVIOUS
      <4>1. work[h] = "done"
        BY <2>1, <3>1 DEF Generations
      <4>. QED  BY <2>1, <3>1, <4>1
    <3>. QED  BY <2>1, <2>3, <3>1, <3>2 DEF Generations
  <2>. QED  BY <1>4, <2>2, <2>3 DEF DoRestart
<1>5. ASSUME NEW g \in Gens, Restarted(g) PROVE Generations'
  BY <1>5 DEF Restarted, TaskTypes, Generations
<1>6. CASE Start
  <2>1. /\ launch[1] = "due" /\ launch'[1] = "assign" /\ \A h \in Gens : h # 1 => launch'[h] = launch[h]
        /\ work'[1] = "idle" /\ \A h \in Gens : h # 1 => work'[h] = work[h]
        /\ worker' = worker
    BY <1>6 DEF Start, Launching, TaskTypes
  <2>2. \A h \in Gens : h > 1 => launch[h] = "off"
    BY <2>1 DEF Generations
  <2>3. \A h, k \in Gens : h < k => launch'[k] = "off"
    BY <2>1, <2>2
  <2>4. worker' # 0 => work'[worker'] # "off"
    BY <2>1 DEF Generations, TaskTypes
  <2>5. \A h \in Gens : work'[h] # "off" => launch'[h] \notin {"off", "due"}
    BY <2>1 DEF Generations
  <2>. QED  BY <2>1, <2>2, <2>3, <2>4, <2>5 DEF Generations
<1>7. CASE Assign
  BY <1>7 DEF Assign, Launching, TaskTypes, Generations
<1>8. CASE AutoSubscribe
  BY <1>8 DEF AutoSubscribe, Launching, TaskTypes, Generations
<1>9. CASE AnnounceStart
  BY <1>9 DEF AnnounceStart, Launching, TaskTypes, Generations
<1>10. CASE StopTask
  BY <1>10 DEF StopTask, TaskTypes, Generations
<1>. QED  BY <1>1, <1>2, <1>3, <1>4, <1>5, <1>6, <1>7, <1>8, <1>9, <1>10, QuietSteps
          DEF DeliveryNext, deliveryVars, StartFn

LEMMA NextMuHeld ==
  ASSUME TypeInv, Control, [DeliveryNext]_deliveryVars
  PROVE  MuHeld'
<1>. USE GenType DEF TypeInv, Control
<1>0. \A g, h \in Gens : <<"launch", g>> # <<"work", h>> /\ <<"launch", g>> # Free /\ <<"work", h>> # Free
  OBVIOUS
<1>1. CASE UNCHANGED taskVars
  BY <1>1 DEF taskVars, MuHeld
<1>2. ASSUME NEW g \in Gens, Number(g) \/ SendLine(g) \/ Store(g) \/ Finish(g) \/ ReportExit(g) PROVE MuHeld'
  <2>1. /\ UNCHANGED <<launch, muHolder>> /\ \A h \in Gens : h # g => work'[h] = work[h]
        /\ \/ work[g] = "idle" /\ work'[g] = "numbered" /\ muHolder = Free
           \/ work[g] = "idle" /\ work'[g] = "exiting"
           \/ work[g] = "exiting" /\ work'[g] = "reporting"
           \/ work[g] \in {"numbered", "sending"} /\ work'[g] \in {"sending", "idle"}
    BY <1>2 DEF Number, SendLine, Store, Finish, ReportExit, GoesTo, TaskTypes
  <2>. QED  BY <1>0, <2>1 DEF MuHeld
<1>3. ASSUME NEW g \in Gens, CountExit(g) PROVE MuHeld'
  <2>1. /\ launch' = launch /\ \A h \in Gens : h # g => work'[h] = work[h]
        /\ work[g] = "reporting" /\ work'[g] = "settling" /\ muHolder = Free /\ muHolder' = <<"work", g>>
    BY <1>3 DEF CountExit, GoesTo, TaskTypes
  <2>. QED  BY <1>0, <2>1 DEF MuHeld
<1>4. ASSUME NEW g \in Gens, Decide(g) PROVE MuHeld'
  <2>1. /\ launch' = launch /\ \A h \in Gens : h # g => work'[h] = work[h]
        /\ work[g] = "settling"
        /\ \/ work'[g] = "done" /\ muHolder' = Free
           \/ work'[g] = "telling" /\ muHolder' = muHolder
    BY <1>4 DEF Decide, GoesTo, TaskTypes
  <2>. QED  BY <1>0, <2>1 DEF MuHeld
<1>5. ASSUME NEW g \in Gens, Settled(g) PROVE MuHeld'
  <2>1. /\ \A h \in Gens : h # g => work'[h] = work[h]
        /\ work[g] = "telling" /\ work'[g] = "done" /\ muHolder' = Free
        /\ \A h \in Gens : launch'[h] = "telling" => launch[h] = "telling"
    BY <1>5 DEF Settled, GoesTo, TaskTypes
  <2>2. muHolder = <<"work", g>>
    BY <2>1 DEF MuHeld
  <2>3. \A h \in Gens : launch'[h] # "telling" /\ work'[h] \notin {"settling", "telling"}
    BY <1>0, <2>1, <2>2 DEF MuHeld
  <2>. QED  BY <1>0, <2>1, <2>3 DEF MuHeld
<1>6. ASSUME NEW g \in Gens, DoRestart(g) PROVE MuHeld'
  <2>1. muHolder = Free /\ launch[g] = "due" /\ \A h \in Gens : h # g => launch'[h] = launch[h] /\ work'[h] = work[h]
    BY <1>6 DEF DoRestart, TaskTypes
  <2>2. \A h \in Gens : launch[h] # "telling" /\ work[h] \notin {"settling", "telling"}
    BY <1>0, <2>1 DEF MuHeld
  <2>3. \/ launch'[g] = "done" /\ work'[g] = work[g] /\ muHolder' = Free
        \/ launch'[g] = "telling" /\ work'[g] = "idle" /\ muHolder' = <<"launch", g>>
    BY <1>6, <2>1 DEF DoRestart, TaskTypes
  <2>. QED  BY <1>0, <2>1, <2>2, <2>3 DEF MuHeld
<1>7. ASSUME NEW g \in Gens, Restarted(g) PROVE MuHeld'
  <2>1. /\ launch[g] = "telling" /\ launch'[g] = "done" /\ \A h \in Gens : h # g => launch'[h] = launch[h]
        /\ work' = work /\ muHolder' = Free
    BY <1>7 DEF Restarted, TaskTypes
  <2>2. muHolder = <<"launch", g>>
    BY <2>1 DEF MuHeld
  <2>3. \A h \in Gens : launch'[h] # "telling" /\ work'[h] \notin {"settling", "telling"}
    BY <1>0, <2>1, <2>2 DEF MuHeld
  <2>. QED  BY <1>0, <2>1, <2>3 DEF MuHeld
<1>8. CASE Start
  <2>1. /\ launch[1] = "due" /\ launch'[1] = "assign" /\ \A h \in Gens : h # 1 => launch'[h] = launch[h]
        /\ work'[1] = "idle" /\ \A h \in Gens : h # 1 => work'[h] = work[h]
        /\ muHolder' = muHolder /\ work[1] = "off"
    BY <1>8 DEF Start, Launching, TaskTypes, Generations
  <2>. QED  BY <1>0, <2>1 DEF MuHeld
<1>9. CASE Assign \/ AutoSubscribe \/ AnnounceStart
  <2>1. /\ launch[1] # "telling" /\ launch'[1] # "telling" /\ \A h \in Gens : h # 1 => launch'[h] = launch[h]
        /\ UNCHANGED <<work, muHolder>>
    BY <1>9 DEF Assign, AutoSubscribe, AnnounceStart, Launching, TaskTypes
  <2>. QED  BY <1>0, <2>1 DEF MuHeld
<1>10. CASE StopTask
  BY <1>10 DEF StopTask, TaskTypes, MuHeld
<1>. QED  BY <1>1, <1>2, <1>3, <1>4, <1>5, <1>6, <1>7, <1>8, <1>9, <1>10, QuietSteps
          DEF DeliveryNext, deliveryVars, VirtualWorker, StartFn
-----------------------------------------------------------------------------
(* What is on its way.                                                     *)

LEMMA NextInFlight ==
  ASSUME TypeInv, Control, InFlight, [DeliveryNext]_deliveryVars
  PROVE  InFlight'
<1>. USE GenType DEF TypeInv, Control, Told
<1>0. \A g, h \in Gens : <<"launch", g>> # <<"work", h>>
                         /\ (<<"launch", g>> = <<"launch", h>> => g = h) /\ (<<"work", g>> = <<"work", h>> => g = h)
  OBVIOUS
<1> DEFINE
  UntoldWork == \A g \in Gens : ~Told(<<"work", g>>) => work[g] \in {"sending", "reporting", "telling"}
  UntoldLaunch == \A g \in Gens : g > 1 /\ ~Told(<<"launch", g>>) => launch[g] = "telling"
  WorkSays == \A g \in Gens :
    LET m == cast[<<"work", g>>].msg
    IN  /\ work[g] = "sending" => m = Message("output", g, seq)
        /\ work[g] = "reporting" => m = Message("exited", g, 0)
        /\ work[g] = "telling" => m \in {Message("restarting", g, 0), Message("errored", g, 0)}
  LaunchSays ==
    \A g \in Gens : launch[g] = "telling" => cast[<<"launch", g>>].msg = Message("started", g, 0)
  FirstLaunch == cast[<<"launch", 1>>].left # {} => ~Noted(cast[<<"launch", 1>>].msg)
<1>p. UntoldWork /\ UntoldLaunch /\ WorkSays /\ LaunchSays /\ FirstLaunch
  BY DEF InFlight
<1>q. ASSUME UntoldWork', UntoldLaunch', WorkSays', LaunchSays', FirstLaunch' PROVE InFlight'
  BY <1>q DEF InFlight
<1>1. CASE UNCHANGED <<taskVars, cast>>
  BY <1>1 DEF taskVars, InFlight
<1>2. ASSUME NEW p \in Goroutines, Broadcasting(p) PROVE InFlight'
  <2>1. /\ UNCHANGED taskVars /\ ~Told(p)
        /\ \A q \in Goroutines : cast'[q].msg = cast[q].msg /\ (q # p => cast'[q] = cast[q])
        /\ cast'[p].left # {} => cast[p].left # {}
    BY <1>2, SendEffect, ReapEffect DEF Broadcasting
  <2>2. \A q \in Goroutines : (~Told(q))' => ~Told(q)
    BY <2>1
  <2>3. UntoldWork' /\ UntoldLaunch'
    BY <1>p, <2>1, <2>2 DEF taskVars
  <2>4. WorkSays' /\ LaunchSays'
    <3>1. \A g \in Gens : /\ cast'[<<"work", g>>].msg = cast[<<"work", g>>].msg
                          /\ cast'[<<"launch", g>>].msg = cast[<<"launch", g>>].msg
      BY <2>1
    <3>2. work' = work /\ launch' = launch /\ seq' = seq
      BY <2>1 DEF taskVars
    <3>3. WorkSays'
      <4>. SUFFICES ASSUME NEW g \in Gens
                    PROVE  (LET m == cast[<<"work", g>>].msg
                            IN  /\ work[g] = "sending" => m = Message("output", g, seq)
                                /\ work[g] = "reporting" => m = Message("exited", g, 0)
                                /\ work[g] = "telling" =>
                                     m \in {Message("restarting", g, 0), Message("errored", g, 0)})'
        OBVIOUS
      <4>. QED  BY <1>p, <3>1, <3>2 DEF Message
    <3>4. LaunchSays'
      BY <1>p, <3>1, <3>2
    <3>. QED  BY <3>3, <3>4
  <2>5. FirstLaunch'
    <3>1. CASE p = <<"launch", 1>>
      BY <1>p, <2>1, <3>1
    <3>2. CASE p # <<"launch", 1>>
      BY <1>p, <2>1, <3>2
    <3>. QED  BY <3>1, <3>2
  <2>. QED  BY <1>q, <2>3, <2>4, <2>5
<1>3. ASSUME NEW g \in Gens, Number(g) PROVE InFlight'
  <2>1. /\ UNCHANGED <<cast, launch>> /\ \A h \in Gens : h # g => work'[h] = work[h]
        /\ work[g] = "idle" /\ work'[g] = "numbered"
    BY <1>3, WorkMoves DEF Number
  <2>2. \A h \in Gens : h # g => work[h] \in {"off", "done"}
    BY <2>1, OneAtWork
  <2>. QED  BY <2>1, <2>2 DEF InFlight
<1>4. ASSUME NEW g \in Gens, SendLine(g) PROVE InFlight'
  <2>1. /\ UNCHANGED <<launch, seq>> /\ \A h \in Gens : h # g => work'[h] = work[h]
        /\ work'[g] = "sending" /\ Announce(<<"work", g>>, Message("output", g, seq))
    BY <1>4, WorkMoves DEF SendLine
  <2>2. /\ cast'[<<"work", g>>].msg = Message("output", g, seq)
        /\ \A h \in Gens : h # g => cast'[<<"work", h>>] = cast[<<"work", h>>]
        /\ \A h \in Gens : cast'[<<"launch", h>>] = cast[<<"launch", h>>]
    BY <1>0, <2>1 DEF Announce, CastTypes
  <2>. QED  BY <1>0, <2>1, <2>2 DEF InFlight
<1>5. ASSUME NEW g \in Gens, ReportExit(g) PROVE InFlight'
  <2>1. /\ UNCHANGED <<launch, seq>> /\ \A h \in Gens : h # g => work'[h] = work[h]
        /\ work'[g] = "reporting" /\ Announce(<<"work", g>>, Message("exited", g, 0))
    BY <1>5, WorkMoves DEF ReportExit
  <2>2. /\ cast'[<<"work", g>>].msg = Message("exited", g, 0)
        /\ \A h \in Gens : h # g => cast'[<<"work", h>>] = cast[<<"work", h>>]
        /\ \A h \in Gens : cast'[<<"launch", h>>] = cast[<<"launch", h>>]
    BY <1>0, <2>1 DEF Announce, CastTypes
  <2>. QED  BY <1>0, <2>1, <2>2 DEF InFlight
<1>6. ASSUME NEW g \in Gens, Decide(g), work'[g] = "telling" PROVE InFlight'
  <2>1. /\ UNCHANGED <<launch, seq>> /\ \A h \in Gens : h # g => work'[h] = work[h]
        /\ \E k \in {"restarting", "errored"} : Announce(<<"work", g>>, Message(k, g, 0))
    BY <1>6 DEF Decide, GoesTo, TaskTypes
  <2>. PICK k \in {"restarting", "errored"} : Announce(<<"work", g>>, Message(k, g, 0))
    BY <2>1
  <2>2. /\ cast'[<<"work", g>>].msg = Message(k, g, 0)
        /\ \A h \in Gens : h # g => cast'[<<"work", h>>] = cast[<<"work", h>>]
        /\ \A h \in Gens : cast'[<<"launch", h>>] = cast[<<"launch", h>>]
    BY <1>0, <2>1 DEF Announce, CastTypes
  <2>. QED  BY <1>0, <1>6, <2>1, <2>2 DEF InFlight
<1>7. ASSUME NEW g \in Gens, \/ Store(g) \/ Finish(g) \/ CountExit(g) \/ Settled(g)
                             \/ Decide(g) /\ work'[g] # "telling"
      PROVE  InFlight'
  <2>1. /\ UNCHANGED <<cast, seq>> /\ \A h \in Gens : h # g => work'[h] = work[h]
        /\ work'[g] \in {"idle", "exiting", "settling", "done"}
        /\ Told(<<"work", g>>) \/ work[g] \in {"idle", "settling"}
        /\ \A h \in Gens : launch'[h] = launch[h] \/ (launch'[h] = "due" /\ work[g] = "telling" /\ h = g + 1)
    <3>1. CASE Store(g) \/ Finish(g)
      BY <1>7, <3>1, WorkMoves DEF Store, Finish
    <3>2. CASE CountExit(g)
      BY <1>7, <3>2, WorkMoves DEF CountExit
    <3>3. CASE Decide(g) /\ work'[g] # "telling"
      BY <1>7, <3>3, WorkMoves DEF Decide
    <3>4. CASE Settled(g)
      <4>1. \A h \in Gens : launch'[h] = launch[h] \/ (launch'[h] = "due" /\ h = g + 1)
        BY <3>4 DEF Settled, TaskTypes
      <4>. QED  BY <1>7, <3>4, <4>1, WorkMoves DEF Settled
    <3>. QED  BY <1>7, <3>1, <3>2, <3>3, <3>4
  <2>2. Told(<<"work", g>>)
    BY <2>1 DEF InFlight
  <2>3. \A h \in Gens : h = g + 1 /\ work[g] = "telling" => launch[h] = "off"
    BY OneAtWork
  <2>4. WorkSays'
    <3>. SUFFICES ASSUME NEW h \in Gens
                  PROVE  (LET m == cast[<<"work", h>>].msg
                          IN  /\ work[h] = "sending" => m = Message("output", h, seq)
                              /\ work[h] = "reporting" => m = Message("exited", h, 0)
                              /\ work[h] = "telling" =>
                                   m \in {Message("restarting", h, 0), Message("errored", h, 0)})'
      OBVIOUS
    <3>1. work'[h] = work[h] \/ work'[h] \notin {"sending", "reporting", "telling"}
      BY <2>1
    <3>. QED  BY <1>p, <2>1, <3>1 DEF Message
  <2>7. UntoldWork'
    BY <1>p, <2>1, <2>2
  <2>5. UntoldLaunch'
    BY <1>p, <2>1, <2>3
  <2>6. LaunchSays' /\ FirstLaunch'
    BY <1>p, <2>1
  <2>. QED  BY <1>q, <2>4, <2>5, <2>6, <2>7
<1>8. ASSUME NEW g \in Gens, DoRestart(g), launch'[g] = "telling" PROVE InFlight'
  <2>1. /\ seq' = seq /\ launch[g] = "due" /\ work'[g] = "idle" /\ g > 1
        /\ \A h \in Gens : h # g => work'[h] = work[h] /\ launch'[h] = launch[h]
        /\ Announce(<<"launch", g>>, Message("started", g, 0))
    BY <1>8 DEF DoRestart, TaskTypes
  <2>2. /\ cast'[<<"launch", g>>].msg = Message("started", g, 0)
        /\ \A h \in Gens : h # g => cast'[<<"launch", h>>] = cast[<<"launch", h>>]
        /\ \A h \in Gens : cast'[<<"work", h>>] = cast[<<"work", h>>]
    BY <1>0, <2>1 DEF Announce, CastTypes
  <2>3. Told(<<"work", g>>)
    BY <2>1 DEF InFlight, Generations
  <2>4. UntoldWork' /\ WorkSays'
    BY <1>p, <2>1, <2>2, <2>3
  <2>5. UntoldLaunch' /\ LaunchSays'
    BY <1>p, <1>8, <2>1, <2>2
  <2>6. FirstLaunch'
    BY <1>p, <2>1, <2>2
  <2>. QED  BY <1>q, <2>4, <2>5, <2>6
<1>9. ASSUME NEW g \in Gens, (DoRestart(g) /\ launch'[g] # "telling") \/ Restarted(g) PROVE InFlight'
  <2>1. /\ UNCHANGED <<work, cast, seq>> /\ launch'[g] = "done"
        /\ \A h \in Gens : h # g => launch'[h] = launch[h]
        /\ launch[g] = "due" \/ Told(<<"launch", g>>)
    BY <1>9 DEF DoRestart, Restarted, TaskTypes
  <2>. QED  BY <2>1 DEF InFlight
<1>10. CASE Start
  <2>1. /\ UNCHANGED <<cast, seq>> /\ launch[1] = "due" /\ launch'[1] = "assign" /\ work'[1] = "idle"
        /\ \A h \in Gens : h # 1 => work'[h] = work[h] /\ launch'[h] = launch[h]
    BY <1>10 DEF Start, Launching, TaskTypes
  <2>2. Told(<<"work", 1>>)
    BY <2>1 DEF InFlight, Generations
  <2>. QED  BY <2>1, <2>2 DEF InFlight
<1>11. CASE Assign \/ AutoSubscribe
  <2>1. /\ UNCHANGED <<cast, seq, work>> /\ launch'[1] # "telling"
        /\ \A h \in Gens : h # 1 => launch'[h] = launch[h]
    BY <1>11 DEF Assign, AutoSubscribe, Launching, TaskTypes
  <2>. QED  BY <2>1 DEF InFlight
<1>12. CASE AnnounceStart
  <2>1. /\ UNCHANGED <<work, seq>> /\ launch'[1] = "done"
        /\ \A h \in Gens : h # 1 => launch'[h] = launch[h]
        /\ Announce(<<"launch", 1>>, Message("started", 1, 0))
    BY <1>12 DEF AnnounceStart, Launching, TaskTypes
  <2>2. /\ cast'[<<"launch", 1>>].msg = Message("started", 1, 0)
        /\ \A h \in Gens : h # 1 => cast'[<<"launch", h>>] = cast[<<"launch", h>>]
        /\ \A h \in Gens : cast'[<<"work", h>>] = cast[<<"work", h>>]
    BY <1>0, <2>1 DEF Announce, CastTypes
  <2>3. (~Noted(cast[<<"launch", 1>>].msg))'
    BY <2>2 DEF Noted
  <2>. QED  BY <1>0, <2>1, <2>2, <2>3 DEF InFlight
<1>13. CASE StopTask
  BY <1>13 DEF StopTask, InFlight
<1>14. ASSUME NEW c \in Conns, Client(c) PROVE InFlight'
  BY <1>1, <1>14, QuietSteps
<1>15. ASSUME NEW t \in Tasks, OtherTaskStarts(t) PROVE InFlight'
  BY <1>1, <1>15, QuietSteps
<1>. QED  BY <1>1, <1>2, <1>3, <1>4, <1>5, <1>6, <1>7, <1>8, <1>9, <1>10, <1>11, <1>12, <1>13, <1>14, <1>15
          DEF DeliveryNext, deliveryVars, VirtualWorker, StartFn
-----------------------------------------------------------------------------
(* What the clients receive.                                               *)

LEMMA InboxSteps ==
  ASSUME TypeInv, [DeliveryNext]_deliveryVars
  PROVE  /\ broken \subseteq broken'
         /\ \/ \E p \in Goroutines : Send(p)
            \/ \A c \in Conns : inbox'[c] = inbox[c] \/ (inbox'[c] = <<>> /\ c \in broken')
<1>. DEFINE Kept == broken \subseteq broken' /\ \A c \in Conns : inbox'[c] = inbox[c] \/ (inbox'[c] = <<>> /\ c \in broken')
<1>1. CASE UNCHANGED <<inbox, broken>>
  BY <1>1
<1>2. ASSUME NEW c \in Conns, Close(c) PROVE Kept
  BY <1>2 DEF Close, TypeInv, ClientTypes
<1>3. ASSUME NEW p \in Goroutines, Send(p) PROVE broken \subseteq broken'
  BY <1>3 DEF Send
<1>4. ASSUME NEW p \in Goroutines, Reap(p) PROVE \E c \in Conns : Close(c)
  BY <1>4 DEF Reap, RemoveClient, TypeInv, CastTypes
<1>5. ASSUME NEW c \in Conns, Client(c) PROVE Close(c) \/ UNCHANGED <<inbox, broken>>
  BY <1>5 DEF Client, Disconnect, RemoveClient, Break, Subscribe, Unsubscribe, Replay
<1>6. ASSUME NEW t \in Tasks, OtherTaskStarts(t) PROVE UNCHANGED <<inbox, broken>>
  BY <1>6, QuietSteps
<1>7. ASSUME NEW g \in Gens, VirtualWorker(g) \/ DoRestart(g) \/ Restarted(g) PROVE UNCHANGED <<inbox, broken>>
  BY <1>7 DEF VirtualWorker, Number, SendLine, Store, Finish, ReportExit, CountExit, Decide, Settled,
              DoRestart, Restarted, connVars
<1>8. CASE StartFn \/ StopTask
  BY <1>1, <1>8 DEF StartFn, Start, Assign, AutoSubscribe, AnnounceStart, StopTask, connVars
<1>9. CASE UNCHANGED deliveryVars
  BY <1>1, <1>9 DEF deliveryVars, connVars
<1>. QED  BY <1>1, <1>2, <1>3, <1>4, <1>5, <1>6, <1>7, <1>8, <1>9 DEF DeliveryNext, Broadcasting

(* A write adds its message at the end of one inbox.                        *)
LEMMA SendInbox ==
  ASSUME TypeInv, NEW p \in Goroutines, Send(p)
  PROVE  /\ inbox' \in [Conns -> Seq(Messages)]
         /\ \A d \in Conns : \A i \in DOMAIN inbox[d] : i \in DOMAIN inbox'[d] /\ inbox'[d][i] = inbox[d][i]
         /\ \A d \in Conns : \A i \in DOMAIN inbox'[d] :
              \/ i \in DOMAIN inbox[d]
              \/ /\ i = Len(inbox[d]) + 1 /\ inbox'[d][i] = cast[p].msg /\ Noted(cast[p].msg)
                 /\ d \in cast[p].left /\ d \notin cast'[p].left /\ d \notin broken
         /\ \A d \in Conns, m \in Messages : Has(d, m) => Has(d, m)'
         /\ \A d \in Conns, m \in Messages : Has(d, m)' =>
              \/ Has(d, m)
              \/ /\ m = cast[p].msg /\ Noted(cast[p].msg)
                 /\ d \in cast[p].left /\ d \notin cast'[p].left /\ d \notin broken
         /\ \A d \in cast[p].left, m \in Messages :
              d \notin cast'[p].left /\ d \notin broken /\ m = cast[p].msg /\ Noted(m) => Has(d, m)'
<1>1. PICK c \in cast[p].left :
           /\ cast'[p].left = cast[p].left \ {c}
           /\ \/ c \in broken /\ inbox' = inbox
              \/ /\ c \notin broken
                 /\ inbox' = IF Noted(cast[p].msg) THEN [inbox EXCEPT ![c] = Append(@, cast[p].msg)]
                             ELSE inbox
  BY SendEffect
<1>2. /\ cast[p].msg \in Messages /\ c \in Conns /\ cast[p].left \subseteq Conns
      /\ inbox \in [Conns -> Seq(Messages)]
  BY <1>1 DEF TypeInv, CastTypes, ClientTypes
<1>3. CASE inbox' = inbox /\ (c \in broken \/ ~Noted(cast[p].msg))
  BY <1>1, <1>2, <1>3 DEF Has
<1>4. CASE c \notin broken /\ Noted(cast[p].msg) /\ inbox' = [inbox EXCEPT ![c] = Append(@, cast[p].msg)]
  <2>1. /\ inbox'[c] = Append(inbox[c], cast[p].msg)
        /\ \A d \in Conns : d # c => inbox'[d] = inbox[d]
    BY <1>2, <1>4
  <2>2. /\ inbox'[c] \in Seq(Messages) /\ Len(inbox'[c]) = Len(inbox[c]) + 1
        /\ inbox'[c][Len(inbox[c]) + 1] = cast[p].msg
        /\ \A i \in 1..Len(inbox[c]) : inbox'[c][i] = inbox[c][i]
        /\ Len(inbox[c]) \in Nat /\ DOMAIN inbox[c] = 1..Len(inbox[c])
        /\ DOMAIN inbox'[c] = 1..(Len(inbox[c]) + 1)
    BY <1>2, <2>1, AppendProperties, LenProperties
  <2>3. inbox' \in [Conns -> Seq(Messages)]
    BY <1>2, <1>4, <2>1, <2>2
  <2>4. \A i \in DOMAIN inbox'[c] : i \in DOMAIN inbox[c] \/ i = Len(inbox[c]) + 1
    BY <2>2
  <2>5. Len(inbox[c]) + 1 \in DOMAIN inbox'[c] /\ \A i \in DOMAIN inbox[c] : i \in DOMAIN inbox'[c]
    BY <2>2
  <2>6. \A d \in Conns : \A i \in DOMAIN inbox[d] : i \in DOMAIN inbox'[d] /\ inbox'[d][i] = inbox[d][i]
    BY <2>1, <2>2, <2>5
  <2>7. \A d \in Conns : \A i \in DOMAIN inbox'[d] :
              \/ i \in DOMAIN inbox[d]
              \/ /\ i = Len(inbox[d]) + 1 /\ inbox'[d][i] = cast[p].msg /\ Noted(cast[p].msg)
                 /\ d \in cast[p].left /\ d \notin cast'[p].left /\ d \notin broken
    BY <1>1, <1>4, <2>1, <2>2, <2>4
  <2>8. \A d \in cast[p].left, m \in Messages :
              d \notin cast'[p].left /\ d \notin broken /\ m = cast[p].msg /\ Noted(m) => Has(d, m)'
    BY <1>1, <2>2, <2>5 DEF Has
  <2>. QED  BY <2>3, <2>6, <2>7, <2>8 DEF Has
<1>. QED  BY <1>1, <1>3, <1>4

LEMMA HappenedStays ==
  ASSUME TypeInv, Control, [DeliveryNext]_deliveryVars, NEW m \in Messages, Happened(m)
  PROVE  Happened(m)'
<1>. USE GenType DEF TypeInv
<1>. DEFINE g == m.gen
<1>0. g \in Gens /\ m.kind \in Kinds /\ work[g] # "off" /\ m.seq \in 0..MaxLines
  BY MessageType DEF Happened
<1>1. CASE UNCHANGED taskVars
  BY <1>1 DEF taskVars, Happened
<1>2. CASE seq' = seq /\ work'[g] = work[g]
  BY <1>2 DEF Happened
<1>3. ASSUME NEW h \in Gens, Number(h) PROVE Happened(m)'
  <2>1. /\ seq \in Nat /\ seq' = seq + 1 /\ work[h] = "idle" /\ work'[h] = "numbered" /\ (g # h => work'[g] = work[g])
    BY <1>0, <1>3 DEF Number, GoesTo, TaskTypes
  <2>. QED  BY <1>0, <2>1 DEF Happened
<1>4. ASSUME NEW h \in Gens, VirtualWorker(h), ~Number(h) PROVE Happened(m)'
  <2>1. /\ seq' = seq /\ (g # h => work'[g] = work[g])
        /\ \/ work[h] = "numbered" /\ work'[h] = "sending"
           \/ work[h] = "sending" /\ work'[h] = "idle"
           \/ work[h] = "idle" /\ work'[h] = "exiting"
           \/ work[h] = "exiting" /\ work'[h] = "reporting"
           \/ work[h] = "reporting" /\ work'[h] = "settling"
           \/ work[h] = "settling" /\ work'[h] \in {"telling", "done"}
           \/ work[h] = "telling" /\ work'[h] = "done"
    BY <1>0, <1>4 DEF VirtualWorker, SendLine, Store, Finish, ReportExit, CountExit, Decide, Settled, GoesTo, TaskTypes
  <2>. QED  BY <1>0, <2>1 DEF Happened
<1>5. ASSUME NEW h \in Gens, DoRestart(h) PROVE Happened(m)'
  <2>1. g # h
    BY <1>0, <1>5 DEF DoRestart, Control, Generations
  <2>2. seq' = seq /\ work'[g] = work[g]
    BY <1>0, <1>5, <2>1 DEF DoRestart, TaskTypes
  <2>. QED  BY <1>2, <2>2
<1>6. ASSUME NEW h \in Gens, Restarted(h) PROVE Happened(m)'
  BY <1>2, <1>6 DEF Restarted
<1>7. CASE StartFn
  <2>1. launch[1] = "due" => g # 1
    BY <1>0 DEF Control, Generations
  <2>2. seq' = seq /\ work'[g] = work[g]
    BY <1>0, <1>7, <2>1 DEF StartFn, Start, Assign, AutoSubscribe, AnnounceStart, Launching, TaskTypes
  <2>. QED  BY <1>2, <2>2
<1>8. CASE StopTask
  BY <1>2, <1>8 DEF StopTask
<1>. QED  BY <1>1, <1>3, <1>4, <1>5, <1>6, <1>7, <1>8, QuietSteps DEF DeliveryNext, deliveryVars

(* What is sent has come to pass.                                           *)
LEMMA InFlightHappened ==
  ASSUME TypeInv, Control, InFlight, NEW p \in Goroutines, cast[p].left # {}, Noted(cast[p].msg)
  PROVE  Happened(cast[p].msg)
<1>. USE GenType
<1>1. \A k \in Kinds, g \in Gens, n \in 0..MaxLines :
        Message(k, g, n).kind = k /\ Message(k, g, n).gen = g /\ Message(k, g, n).seq = n
  BY MessageType
<1>2. ASSUME NEW g \in Gens, p = <<"work", g>> PROVE Happened(cast[p].msg)
  <2>1. work[g] \in {"sending", "reporting", "telling"}
    BY <1>2 DEF InFlight, Told
  <2>2. CASE work[g] = "sending"
    <3>1. cast[p].msg = Message("output", g, seq) /\ seq \in 0..MaxLines
      BY <1>2, <2>2 DEF InFlight, TypeInv, TaskTypes
    <3>. QED  BY <1>1, <2>2, <3>1 DEF Happened, Kinds
  <2>3. CASE work[g] = "reporting"
    <3>1. cast[p].msg = Message("exited", g, 0)
      BY <1>2, <2>3 DEF InFlight
    <3>. QED  BY <1>1, <2>3, <3>1 DEF Happened, Kinds
  <2>4. CASE work[g] = "telling"
    <3>1. PICK k \in {"restarting", "errored"} : cast[p].msg = Message(k, g, 0)
      BY <1>2, <2>4 DEF InFlight
    <3>. QED  BY <1>1, <2>4, <3>1 DEF Happened, Kinds
  <2>. QED  BY <2>1, <2>2, <2>3, <2>4
<1>3. ASSUME NEW g \in Gens, p = <<"launch", g>> PROVE Happened(cast[p].msg)
  <2>1. launch[g] = "telling" /\ cast[p].msg = Message("started", g, 0)
    BY <1>3 DEF InFlight, Told
  <2>2. work[g] # "off"
    BY <2>1 DEF Control, MuHeld
  <2>. QED  BY <1>1, <2>1, <2>2 DEF Happened, Kinds
<1>. QED  BY <1>2, <1>3

LEMMA NextOnlyNews ==
  ASSUME TypeInv, Control, InFlight, OnlyNews, [DeliveryNext]_deliveryVars
  PROVE  OnlyNews'
<1>. SUFFICES ASSUME NEW c \in Conns, NEW m \in Messages, Has(c, m)'
              PROVE  Happened(m)'
  BY DEF OnlyNews
<1>1. CASE Has(c, m)
  BY <1>1, HappenedStays DEF OnlyNews
<1>2. ASSUME NEW p \in Goroutines, Send(p), ~Has(c, m)
      PROVE  Happened(m)'
  <2>1. m = cast[p].msg /\ Noted(cast[p].msg) /\ cast[p].left # {}
    BY <1>2, SendInbox
  <2>. QED  BY <2>1, InFlightHappened, HappenedStays
<1>3. inbox'[c] = inbox[c] => Has(c, m)
  BY DEF Has
<1>4. inbox'[c] # <<>>
  BY DEF Has
<1>. QED  BY <1>1, <1>2, <1>3, <1>4, InboxSteps
-----------------------------------------------------------------------------
(* The order.                                                              *)

LEMMA FollowsWhen ==
  ASSUME NEW n \in Messages, NEW m \in Messages, m.gen \in Gens, n.gen \in Gens,
         n.kind \in Kinds, m.kind \in Kinds,
         \/ m.gen < n.gen /\ (n.kind = "output" => m.seq < n.seq \/ m.kind # "output" \/ m.seq = n.seq)
         \/ m.gen = n.gen /\ m.kind = "started" /\ n.kind # "started"
         \/ m.gen = n.gen /\ m.kind = "output" /\ n.kind = "output" /\ m.seq < n.seq
         \/ m.gen = n.gen /\ m.kind = "output" /\ n.kind \in {"exited", "restarting", "errored"}
         \/ m.gen = n.gen /\ m.kind = "exited" /\ n.kind \in {"restarting", "errored"}
         \/ m.gen = n.gen /\ m.kind = "exited" /\ n.kind = "started"
  PROVE  Follows(n, m)
<1>1. m.gen \in Nat /\ n.gen \in Nat /\ m.seq \in Nat /\ n.seq \in Nat
  BY MessageType, GenType
<1>. QED  BY <1>1 DEF Follows, Before, Rank, Kinds

(* What happens now comes after all that has happened.                      *)
LEMMA NewsFollows ==
  ASSUME TypeInv, Control, NEW p \in Goroutines, NEW n \in Messages, Tells(p, n), Noted(n),
         NEW m \in Messages, Happened(m)
  PROVE  Follows(n, m)
<1>. USE GenType DEF TypeInv
<1>0. /\ m.gen \in Gens /\ m.kind \in Kinds /\ work[m.gen] # "off" /\ m.seq \in 0..MaxLines /\ seq \in 0..MaxLines
      /\ \A k \in Kinds, g \in Gens, i \in 0..MaxLines :
           Message(k, g, i).kind = k /\ Message(k, g, i).gen = g /\ Message(k, g, i).seq = i
  BY MessageType DEF Happened, TaskTypes
<1>1. ASSUME NEW g \in Gens, SendLine(g), n = Message("output", g, seq) PROVE Follows(n, m)
  <2>1. work[g] = "numbered" /\ n.kind = "output" /\ n.gen = g /\ n.seq = seq
    BY <1>0, <1>1 DEF SendLine, GoesTo, Kinds
  <2>2. m.gen <= g
    BY <1>0, <2>1, OneAtWork DEF Control
  <2>3. m.gen = g => m.kind \in {"started", "output"} /\ (m.kind = "output" => m.seq < seq)
    BY <1>0, <2>1 DEF Happened, Kinds
  <2>4. m.kind = "output" => m.seq <= seq
    BY DEF Happened
  <2>5. m.gen < g \/ m.gen = g
    BY <1>0, <2>2
  <2>6. m.gen < n.gen => m.seq < n.seq \/ m.kind # "output" \/ m.seq = n.seq
    BY <1>0, <2>1, <2>4
  <2>7. "output" \in Kinds
    BY DEF Kinds
  <2>. QED  BY <1>0, <2>1, <2>3, <2>5, <2>6, <2>7, FollowsWhen
<1>2. ASSUME NEW g \in Gens, ReportExit(g), n = Message("exited", g, 0) PROVE Follows(n, m)
  <2>1. work[g] = "exiting" /\ n.kind = "exited" /\ n.gen = g /\ "exited" \in Kinds
    BY <1>0, <1>2 DEF ReportExit, GoesTo, Kinds
  <2>2. m.gen <= g
    BY <1>0, <2>1, OneAtWork DEF Control
  <2>3. m.gen = g => m.kind \in {"started", "output"}
    BY <1>0, <2>1 DEF Happened, Kinds
  <2>4. m.gen < g \/ m.gen = g
    BY <1>0, <2>2
  <2>. QED  BY <1>0, <2>1, <2>3, <2>4, FollowsWhen
<1>3. ASSUME NEW g \in Gens, Decide(g), n = Message("restarting", g, 0) \/ n = Message("errored", g, 0)
      PROVE  Follows(n, m)
  <2>a. work[g] = "settling"
    BY <1>3 DEF Decide, GoesTo
  <2>0. 0 \in 0..MaxLines /\ "restarting" \in Kinds /\ "errored" \in Kinds
    BY DEF Kinds
  <2>1. work[g] = "settling" /\ n.kind \in {"restarting", "errored"} /\ n.gen = g /\ n.kind \in Kinds
    BY <1>0, <1>3, <2>a, <2>0
  <2>2. m.gen <= g
    BY <1>0, <2>1, OneAtWork DEF Control
  <2>3. m.gen = g => m.kind \in {"started", "output", "exited"}
    BY <1>0, <2>1 DEF Happened, Kinds
  <2>4. m.gen < g \/ m.gen = g
    BY <1>0, <2>2
  <2>. QED  BY <1>0, <2>1, <2>3, <2>4, FollowsWhen
<1>4. ASSUME NEW g \in Gens, DoRestart(g), n = Message("started", g, 0) PROVE Follows(n, m)
  <2>1. launch[g] = "due" /\ n.kind = "started" /\ n.gen = g /\ "started" \in Kinds
    BY <1>0, <1>4 DEF DoRestart, Kinds
  <2>2. work[g] = "off"
    BY <2>1 DEF Control, Generations
  <2>3. \A h \in Gens : h > g => work[h] = "off"
    BY <2>2 DEF Control, Generations
  <2>4. m.gen < g
    BY <1>0, <2>2, <2>3
  <2>. QED  BY <1>0, <2>1, <2>4, FollowsWhen
<1>. QED  BY <1>1, <1>2, <1>3, <1>4 DEF Tells, Noted

(* Two goroutines that broadcast at the same time say what may come in       *)
(* either order: a worker its exit, and doRestart the start of that worker. *)
LEMMA TwoInFlight ==
  ASSUME TypeInv, Control, InFlight, NEW p \in Goroutines, NEW q \in Goroutines, p # q,
         cast[p].left # {}, cast[q].left # {}, Noted(cast[p].msg), Noted(cast[q].msg)
  PROVE  Follows(cast[p].msg, cast[q].msg)
<1>. USE GenType
<1>1. \A g, h \in Gens : ~(p = <<"work", g>> /\ q = <<"work", h>>)
  <2>. SUFFICES ASSUME NEW g \in Gens, NEW h \in Gens, p = <<"work", g>>, q = <<"work", h>> PROVE FALSE
    OBVIOUS
  <2>1. g # h /\ work[g] \notin {"off", "done"} /\ work[h] \notin {"off", "done"}
    BY DEF InFlight, Told
  <2>. QED  BY <2>1, OneAtWork DEF Control
<1>2. ASSUME NEW g \in Gens, NEW r \in Goroutines, r = <<"launch", g>>, cast[r].left # {}, Noted(cast[r].msg)
      PROVE  launch[g] = "telling" /\ cast[r].msg = Message("started", g, 0)
  <2>1. g > 1
    BY <1>2 DEF InFlight
  <2>. QED  BY <1>2, <2>1 DEF InFlight, Told
<1>3. \A g, h \in Gens : ~(p = <<"launch", g>> /\ q = <<"launch", h>>)
  BY <1>2 DEF Control, MuHeld
<1>4. ASSUME NEW g \in Gens, NEW h \in Gens, NEW r \in Goroutines, NEW s \in Goroutines,
             r = <<"launch", g>>, s = <<"work", h>>, cast[r].left # {}, cast[s].left # {}, Noted(cast[r].msg)
      PROVE  g = h /\ cast[r].msg = Message("started", g, 0) /\ cast[s].msg = Message("exited", g, 0)
  <2>1. launch[g] = "telling" /\ cast[r].msg = Message("started", g, 0)
    BY <1>2, <1>4
  <2>2. work[h] \in {"sending", "reporting", "telling"}
    BY <1>4 DEF InFlight, Told
  <2>3. work[g] \in {"idle", "exiting", "reporting"}
    BY <2>1 DEF Control, MuHeld
  <2>4. g = h
    BY <2>2, <2>3, OneAtWork DEF Control
  <2>. QED  BY <1>4, <2>1, <2>2, <2>3, <2>4 DEF InFlight
<1>5. \A g \in Gens : LET n == Message("started", g, 0)  m == Message("exited", g, 0)
                      IN  Follows(n, m) /\ Follows(m, n)
  <2>. SUFFICES ASSUME NEW g \in Gens
                PROVE  /\ Follows(Message("started", g, 0), Message("exited", g, 0))
                       /\ Follows(Message("exited", g, 0), Message("started", g, 0))
    OBVIOUS
  <2>. DEFINE n == Message("started", g, 0)
             m == Message("exited", g, 0)
  <2>1. /\ n \in Messages /\ n.kind = "started" /\ n.gen = g /\ m \in Messages /\ m.kind = "exited" /\ m.gen = g
        /\ n.kind \in Kinds /\ m.kind \in Kinds
    BY MessageType DEF Kinds
  <2>. HIDE DEF n, m
  <2>2. Follows(n, m) /\ Follows(m, n)
    BY <2>1, FollowsWhen
  <2>. QED  BY <2>2 DEF n, m
<1>6. \/ \E g \in Gens : p = <<"work", g>>
      \/ \E g \in Gens : p = <<"launch", g>>
  OBVIOUS
<1>7. \/ \E g \in Gens : q = <<"work", g>>
      \/ \E g \in Gens : q = <<"launch", g>>
  OBVIOUS
<1>. QED  BY <1>1, <1>3, <1>4, <1>5, <1>6, <1>7

(* Where a broadcast has still to go.                                       *)
LEMMA LeftSteps ==
  ASSUME TypeInv, [DeliveryNext]_deliveryVars, NEW q \in Goroutines
  PROVE  \/ /\ cast'[q].msg = cast[q].msg /\ cast'[q].to = cast[q].to
            /\ cast'[q].left \subseteq cast[q].left
            /\ cast'[q].left # cast[q].left => Send(q)
         \/ \E n \in Messages : /\ Tells(q, n) /\ cast'[q].msg = n
                                /\ cast'[q].to = subs /\ cast'[q].left = subs
<1>1. CASE UNCHANGED cast
  BY <1>1
<1>2. ASSUME NEW p \in Goroutines, Send(p)
      PROVE  /\ cast'[q].msg = cast[q].msg /\ cast'[q].to = cast[q].to
             /\ cast'[q].left \subseteq cast[q].left
             /\ cast'[q].left # cast[q].left => Send(q)
  BY <1>2, SendEffect
<1>3. ASSUME NEW p \in Goroutines, Reap(p)
      PROVE  cast'[q].msg = cast[q].msg /\ cast'[q].to = cast[q].to /\ cast'[q].left = cast[q].left
  BY <1>3, ReapEffect
<1>4. ASSUME NEW p \in Goroutines, NEW n \in Messages, Tells(p, n)
      PROVE  \/ q # p /\ cast'[q] = cast[q]
             \/ q = p /\ cast'[q].msg = n /\ cast'[q].to = subs /\ cast'[q].left = subs
  BY <1>4 DEF Tells, Announce, TypeInv, CastTypes
<1>. QED  BY <1>1, <1>2, <1>3, <1>4, CastSteps DEF Broadcasting

LEMMA NextLineUp ==
  ASSUME TypeInv, Control, InFlight, OnlyNews, LineUp, [DeliveryNext]_deliveryVars, CastTypes'
  PROVE  LineUp'
<1>. SUFFICES ASSUME NEW q \in Goroutines, NEW c \in Conns, NEW m \in Messages, NEW n \in Messages,
                     c \in cast'[q].left, n = cast'[q].msg, Noted(n), Has(c, m)'
              PROVE  Follows(n, m)
  BY DEF LineUp, CastTypes, Noted, Follows, Before, Has
<1>1. ASSUME cast[q].msg = n, c \in cast[q].left, Has(c, m)
      PROVE  Follows(n, m)
  BY <1>1 DEF LineUp
<1>2. CASE Tells(q, n)
  <2>1. inbox' = inbox
    BY <1>2 DEF Tells, connVars
  <2>2. Happened(m)
    BY <2>1 DEF OnlyNews, Has
  <2>. QED  BY <1>2, <2>2, NewsFollows
<1>3. CASE cast'[q].msg = cast[q].msg /\ cast'[q].left \subseteq cast[q].left
  <2>1. ASSUME NEW p \in Goroutines, Send(p), ~Has(c, m) PROVE Follows(n, m)
    <3>1. m = cast[p].msg /\ Noted(cast[p].msg) /\ c \in cast[p].left /\ c \notin cast'[p].left
      BY <2>1, SendInbox
    <3>2. p # q
      BY <3>1
    <3>. QED  BY <1>3, <3>1, <3>2, TwoInFlight
  <2>2. (\A p \in Goroutines : ~Send(p)) => Has(c, m)
    <3>1. inbox'[c] = inbox[c] => Has(c, m)
      BY DEF Has
    <3>2. inbox'[c] # <<>>
      BY DEF Has
    <3>. QED  BY <3>1, <3>2, InboxSteps
  <2>. QED  BY <1>1, <1>3, <2>1, <2>2
<1>. QED  BY <1>2, <1>3, LeftSteps

LEMMA NextInOrder ==
  ASSUME TypeInv, LineUp, InOrder, [DeliveryNext]_deliveryVars
  PROVE  InOrder'
<1>. SUFFICES ASSUME NEW c \in Conns, NEW i \in DOMAIN inbox'[c], NEW j \in DOMAIN inbox'[c], i < j
              PROVE  inbox'[c][i] # inbox'[c][j] /\ ~Before(inbox'[c][j], inbox'[c][i])
  BY DEF InOrder, Before
<1>1. CASE inbox'[c] = inbox[c]
  BY <1>1 DEF InOrder
<1>2. inbox'[c] # <<>>
  OBVIOUS
<1>3. ASSUME NEW p \in Goroutines, Send(p)
      PROVE  inbox'[c][i] # inbox'[c][j] /\ ~Before(inbox'[c][j], inbox'[c][i])
  <2>1. /\ inbox[c] \in Seq(Messages) /\ DOMAIN inbox[c] = 1..Len(inbox[c]) /\ Len(inbox[c]) \in Nat
        /\ \A k \in DOMAIN inbox[c] : inbox'[c][k] = inbox[c][k] /\ inbox[c][k] \in Messages
        /\ \A k \in DOMAIN inbox'[c] : k \in DOMAIN inbox[c] \/ k = Len(inbox[c]) + 1
    BY <1>3, SendInbox, LenProperties, ElementOfSeq DEF TypeInv, ClientTypes
  <2>2. i \in DOMAIN inbox[c]
    BY <2>1
  <2>3. CASE j \in DOMAIN inbox[c]
    BY <2>1, <2>2, <2>3 DEF InOrder
  <2>4. CASE j \notin DOMAIN inbox[c]
    <3>1. inbox'[c][j] = cast[p].msg /\ Noted(cast[p].msg) /\ c \in cast[p].left
      BY <1>3, <2>4, SendInbox
    <3>2. Has(c, inbox[c][i]) /\ inbox[c][i] \in Messages
      BY <2>1, <2>2 DEF Has
    <3>3. Follows(cast[p].msg, inbox[c][i])
      BY <3>1, <3>2 DEF LineUp
    <3>. QED  BY <2>1, <2>2, <3>1, <3>3 DEF Follows
  <2>. QED  BY <2>3, <2>4
<1>. QED  BY <1>1, <1>2, <1>3, InboxSteps

LEMMA NextPass ==
  ASSUME TypeInv, PassInv, [DeliveryNext]_deliveryVars, CastTypes'
  PROVE  PassInv'
<1>. SUFFICES ASSUME NEW q \in Goroutines, NEW n \in Messages, n = cast'[q].msg, Noted(n),
                     NEW c \in cast'[q].to, c \notin cast'[q].left, c \notin broken'
              PROVE  Has(c, n)'
  BY DEF PassInv, CastTypes, Noted, Has
<1>1. /\ cast'[q].msg = cast[q].msg /\ cast'[q].to = cast[q].to
      /\ cast'[q].left # cast[q].left => Send(q)
  BY LeftSteps
<1>2. c \notin broken /\ c \in Conns
  BY InboxSteps DEF CastTypes
<1>3. CASE c \in cast[q].left
  BY <1>1, <1>2, <1>3, SendInbox
<1>4. CASE c \notin cast[q].left
  <2>1. Has(c, n)
    BY <1>1, <1>2, <1>4 DEF PassInv
  <2>2. inbox'[c] = inbox[c] => Has(c, n)'
    BY <2>1 DEF Has
  <2>. QED  BY <1>2, <2>1, <2>2, InboxSteps, SendInbox
<1>. QED  BY <1>3, <1>4
-----------------------------------------------------------------------------
(* The events of the workers.                                              *)

(* A worker goes on without storing anything.                               *)
LEMMA RingSame ==
  ASSUME TypeInv, TaskTypes', Generations, RingInv, NEW g \in Gens, work[g] \notin {"off", "done"},
         work'[g] # "off", \A h \in Gens : h # g => work'[h] = work[h],
         rings' = rings, seq' >= seq, LastLine(g)' = LastLine(g),
         work[g] \in {"idle", "numbered", "sending"} <=> work'[g] \in {"idle", "numbered", "sending"},
         work'[g] \in {"numbered", "sending"} => seq' > 0
  PROVE  RingInv'
<1>. USE GenType DEF TypeInv
<1>1. \A h \in Gens : h # g => work[h] \in {"off", "done"}
  BY OneAtWork
<1>2. \A h \in Gens : work'[h] \in {"numbered", "sending"} => seq' > 0
  BY <1>1
<1>3. \A h \in Gens : work'[h] = "off" => rings'[h] = <<>>
  BY DEF RingInv
<1>4. \A h \in Gens : \A i \in 1..Len(rings'[h]) : rings'[h][i].kind = "output" => rings'[h][i].seq \in 1..seq'
  <2>1. seq \in Nat /\ seq' \in Nat /\ \A n \in 1..seq : n \in 1..seq'
    BY DEF TaskTypes
  <2>. QED  BY <2>1 DEF RingInv
<1>5. \A h \in Gens : Newest(h)' => h = g
  <2>1. \A h \in Gens : h > g => work[h] = "off"
    BY OneAtWork
  <2>. QED  BY <2>1 DEF Newest
<1>6. Newest(g)' => RingOf(g)'
  <2>1. Newest(g)
    BY OneAtWork DEF Newest
  <2>2. Held(g)' = Held(g)
    BY DEF Held
  <2>. QED  BY <2>1, <2>2 DEF RingInv, RingOf
<1>. QED  BY <1>2, <1>3, <1>4, <1>5, <1>6 DEF RingInv

(* A worker stores a line or its exit.                                      *)
LEMMA RingStores ==
  ASSUME TypeInv, Generations, RingInv, NEW g \in Gens, NEW m \in Messages,
         \A h \in Gens : h # g => work'[h] = work[h],
         rings' = [rings EXCEPT ![g] = Stored(@, m)], seq' = seq,
         \/ work[g] = "sending" /\ work'[g] = "idle" /\ m.kind = "output" /\ m.seq = seq
         \/ work[g] = "idle" /\ work'[g] = "exiting" /\ m.kind = "exited"
  PROVE  RingInv'
<1>. USE GenType DEF TypeInv
<1>. DEFINE n == Len(rings[g])
            new == Stored(rings[g], m)
<1>0. /\ n \in Nat /\ seq \in Nat /\ rings'[g] = new /\ \A h \in Gens : h # g => rings'[h] = rings[h]
      /\ rings[g] \in Seq(Messages) /\ n <= RingSize
  BY LenProperties DEF TaskTypes
<1>1. PICK d \in {0, 1} : /\ n >= d /\ Len(new) = n + 1 - d /\ new[n + 1 - d] = m
                          /\ \A i \in 1..(n - d) : new[i] = rings[g][i + d]
  <2>1. ASSUME NEW ring \in Seq(Messages), Len(ring) <= RingSize
        PROVE  \E d \in {0, 1} :
                 /\ Len(ring) >= d /\ Len(Stored(ring, m)) = Len(ring) + 1 - d
                 /\ Stored(ring, m)[Len(ring) + 1 - d] = m
                 /\ \A i \in 1..(Len(ring) - d) : Stored(ring, m)[i] = ring[i + d]
    BY <2>1, StoredProperties
  <2>. QED  BY <1>0, <2>1
<1>2. \A h \in Gens : h # g => work[h] \in {"off", "done"}
  BY OneAtWork
<1>3. \A h \in Gens : work'[h] \notin {"numbered", "sending"}
  BY <1>2
<1>4. \A h \in Gens : work'[h] = "off" => rings'[h] = <<>>
  BY <1>0 DEF RingInv
<1>5. \A i \in 1..(n + 1 - d) : i = n + 1 - d \/ (i \in 1..(n - d) /\ i + d \in 1..n)
  <2>1. n \in Nat /\ d \in {0, 1} /\ n >= d
    BY <1>0, <1>1
  <2>. HIDE DEF n
  <2>. QED  BY <2>1
<1>6. \A h \in Gens : \A i \in 1..Len(rings'[h]) : rings'[h][i].kind = "output" => rings'[h][i].seq \in 1..seq'
  <2>1. m.kind = "output" => m.seq \in 1..seq
    BY <1>0 DEF RingInv
  <2>2. \A i \in 1..Len(new) : new[i].kind = "output" => new[i].seq \in 1..seq
    <3>. SUFFICES ASSUME NEW i \in 1..(n + 1 - d), new[i].kind = "output" PROVE new[i].seq \in 1..seq
      BY <1>1
    <3>1. ASSUME i \in 1..(n - d), i + d \in 1..n PROVE new[i].seq \in 1..seq
      <4>1. new[i] = rings[g][i + d]
        BY <1>1, <3>1
      <4>. HIDE DEF new
      <4>. QED  BY <3>1, <4>1 DEF RingInv
    <3>. QED  BY <1>1, <1>5, <2>1, <3>1
  <2>. QED  BY <1>0, <2>2 DEF RingInv
<1>7. \A h \in Gens : Newest(h)' => h = g
  <2>1. \A h \in Gens : h > g => work[h] = "off"
    BY OneAtWork
  <2>. QED  BY <2>1 DEF Newest
<1>8. Newest(g) /\ RingOf(g)
  BY OneAtWork DEF Newest, RingInv
<1>9. Held(g) = n /\ \A i \in 1..n : rings[g][i].kind = "output" /\ rings[g][i].seq = LastLine(g) - (n - i)
  BY <1>8 DEF Held, RingOf
<1>10. RingOf(g)'
  <2>1. CASE work[g] = "sending" /\ work'[g] = "idle" /\ m.kind = "output" /\ m.seq = seq
    <3>1. Held(g)' = n + 1 - d /\ Len(rings'[g]) = n + 1 - d /\ LastLine(g)' = seq /\ LastLine(g) = seq - 1
      BY <1>0, <1>1, <2>1 DEF Held, LastLine
    <3>2. \A i \in 1..(n + 1 - d) : new[i].kind = "output" /\ new[i].seq = seq - (n + 1 - d - i)
      <4>. SUFFICES ASSUME NEW i \in 1..(n + 1 - d)
                    PROVE  new[i].kind = "output" /\ new[i].seq = seq - (n + 1 - d - i)
        OBVIOUS
      <4>1. CASE i = n + 1 - d
        BY <1>0, <1>1, <2>1, <4>1
      <4>2. CASE i \in 1..(n - d) /\ i + d \in 1..n
        <5>1. new[i] = rings[g][i + d]
          BY <1>1, <4>2
        <5>2. rings[g][i + d].kind = "output" /\ rings[g][i + d].seq = (seq - 1) - (n - (i + d))
          BY <1>9, <3>1, <4>2
        <5>3. (seq - 1) - (n - (i + d)) = seq - (n + 1 - d - i)
          BY <1>0, <1>1
        <5>. QED  BY <5>1, <5>2, <5>3
      <4>. QED  BY <1>5, <4>1, <4>2
    <3>3. \A i \in 1..Held(g)' : /\ rings'[g][i].kind = "output"
                                 /\ rings'[g][i].seq = LastLine(g)' - (Held(g)' - i)
      <4>. SUFFICES ASSUME NEW i \in 1..(n + 1 - d)
                    PROVE  new[i].kind = "output" /\ new[i].seq = seq - ((n + 1 - d) - i)
        BY <1>0, <3>1
      <4>1. n + 1 - d - i = (n + 1 - d) - i
        BY <1>0, <1>1
      <4>. QED  BY <3>2, <4>1
    <3>. QED  BY <3>1, <3>3 DEF RingOf
  <2>2. CASE work[g] = "idle" /\ work'[g] = "exiting" /\ m.kind = "exited"
    <3>1. Held(g)' = n - d /\ Len(rings'[g]) = n + 1 - d /\ LastLine(g)' = seq /\ LastLine(g) = seq
      BY <1>0, <1>1, <2>2 DEF Held, LastLine
    <3>2. \A i \in 1..(n - d) : new[i].kind = "output" /\ new[i].seq = seq - (n - d - i)
      <4>. SUFFICES ASSUME NEW i \in 1..(n - d)
                    PROVE  new[i].kind = "output" /\ new[i].seq = seq - (n - d - i)
        OBVIOUS
      <4>1. new[i] = rings[g][i + d] /\ i + d \in 1..n
        BY <1>0, <1>1
      <4>2. rings[g][i + d].kind = "output" /\ rings[g][i + d].seq = seq - (n - (i + d))
        BY <1>9, <3>1, <4>1
      <4>3. seq - (n - (i + d)) = seq - (n - d - i)
        BY <1>0, <1>1
      <4>. QED  BY <4>1, <4>2, <4>3
    <3>3. n - d >= 0
      BY <1>0, <1>1
    <3>. QED  BY <1>0, <1>1, <2>2, <3>1, <3>2, <3>3 DEF RingOf
  <2>. QED  BY <2>1, <2>2
<1>. QED  BY <1>3, <1>4, <1>6, <1>7, <1>10 DEF RingInv

(* The next generation starts with no events.                               *)
LEMMA RingBegins ==
  ASSUME TypeInv, Generations, RingInv, NEW g \in Gens, launch[g] = "due",
         work'[g] = "idle", \A h \in Gens : h # g => work'[h] = work[h],
         rings' = rings, seq' = seq
  PROVE  RingInv'
<1>. USE GenType DEF TypeInv
<1>1. work[g] = "off" /\ rings[g] = <<>>
  BY DEF Generations, RingInv
<1>2. \A h \in Gens : h # g => work[h] \in {"off", "done"}
  <2>1. \A h \in Gens : h < g => work[h] = "done"
    BY DEF Generations
  <2>2. \A h \in Gens : h > g => work[h] = "off"
    BY <1>1 DEF Generations
  <2>. QED  BY <2>1, <2>2
<1>3. \A h \in Gens : work'[h] \notin {"numbered", "sending"}
  BY <1>2
<1>4. \A h \in Gens : Newest(h)' => h = g
  <2>1. \A h \in Gens : h > g => work[h] = "off"
    BY <1>1 DEF Generations
  <2>. QED  BY <2>1 DEF Newest
<1>5. RingOf(g)'
  <2>1. Len(<<>>) = 0
    BY EmptySeq
  <2>2. Held(g)' = 0 /\ Len(rings'[g]) = 0
    BY <1>1, <2>1 DEF Held
  <2>. QED  BY <2>2 DEF RingOf
<1>6. \A h \in Gens : work'[h] = "off" => rings'[h] = <<>>
  BY DEF RingInv
<1>. QED  BY <1>3, <1>4, <1>5, <1>6 DEF RingInv

LEMMA NextRing ==
  ASSUME TypeInv, TaskTypes', Generations, RingInv, [DeliveryNext]_deliveryVars
  PROVE  RingInv'
<1>. USE GenType DEF TypeInv
<1>1. CASE UNCHANGED <<work, rings, seq>>
  BY <1>1 DEF RingInv, RingOf, Newest, Held, LastLine
<1>2. ASSUME NEW g \in Gens, Number(g) PROVE RingInv'
  <2>1. /\ work[g] = "idle" /\ work'[g] = "numbered" /\ \A h \in Gens : h # g => work'[h] = work[h]
        /\ rings' = rings /\ seq' = seq + 1 /\ seq \in Nat
    BY <1>2 DEF Number, GoesTo, TaskTypes
  <2>2. LastLine(g) = seq /\ LastLine(g)' = seq
    BY <2>1 DEF LastLine
  <2>. QED  BY <2>1, <2>2, RingSame
<1>3. ASSUME NEW g \in Gens, SendLine(g) \/ ReportExit(g) \/ CountExit(g) \/ Decide(g) \/ Settled(g)
      PROVE  RingInv'
  <2>1. /\ \A h \in Gens : h # g => work'[h] = work[h]
        /\ rings' = rings /\ seq' = seq /\ seq \in Nat
        /\ \/ work[g] = "numbered" /\ work'[g] = "sending"
           \/ work[g] = "exiting" /\ work'[g] = "reporting"
           \/ work[g] = "reporting" /\ work'[g] = "settling"
           \/ work[g] = "settling" /\ work'[g] \in {"telling", "done"}
           \/ work[g] = "telling" /\ work'[g] = "done"
    <3>1. ASSUME Decide(g)
          PROVE  /\ GoesTo(g, "settling", "telling") \/ GoesTo(g, "settling", "done")
                 /\ rings' = rings /\ seq' = seq
      BY <3>1 DEF Decide
    <3>0. seq \in Nat
      BY DEF TaskTypes
    <3>2. CASE Decide(g)
      BY <3>0, <3>1, <3>2, WorkMoves
    <3>3. CASE SendLine(g) \/ ReportExit(g)
      BY <3>0, <3>3, WorkMoves DEF SendLine, ReportExit
    <3>4. CASE CountExit(g)
      BY <3>0, <3>4, WorkMoves DEF CountExit
    <3>5. CASE Settled(g)
      BY <3>0, <3>5, WorkMoves DEF Settled
    <3>. QED  BY <1>3, <3>2, <3>3, <3>4, <3>5
  <2>2. LastLine(g)' = LastLine(g)
    BY <2>1 DEF LastLine
  <2>3. work'[g] \in {"numbered", "sending"} => seq' > 0
    BY <2>1 DEF RingInv
  <2>. QED  BY <2>1, <2>2, <2>3, RingSame
<1>4. ASSUME NEW g \in Gens, Store(g) PROVE RingInv'
  <2>1. /\ work[g] = "sending" /\ work'[g] = "idle" /\ \A h \in Gens : h # g => work'[h] = work[h]
        /\ seq' = seq /\ rings' = [rings EXCEPT ![g] = Stored(@, Message("output", g, seq))]
        /\ seq \in 0..MaxLines /\ "output" \in Kinds
    BY <1>4 DEF Store, GoesTo, TaskTypes, Kinds
  <2>2. /\ Message("output", g, seq) \in Messages
        /\ Message("output", g, seq).kind = "output" /\ Message("output", g, seq).seq = seq
    BY <2>1, MessageType
  <2>. QED  BY <2>1, <2>2, RingStores
<1>5. ASSUME NEW g \in Gens, Finish(g) PROVE RingInv'
  <2>1. /\ work[g] = "idle" /\ work'[g] = "exiting" /\ \A h \in Gens : h # g => work'[h] = work[h]
        /\ seq' = seq /\ rings' = [rings EXCEPT ![g] = Stored(@, Message("exited", g, 0))]
        /\ 0 \in 0..MaxLines /\ "exited" \in Kinds
    BY <1>5 DEF Finish, GoesTo, TaskTypes, Kinds
  <2>2. Message("exited", g, 0) \in Messages /\ Message("exited", g, 0).kind = "exited"
    BY <2>1, MessageType
  <2>. QED  BY <2>1, <2>2, RingStores
<1>6. ASSUME NEW g \in Gens, DoRestart(g) PROVE RingInv'
  <2>1. /\ launch[g] = "due" /\ rings' = rings /\ seq' = seq
        /\ \/ work' = work
           \/ work'[g] = "idle" /\ \A h \in Gens : h # g => work'[h] = work[h]
    BY <1>6 DEF DoRestart, TaskTypes
  <2>. QED  BY <1>1, <2>1, RingBegins
<1>7. CASE Start
  <2>1. /\ launch[1] = "due" /\ rings' = rings /\ seq' = seq
        /\ work'[1] = "idle" /\ \A h \in Gens : h # 1 => work'[h] = work[h]
    BY <1>7 DEF Start, Launching, TaskTypes
  <2>. QED  BY <2>1, RingBegins
<1>8. Assign \/ AutoSubscribe \/ AnnounceStart \/ StopTask => UNCHANGED <<work, rings, seq>>
  BY DEF Assign, AutoSubscribe, AnnounceStart, StopTask
<1>9. \A g \in Gens : Restarted(g) => UNCHANGED <<work, rings, seq>>
  BY DEF Restarted
<1>10. UNCHANGED taskVars => UNCHANGED <<work, rings, seq>>
  BY DEF taskVars
<1>. QED  BY <1>1, <1>2, <1>3, <1>4, <1>5, <1>6, <1>7, <1>8, <1>9, <1>10, QuietSteps
          DEF DeliveryNext, deliveryVars, VirtualWorker, StartFn
-----------------------------------------------------------------------------
(* The last `held` of the numbers up to `last`.                              *)
LEMMA LastOnes ==
  ASSUME NEW last \in Nat, NEW held \in Nat, held <= last
  PROVE  /\ {last - (held - i) : i \in 1..held} = (last + 1 - held)..last
         /\ Min(((last + 1 - held)..last) \cup {last + 1}) = last + 1 - held
<1>. DEFINE low == last + 1 - held
            S == (low..last) \cup {last + 1}
<1>1. low \in Nat /\ low <= last + 1 /\ low = last - (held - 1) /\ low >= 1
  OBVIOUS
<1>2. \A i \in 1..held : last - (held - i) \in low..last
  BY <1>1
<1>3. ASSUME NEW k \in low..last PROVE \E i \in 1..held : last - (held - i) = k
  <2>1. k - (low - 1) \in 1..held /\ last - (held - (k - (low - 1))) = k
    BY <1>1
  <2>. QED  BY <2>1
<1>4. low \in S /\ \A k \in S : k \in Nat /\ low <= k
  BY <1>1
<1>. HIDE DEF S, low
<1>5. Min(S) = low
  <2>1. low \in Nat
    BY <1>1
  <2>2. \A k \in S : (\A l \in S : k <= l) => k = low
    BY <1>4, <2>1
  <2>. QED  BY <1>4, <2>2 DEF Min
<1>6. {last - (held - i) : i \in 1..held} = low..last
  BY <1>2, <1>3
<1>. QED  BY <1>5, <1>6 DEF S, low

(* What a replay reads: the lines from the oldest held to the last stored.   *)
LEMMA RingLines ==
  ASSUME TypeInv, RingInv, NEW g \in Gens, Newest(g)
  PROVE  /\ Held(g) \in Nat /\ LastLine(g) \in Nat /\ Held(g) <= LastLine(g) /\ LastLine(g) <= seq
         /\ Lines(rings[g]) = (LastLine(g) + 1 - Held(g))..LastLine(g)
         /\ OldestLine(g) = LastLine(g) + 1 - Held(g)
<1>. USE GenType DEF TypeInv
<1>. DEFINE ring == rings[g]
            held == Held(g)
            last == LastLine(g)
<1>1. /\ ring \in Seq(Messages) /\ Len(ring) \in Nat /\ DOMAIN ring = 1..Len(ring) /\ seq \in Nat
      /\ last \in Nat /\ last <= seq
  <2>1. ring \in Seq(Messages) /\ seq \in Nat
    BY DEF TaskTypes
  <2>2. last \in Nat /\ last <= seq
    BY <2>1 DEF LastLine, RingInv
  <2>. QED  BY <2>1, <2>2, LenProperties
<1>2. /\ \A i \in 1..held : ring[i].kind = "output" /\ ring[i].seq = last - (held - i)
      /\ held # Len(ring) => held >= 0 /\ ring[Len(ring)].kind = "exited"
  BY DEF RingInv, RingOf
<1>3. held \in Nat /\ (held = Len(ring) \/ held = Len(ring) - 1)
  BY <1>1, <1>2 DEF Held
<1>4. held <= last
  <2>1. CASE held = 0
    BY <1>1, <2>1
  <2>2. CASE held > 0
    <3>1. 1 \in 1..held /\ 1 \in 1..Len(ring)
      BY <1>1, <1>3, <2>2
    <3>2. ring[1].kind = "output" /\ ring[1].seq = last - (held - 1)
      BY <1>2, <3>1
    <3>3. ring[1].seq \in 1..seq
      BY <3>1, <3>2 DEF RingInv
    <3>. QED  BY <1>1, <1>3, <3>2, <3>3
  <2>. QED  BY <1>3, <2>1, <2>2
<1>5. {j \in DOMAIN ring : ring[j].kind = "output"} = 1..held
  <2>1. \A j \in 1..held : j \in DOMAIN ring
    BY <1>1, <1>3
  <2>2. \A j \in DOMAIN ring : j \in 1..held \/ (j = Len(ring) /\ held # Len(ring))
    BY <1>1, <1>3
  <2>. QED  BY <1>2, <2>1, <2>2
<1>6. Lines(ring) = {ring[i].seq : i \in 1..held}
  BY <1>5 DEF Lines
<1>7. {ring[i].seq : i \in 1..held} = {last - (held - i) : i \in 1..held}
  BY <1>2
<1>8. OldestLine(g) = Min({last - (held - i) : i \in 1..held} \cup {last + 1})
  <2>1. (IF work[g] \in {"numbered", "sending"} THEN seq ELSE seq + 1) = last + 1
    BY <1>1 DEF LastLine
  <2>. QED  BY <1>6, <1>7, <2>1 DEF OldestLine
<1>9. /\ {last - (held - i) : i \in 1..held} = (last + 1 - held)..last
      /\ Min(((last + 1 - held)..last) \cup {last + 1}) = last + 1 - held
  BY <1>1, <1>3, <1>4, LastOnes
<1>. QED  BY <1>1, <1>3, <1>4, <1>6, <1>7, <1>8, <1>9

(* The worker that a replay reads.                                         *)
LEMMA ReplayReads ==
  ASSUME TypeInv, Generations, RingInv, NEW c \in Conns, Replay(c)
  PROVE  /\ worker \in Gens /\ Newest(worker)
         /\ replayed' = [replayed EXCEPT ![c] = @ \cup GetEvents(worker)]
         /\ resumed' = [resumed EXCEPT ![c] = IF @ = 0 THEN OldestLine(worker) ELSE @]
         /\ GetEvents(worker) = OldestLine(worker)..LastLine(worker)
         /\ GetEvents(worker) \subseteq 1..MaxLines /\ OldestLine(worker) \in 1..(MaxLines + 1)
         /\ LastLine(worker) \in {seq - 1, seq} /\ LastLine(worker) \in Nat
<1>. USE GenType DEF TypeInv
<1>1. worker \in Gens /\ Newest(worker)
  BY DEF Replay, Newest, Generations, TaskTypes
<1>. DEFINE g == worker
<1>2. /\ Held(g) \in Nat /\ LastLine(g) \in Nat /\ Held(g) <= LastLine(g) /\ LastLine(g) <= seq
      /\ GetEvents(g) = (LastLine(g) + 1 - Held(g))..LastLine(g)
      /\ OldestLine(g) = LastLine(g) + 1 - Held(g)
  BY <1>1, RingLines DEF GetEvents
<1>3. seq \in 0..MaxLines
  BY DEF TaskTypes
<1>4. GetEvents(g) \subseteq 1..MaxLines /\ OldestLine(g) \in 1..(MaxLines + 1)
  BY <1>2, <1>3
<1>5. LastLine(g) \in {seq - 1, seq}
  BY DEF LastLine
<1>. QED  BY <1>1, <1>2, <1>4, <1>5 DEF Replay

LEMMA NextClientTypes ==
  ASSUME TypeInv, Generations, RingInv, [DeliveryNext]_deliveryVars
  PROVE  ClientTypes'
<1>. USE GenType DEF TypeInv
<1>1. CASE UNCHANGED connVars
  BY <1>1 DEF connVars, ClientTypes
<1>2. ASSUME NEW p \in Goroutines, Send(p) PROVE ClientTypes'
  BY <1>2, SendInbox DEF Send, ClientTypes
<1>3. ASSUME NEW c \in Conns, Close(c)
      PROVE  /\ broken' \subseteq Conns /\ inbox' \in [Conns -> Seq(Messages)]
             /\ replayed' \in [Conns -> SUBSET (1..MaxLines)] /\ resumed' \in [Conns -> 0..(MaxLines + 1)]
  <2>1. <<>> \in Seq(Messages)
    BY EmptySeq
  <2>2. inbox' \in [Conns -> Seq(Messages)]
    BY <1>3, <2>1 DEF Close, ClientTypes
  <2>. QED  BY <1>3, <2>2 DEF Close, ClientTypes
<1>4. ASSUME NEW p \in Goroutines, Reap(p) PROVE ClientTypes'
  BY <1>3, <1>4, ReapEffect DEF RemoveClient, ClientTypes
<1>5. ASSUME NEW c \in Conns, Disconnect(c) \/ Break(c) PROVE ClientTypes'
  BY <1>3, <1>5 DEF Disconnect, Break, RemoveClient, Move, ClientTypes
<1>6. ASSUME NEW c \in Conns, Subscribe(c) \/ Unsubscribe(c) PROVE ClientTypes'
  <2>1. CASE Subscribe(c)
    BY <2>1 DEF Subscribe, Move, ClientTypes
  <2>2. CASE Unsubscribe(c)
    <3>1. replayed' \in [Conns -> SUBSET (1..MaxLines)]
      BY <2>2 DEF Unsubscribe, ClientTypes
    <3>2. resumed' \in [Conns -> 0..(MaxLines + 1)]
      BY <2>2 DEF Unsubscribe, ClientTypes
    <3>. QED  BY <2>2, <3>1, <3>2 DEF Unsubscribe, Move, ClientTypes
  <2>. QED  BY <1>6, <2>1, <2>2
<1>7. ASSUME NEW c \in Conns, Replay(c) PROVE ClientTypes'
  <2>1. replayed' \in [Conns -> SUBSET (1..MaxLines)]
    <3>1. \A d \in Conns : replayed[d] \subseteq 1..MaxLines
      BY DEF ClientTypes
    <3>2. replayed[c] \cup GetEvents(worker) \in SUBSET (1..MaxLines)
      BY <1>7, <3>1, ReplayReads
    <3>3. replayed' = [replayed EXCEPT ![c] = replayed[c] \cup GetEvents(worker)]
      BY <1>7, ReplayReads
    <3>. QED  BY <3>2, <3>3 DEF ClientTypes
  <2>2. resumed' \in [Conns -> 0..(MaxLines + 1)]
    BY <1>7, ReplayReads DEF ClientTypes
  <2>. QED  BY <1>7, <2>1, <2>2 DEF Replay, Move, ClientTypes
<1>8. ASSUME NEW t \in Tasks, OtherTaskStarts(t) PROVE ClientTypes'
  BY <1>8 DEF OtherTaskStarts, Move, ClientTypes
<1>9. CASE AutoSubscribe
  BY <1>9 DEF AutoSubscribe, ClientTypes
<1>10. Start \/ Assign \/ AnnounceStart \/ StopTask => UNCHANGED connVars
  BY DEF Start, Assign, AnnounceStart, StopTask
<1>11. ASSUME NEW g \in Gens, VirtualWorker(g) \/ DoRestart(g) \/ Restarted(g) PROVE UNCHANGED connVars
  BY <1>11 DEF VirtualWorker, Number, SendLine, Store, Finish, ReportExit, CountExit, Decide, Settled,
               DoRestart, Restarted
<1>. QED  BY <1>1, <1>2, <1>4, <1>5, <1>6, <1>7, <1>8, <1>9, <1>10, <1>11
          DEF DeliveryNext, deliveryVars, Broadcasting, StartFn, Client
-----------------------------------------------------------------------------
(* The counters.                                                           *)

Numbered == {g \in Gens : work[g] = "numbered"}
Counted == {g \in Gens : work[g] \in {"settling", "telling", "done"}}

LEMMA GenSets ==
  ASSUME NEW S \in SUBSET Gens
  PROVE  /\ IsFiniteSet(S) /\ Cardinality(S) \in Nat
         /\ \A g \in Gens \ S : Cardinality(S \cup {g}) = Cardinality(S) + 1
         /\ \A g \in S : Cardinality(S \ {g}) = Cardinality(S) - 1
<1>1. IsFiniteSet(Gens)
  BY FS_Interval, GenType
<1>2. IsFiniteSet(S)
  BY <1>1, FS_Subset
<1>. QED  BY <1>2, FS_CardinalityType, FS_AddElement, FS_RemoveElement

(* No counter changes, and nothing that is counted.                         *)
LEMMA CountSame ==
  ASSUME CountInv, \A k \in Counters \ {"started"} : total'[k] = total[k],
         seq' = seq, Numbered' = Numbered, Counted' = Counted, Relaunched' = Relaunched
  PROVE  CountInv'
<1>1. /\ total'["output"] = total["output"] /\ total'["completed"] = total["completed"]
      /\ total'["errored"] = total["errored"] /\ total'["restarted"] = total["restarted"]
  BY DEF Counters
<1>. QED  BY <1>1 DEF CountInv, Numbered, Counted

(* What a Record method adds to the global counters.                        *)
LEMMA CountStep ==
  ASSUME TableInv, NEW t \in Tasks, NEW K \in SUBSET Counters, Record(t, Action, K)
  PROVE  /\ \A k \in Counters : total'[k] = IF k \in K THEN total[k] + 1 ELSE total[k]
         /\ \A k \in Counters : total[k] \in Nat
<1>1. total' = [k \in Counters |-> IF k \in K THEN total[k] + 1 ELSE total[k]]
  BY GenType, RecordKeeps
<1>. QED  BY <1>1 DEF TableInv, MetricsTypeOK

LEMMA NextCount ==
  ASSUME TypeInv, TableInv, Control, CountInv, [DeliveryNext]_deliveryVars
  PROVE  CountInv'
<1>. USE GenType DEF TypeInv
<1>0. /\ {"started"} \in SUBSET Counters /\ {"output"} \in SUBSET Counters /\ {"restarted"} \in SUBSET Counters
      /\ {"completed"} \in SUBSET Counters /\ {"completed", "errored"} \in SUBSET Counters
      /\ Counters = {"started", "completed", "errored", "restarted", "output"}
      /\ \A k \in Counters : total[k] \in Nat
      /\ Numbered \in SUBSET Gens /\ Counted \in SUBSET Gens /\ Relaunched \in SUBSET Gens
      /\ seq \in Nat
  BY DEF Counters, TableInv, MetricsTypeOK, Numbered, Counted, Relaunched, TaskTypes
<1>c. /\ Cardinality(Numbered) \in Nat /\ Cardinality(Counted) \in Nat /\ Cardinality(Relaunched) \in Nat
      /\ \A g \in Gens \ Numbered : Cardinality(Numbered \cup {g}) = Cardinality(Numbered) + 1
      /\ \A g \in Numbered : Cardinality(Numbered \ {g}) = Cardinality(Numbered) - 1
      /\ \A g \in Gens \ Counted : Cardinality(Counted \cup {g}) = Cardinality(Counted) + 1
      /\ \A g \in Gens \ Relaunched : Cardinality(Relaunched \cup {g}) = Cardinality(Relaunched) + 1
  BY <1>0, GenSets
<1>i. /\ total["output"] + Cardinality(Numbered) = seq
      /\ total["completed"] = total["errored"] + Cardinality(Counted)
      /\ total["restarted"] = Cardinality(Relaunched)
  BY DEF CountInv, Numbered, Counted
<1>g. ASSUME /\ total'["output"] + Cardinality(Numbered') = seq'
             /\ total'["completed"] = total'["errored"] + Cardinality(Counted')
             /\ total'["restarted"] = Cardinality(Relaunched')
      PROVE  CountInv'
  BY <1>g DEF CountInv, Numbered, Counted
<1>1. CASE UNCHANGED <<taskVars, total>>
  BY <1>1, CountSame DEF taskVars, Numbered, Counted, Relaunched
<1>2. ASSUME NEW g \in Gens, Number(g) PROVE CountInv'
  <2>1. /\ work[g] = "idle" /\ work'[g] = "numbered" /\ \A h \in Gens : h # g => work'[h] = work[h]
        /\ seq' = seq + 1 /\ UNCHANGED <<total, launch>>
    BY <1>2, WorkMoves DEF Number, metricsVars
  <2>2. g \notin Numbered /\ Numbered' = Numbered \cup {g} /\ Counted' = Counted /\ Relaunched' = Relaunched
    BY <2>1 DEF Numbered, Counted, Relaunched
  <2>3. Cardinality(Numbered') = Cardinality(Numbered) + 1
    BY <1>c, <2>2
  <2>4. total["output"] \in Nat /\ seq \in Nat /\ Cardinality(Numbered) \in Nat
    BY <1>0, <1>c
  <2>5. total["output"] + Cardinality(Numbered') = seq'
    BY <1>i, <2>1, <2>3, <2>4
  <2>. QED  BY <1>i, <1>g, <2>1, <2>2, <2>5
<1>3. ASSUME NEW g \in Gens, SendLine(g) PROVE CountInv'
  <2>1. /\ work[g] = "numbered" /\ work'[g] = "sending" /\ \A h \in Gens : h # g => work'[h] = work[h]
        /\ UNCHANGED <<seq, launch>>
    BY <1>3, WorkMoves DEF SendLine
  <2>2. g \in Numbered /\ Numbered' = Numbered \ {g} /\ Counted' = Counted /\ Relaunched' = Relaunched
    BY <2>1 DEF Numbered, Counted, Relaunched
  <2>3. Record(Task, Action, {"output"})
    BY <1>3 DEF SendLine, RecordOutput
  <2>4. /\ total'["output"] = total["output"] + 1
        /\ \A k \in {"completed", "errored", "restarted"} : total'[k] = total[k]
    BY <1>0, <2>3, CountStep
  <2>5. Cardinality(Numbered') = Cardinality(Numbered) - 1
    BY <1>c, <2>2
  <2>6. total["output"] \in Nat /\ seq \in Nat /\ Cardinality(Numbered) \in Nat
    BY <1>0, <1>c
  <2>7. total'["output"] + Cardinality(Numbered') = seq'
    BY <1>i, <2>1, <2>4, <2>5, <2>6
  <2>. QED  BY <1>i, <1>g, <2>1, <2>2, <2>4, <2>7
<1>4. ASSUME NEW g \in Gens, Store(g) \/ Finish(g) \/ ReportExit(g) PROVE CountInv'
  <2>1. /\ \/ work[g] = "sending" /\ work'[g] = "idle"
           \/ work[g] = "idle" /\ work'[g] = "exiting"
           \/ work[g] = "exiting" /\ work'[g] = "reporting"
        /\ \A h \in Gens : h # g => work'[h] = work[h]
        /\ UNCHANGED <<seq, total, launch>>
    <3>1. CASE Store(g) \/ Finish(g)
      BY <3>1, WorkMoves DEF Store, Finish, metricsVars
    <3>2. CASE ReportExit(g)
      BY <3>2, WorkMoves DEF ReportExit, metricsVars
    <3>. QED  BY <1>4, <3>1, <3>2
  <2>2. Numbered' = Numbered /\ Counted' = Counted /\ Relaunched' = Relaunched
    BY <2>1 DEF Numbered, Counted, Relaunched
  <2>. QED  BY <2>1, <2>2, CountSame
<1>5. ASSUME NEW g \in Gens, CountExit(g) PROVE CountInv'
  <2>1. /\ work[g] = "reporting" /\ work'[g] = "settling" /\ \A h \in Gens : h # g => work'[h] = work[h]
        /\ UNCHANGED <<seq, launch>>
    BY <1>5, WorkMoves DEF CountExit
  <2>2. Numbered' = Numbered /\ g \notin Counted /\ Counted' = Counted \cup {g} /\ Relaunched' = Relaunched
    BY <2>1 DEF Numbered, Counted, Relaunched
  <2>3. Record(Task, Action, {"completed"})
    BY <1>5 DEF CountExit, RecordExit
  <2>4. /\ total'["completed"] = total["completed"] + 1
        /\ \A k \in {"output", "errored", "restarted"} : total'[k] = total[k]
    BY <1>0, <2>3, CountStep
  <2>5. Cardinality(Counted') = Cardinality(Counted) + 1
    BY <1>c, <2>2
  <2>6. total["completed"] \in Nat /\ total["errored"] \in Nat
    BY <1>0
  <2>7. total'["completed"] = total'["errored"] + Cardinality(Counted')
    <3>1. total["completed"] = total["errored"] + Cardinality(Counted) /\ Cardinality(Counted) \in Nat
      BY <1>c, <1>i
    <3>2. total'["completed"] = total["completed"] + 1 /\ total'["errored"] = total["errored"]
      BY <2>4
    <3>. QED  BY <2>5, <2>6, <3>1, <3>2
  <2>8. total'["output"] + Cardinality(Numbered') = seq'
    BY <1>i, <2>1, <2>2, <2>4
  <2>9. total'["restarted"] = Cardinality(Relaunched')
    BY <1>i, <2>2, <2>4
  <2>. QED  BY <1>g, <2>7, <2>8, <2>9
<1>6. ASSUME NEW g \in Gens, Decide(g) PROVE CountInv'
  <2>0. UNCHANGED <<seq, launch>> /\ work[g] = "settling"
    BY <1>6 DEF Decide, GoesTo
  <2>1. CASE GoesTo(g, "settling", "done") /\ UNCHANGED total
    <3>1. work'[g] = "done" /\ \A h \in Gens : h # g => work'[h] = work[h]
      BY <2>1 DEF GoesTo, TaskTypes
    <3>2. Numbered' = Numbered /\ Counted' = Counted /\ Relaunched' = Relaunched
      BY <2>0, <3>1 DEF Numbered, Counted, Relaunched
    <3>. QED  BY <2>0, <2>1, <3>2, CountSame
  <2>2. ASSUME GoesTo(g, "settling", "telling")
        PROVE  /\ work'[g] = "telling" /\ (\A h \in Gens : h # g => work'[h] = work[h])
               /\ Numbered' = Numbered /\ Counted' = Counted
    <3>1. work'[g] = "telling" /\ \A h \in Gens : h # g => work'[h] = work[h]
      BY <2>2 DEF GoesTo, TaskTypes
    <3>. QED  BY <2>0, <3>1 DEF Numbered, Counted
  <2>3. CASE GoesTo(g, "settling", "telling") /\ g >= ErrorThreshold /\ RecordExit(Task, Action, TRUE)
    <3>1. \A h \in Gens : h # g + 1
      BY <2>3
    <3>2. Relaunched' = Relaunched
      <4>1. \A h \in Gens : h > 1 => h - 1 \in Gens /\ h - 1 # g
        BY <3>1
      <4>. QED  BY <2>0, <2>2, <2>3, <4>1 DEF Relaunched
    <3>3. Record(Task, Action, {"completed", "errored"})
      BY <2>3 DEF RecordExit
    <3>4. /\ total'["completed"] = total["completed"] + 1 /\ total'["errored"] = total["errored"] + 1
          /\ \A k \in {"output", "restarted"} : total'[k] = total[k]
      BY <1>0, <3>3, CountStep
    <3>. QED  BY <1>0, <1>c, <1>i, <1>g, <2>0, <2>2, <2>3, <3>2, <3>4
  <2>4. CASE GoesTo(g, "settling", "telling") /\ ~(g >= ErrorThreshold) /\ RecordRestart(Task, Action)
    <3>1. g + 1 \in Gens /\ g + 1 > 1 /\ (g + 1) - 1 = g /\ \A h \in Gens : h > 1 /\ h # g + 1 => h - 1 \in Gens /\ h - 1 # g
      BY <2>4
    <3>2. launch[g + 1] = "off"
      BY <2>0, <3>1, OneAtWork DEF Control
    <3>3. g + 1 \notin Relaunched
      BY <2>0, <3>1, <3>2 DEF Relaunched
    <3>4. Relaunched' = Relaunched \cup {g + 1}
      BY <2>0, <2>2, <2>4, <3>1 DEF Relaunched
    <3>5. Record(Task, Action, {"restarted"})
      BY <2>4 DEF RecordRestart
    <3>6. /\ total'["restarted"] = total["restarted"] + 1
          /\ \A k \in {"output", "completed", "errored"} : total'[k] = total[k]
      BY <1>0, <3>5, CountStep
    <3>. QED  BY <1>0, <1>c, <1>i, <1>g, <2>0, <2>2, <2>4, <3>1, <3>3, <3>4, <3>6
  <2>. QED  BY <1>6, <2>1, <2>3, <2>4 DEF Decide, metricsVars
<1>7. ASSUME NEW g \in Gens, Settled(g) PROVE CountInv'
  <2>1. /\ work[g] = "telling" /\ work'[g] = "done" /\ \A h \in Gens : h # g => work'[h] = work[h]
        /\ UNCHANGED <<seq, total>>
        /\ \A h \in Gens : h # g + 1 => launch'[h] = launch[h]
        /\ g + 1 \in Gens => launch'[g + 1] = "due"
    BY <1>7 DEF Settled, GoesTo, TaskTypes, metricsVars
  <2>2. Numbered' = Numbered /\ Counted' = Counted
    BY <2>1 DEF Numbered, Counted
  <2>3. Relaunched' = Relaunched
    <3>1. \A h \in Gens : h > 1 => h - 1 \in Gens /\ (h = g + 1 <=> h - 1 = g)
      OBVIOUS
    <3>2. ASSUME NEW h \in Gens, h > 1
          PROVE  (launch[h] # "off" \/ work[h - 1] = "telling") <=> (launch'[h] # "off" \/ work'[h - 1] = "telling")
      BY <2>1, <3>1, <3>2
    <3>. QED  BY <3>2 DEF Relaunched
  <2>. QED  BY <2>1, <2>2, <2>3, CountSame
<1>8. ASSUME NEW g \in Gens, DoRestart(g) PROVE CountInv'
  <2>1. /\ launch[g] = "due" /\ launch'[g] \in {"done", "telling"} /\ \A h \in Gens : h # g => launch'[h] = launch[h]
        /\ work' = work \/ (work'[g] = "idle" /\ \A h \in Gens : h # g => work'[h] = work[h])
        /\ UNCHANGED <<seq, total>>
    BY <1>8 DEF DoRestart, TaskTypes, metricsVars
  <2>2. work[g] = "off"
    BY <2>1 DEF Control, Generations
  <2>3. Numbered' = Numbered /\ Counted' = Counted /\ Relaunched' = Relaunched
    BY <2>1, <2>2 DEF Numbered, Counted, Relaunched
  <2>. QED  BY <2>1, <2>3, CountSame
<1>9. ASSUME NEW g \in Gens, Restarted(g) PROVE CountInv'
  <2>1. /\ launch[g] = "telling" /\ launch'[g] = "done" /\ \A h \in Gens : h # g => launch'[h] = launch[h]
        /\ UNCHANGED <<seq, total, work>>
    BY <1>9 DEF Restarted, TaskTypes, metricsVars
  <2>2. Numbered' = Numbered /\ Counted' = Counted /\ Relaunched' = Relaunched
    BY <2>1 DEF Numbered, Counted, Relaunched
  <2>. QED  BY <2>1, <2>2, CountSame
<1>10. CASE StartFn
  <2>1. /\ \A h \in Gens : h # 1 => launch'[h] = launch[h]
        /\ work' = work \/ (launch[1] = "due" /\ work'[1] = "idle" /\ \A h \in Gens : h # 1 => work'[h] = work[h])
        /\ seq' = seq
    <3>1. CASE Start
      BY <3>1 DEF Start, Launching, TaskTypes
    <3>. QED  BY <1>10, <3>1 DEF StartFn, Assign, AutoSubscribe, AnnounceStart, Launching, TaskTypes
  <2>2. launch[1] = "due" => work[1] = "off"
    BY DEF Control, Generations
  <2>3. Numbered' = Numbered /\ Counted' = Counted /\ Relaunched' = Relaunched
    BY <2>1, <2>2 DEF Numbered, Counted, Relaunched
  <2>4. Record(Task, Action, {"started"}) \/ total' = total
    BY <1>10 DEF StartFn, Start, Assign, AutoSubscribe, AnnounceStart, RecordStart, metricsVars
  <2>5. \A k \in Counters \ {"started"} : total'[k] = total[k]
    BY <1>0, <2>4, CountStep
  <2>. QED  BY <2>1, <2>3, <2>5, CountSame
<1>11. CASE StopTask
  <2>1. UNCHANGED <<work, launch, seq, total>>
    BY <1>11 DEF StopTask, metricsVars
  <2>. QED  BY <2>1, CountSame DEF Numbered, Counted, Relaunched
<1>12. ASSUME NEW t \in Tasks, OtherTaskStarts(t) PROVE CountInv'
  <2>1. UNCHANGED <<work, launch, seq>> /\ Record(t, Action, {"started"})
    BY <1>12 DEF OtherTaskStarts, taskVars, RecordStart
  <2>2. \A k \in Counters \ {"started"} : total'[k] = total[k]
    BY <1>0, <2>1, CountStep
  <2>. QED  BY <2>1, <2>2, CountSame DEF Numbered, Counted, Relaunched
<1>13. ASSUME NEW p \in Goroutines, Broadcasting(p) PROVE UNCHANGED total
  BY <1>13 DEF Broadcasting, Send, Reap, metricsVars
<1>14. ASSUME NEW c \in Conns, Client(c) PROVE UNCHANGED total
  BY <1>14, QuietSteps DEF metricsVars
<1>15. UNCHANGED deliveryVars => UNCHANGED <<taskVars, total>>
  BY DEF deliveryVars, metricsVars
<1>. QED  BY <1>1, <1>2, <1>3, <1>4, <1>5, <1>6, <1>7, <1>8, <1>9, <1>10, <1>11, <1>12, <1>13, <1>14, <1>15,
             QuietSteps DEF DeliveryNext, VirtualWorker
-----------------------------------------------------------------------------
(* What a client that has replayed has missed.                             *)

Pending(c) == \E g \in Gens : \/ work[g] = "numbered"
                              \/ work[g] = "sending" /\ c \in cast[<<"work", g>>].left

LEMMA OnItsWayIs ==
  ASSUME NEW c \in Conns
  PROVE  \A n : n \in OnItsWay(c) <=> n \in 1..seq /\ n = seq /\ Pending(c)
BY DEF OnItsWay, Pending

(* What is lost can only become less.                                       *)
LEMMA LostShrinks ==
  ASSUME TypeInv, TaskTypes', LostInv, NEW c \in Conns, resumed[c] # 0, resumed'[c] = resumed[c],
         replayed[c] \subseteq replayed'[c], Lines(inbox[c]) \subseteq Lines(inbox'[c]),
         \/ seq' = seq /\ (Pending(c) => Pending(c)' \/ seq \in Lines(inbox'[c]))
         \/ seq' = seq + 1 /\ ~Pending(c) /\ Pending(c)'
  PROVE  \A m, n \in Lost(c)' : m = n
<1>1. seq \in Nat /\ seq' \in Nat /\ resumed[c] \in Nat /\ resumed[c] >= 1
  BY GenType DEF TypeInv, TaskTypes, ClientTypes
<1>2. ASSUME NEW n \in Lost(c)' PROVE n \in Lost(c)
  <2>1. n \in resumed[c]..seq' /\ n \notin replayed'[c] /\ n \notin Lines(inbox'[c]) /\ n \notin OnItsWay(c)'
    BY DEF Lost, Received
  <2>2. n \notin replayed[c] /\ n \notin Lines(inbox[c])
    BY <2>1
  <2>3. n \in Nat /\ n >= 1 /\ n <= seq' /\ resumed[c] <= n
    BY <1>1, <2>1
  <2>4. ~(n = seq' /\ Pending(c)')
    <3>1. n \in OnItsWay(c)' <=> n \in 1..seq' /\ n = seq' /\ Pending(c)'
      BY DEF OnItsWay, Pending
    <3>. QED  BY <1>1, <2>1, <2>3, <3>1
  <2>5. n <= seq
    BY <1>1, <2>3, <2>4
  <2>6. n \notin OnItsWay(c)
    BY <2>1, <2>4, OnItsWayIs
  <2>. QED  BY <1>1, <2>2, <2>3, <2>5, <2>6 DEF Lost, Received
<1>. QED  BY <1>2 DEF LostInv

LEMMA NextLost ==
  ASSUME TypeInv, TypeInv', Control, InFlight, RingInv, LostInv, [DeliveryNext]_deliveryVars
  PROVE  LostInv'
<1>. USE GenType DEF TypeInv, Control
<1>. SUFFICES ASSUME NEW c \in Conns, resumed'[c] # 0
              PROVE  c \in subs' \ broken' /\ \A m, n \in Lost(c)' : m = n
  BY DEF LostInv
<1>. DEFINE Goal == c \in subs' \ broken' /\ \A m, n \in Lost(c)' : m = n
            Same == inbox'[c] = inbox[c] /\ replayed'[c] = replayed[c] /\ resumed'[c] = resumed[c]
            Linked == (c \in subs => c \in subs') /\ (c \in broken' => c \in broken)
<1>1. ASSUME Same, Linked, seq' = seq, Pending(c) => Pending(c)'
      PROVE  Goal
  <2>1. resumed[c] # 0 /\ c \in subs \ broken
    BY <1>1 DEF LostInv
  <2>. QED  BY <1>1, <2>1, LostShrinks
<1>2. ASSUME NEW p \in Goroutines, Send(p) PROVE Goal
  <2>1. /\ UNCHANGED <<taskVars, subs, broken, replayed, resumed>>
        /\ \A q \in Goroutines : q # p => cast'[q] = cast[q]
        /\ cast[p].left # {}
    BY <1>2, SendEffect
  <2>2. resumed[c] # 0 /\ c \in subs \ broken
    BY <2>1 DEF LostInv
  <2>3. Lines(inbox[c]) \subseteq Lines(inbox'[c])
    BY <1>2, SendInbox DEF Lines
  <2>4. Pending(c) => Pending(c)' \/ seq \in Lines(inbox'[c])
    <3>. SUFFICES ASSUME NEW g \in Gens, work[g] = "numbered" \/ (work[g] = "sending" /\ c \in cast[<<"work", g>>].left),
                         ~Pending(c)'
                  PROVE  seq \in Lines(inbox'[c])
      BY DEF Pending
    <3>1. work'[g] = work[g] /\ work[g] = "sending" /\ c \in cast[<<"work", g>>].left
          /\ c \notin cast'[<<"work", g>>].left /\ p = <<"work", g>>
      BY <2>1 DEF Pending, taskVars
    <3>2. cast[p].msg = Message("output", g, seq) /\ seq \in 0..MaxLines /\ "output" \in Kinds
      BY <3>1 DEF InFlight, TaskTypes, Kinds
    <3>3. cast[p].msg \in Messages /\ cast[p].msg.kind = "output" /\ cast[p].msg.seq = seq
      BY <3>2, MessageType
    <3>4. Message("started", 1, 0).kind = "started"
      BY DEF Message
    <3>5. Noted(cast[p].msg)
      BY <3>3, <3>4 DEF Noted
    <3>6. PICK m \in Messages : m = cast[p].msg
      BY <3>3
    <3>7. Has(c, m)'
      BY <1>2, <2>2, <3>1, <3>5, <3>6, SendInbox
    <3>8. PICK i \in DOMAIN inbox'[c] : inbox'[c][i] = m
      BY <3>7 DEF Has
    <3>. QED  BY <3>3, <3>6, <3>8 DEF Lines
  <2>. QED  BY <2>1, <2>2, <2>3, <2>4, LostShrinks DEF taskVars
<1>3. ASSUME NEW d \in Conns, Close(d)
      PROVE  c # d /\ Same /\ (c \in broken' => c \in broken)
  BY <1>3 DEF Close, ClientTypes
<1>4. ASSUME NEW p \in Goroutines, Reap(p) PROVE Goal
  <2>1. PICK d \in Conns : /\ RemoveClient(d) /\ UNCHANGED <<taskVars, metricsVars, moves>>
                           /\ \A q \in Goroutines : q # p => cast'[q] = cast[q]
                           /\ cast'[p].left = cast[p].left
    BY <1>4, ReapEffect
  <2>2. Same /\ Linked
    BY <1>3, <2>1 DEF RemoveClient
  <2>3. Pending(c) => Pending(c)'
    BY <2>1 DEF Pending, taskVars
  <2>. QED  BY <1>1, <2>1, <2>2, <2>3 DEF taskVars
<1>5. ASSUME NEW d \in Conns, Disconnect(d) \/ Break(d) \/ Subscribe(d) \/ Unsubscribe(d) PROVE Goal
  <2>1. UNCHANGED <<taskVars, cast>>
    BY <1>5 DEF Disconnect, Break, Subscribe, Unsubscribe
  <2>2. Same /\ Linked
    <3>1. CASE Disconnect(d) \/ Break(d)
      BY <1>3, <3>1 DEF Disconnect, Break, RemoveClient
    <3>2. CASE Subscribe(d)
      BY <3>2 DEF Subscribe
    <3>3. CASE Unsubscribe(d)
      BY <3>3 DEF Unsubscribe, ClientTypes
    <3>. QED  BY <1>5, <3>1, <3>2, <3>3
  <2>3. Pending(c) => Pending(c)'
    BY <2>1 DEF Pending, taskVars
  <2>. QED  BY <1>1, <2>1, <2>2, <2>3 DEF taskVars
<1>6. ASSUME NEW d \in Conns, Replay(d) PROVE Goal
  <2>1. UNCHANGED <<taskVars, cast, subs, broken, inbox>> /\ d \in subs \ broken
    BY <1>6 DEF Replay
  <2>2. Pending(c) => Pending(c)'
    BY <2>1 DEF Pending, taskVars
  <2>3. CASE c # d
    <3>1. Same /\ Linked
      BY <1>6, <2>1, <2>3 DEF Replay, ClientTypes
    <3>. QED  BY <1>1, <2>1, <2>2, <3>1 DEF taskVars
  <2>4. CASE c = d /\ resumed[c] # 0
    <3>1. resumed'[c] = resumed[c] /\ replayed[c] \subseteq replayed'[c]
      BY <1>6, <2>4 DEF Replay, ClientTypes
    <3>. QED  BY <2>1, <2>2, <2>4, <3>1, LostShrinks DEF taskVars
  <2>5. CASE c = d /\ resumed[c] = 0
    <3>9. /\ replayed' = [replayed EXCEPT ![c] = @ \cup GetEvents(worker)]
          /\ resumed' = [resumed EXCEPT ![c] = IF @ = 0 THEN OldestLine(worker) ELSE @]
          /\ GetEvents(worker) = OldestLine(worker)..LastLine(worker)
      BY <1>6, <2>5, ReplayReads
    <3>8. c \in DOMAIN resumed /\ c \in DOMAIN replayed
      BY DEF ClientTypes
    <3>0. /\ resumed'[c] = OldestLine(worker)
          /\ replayed'[c] = replayed[c] \cup (OldestLine(worker)..LastLine(worker))
      BY <2>5, <3>8, <3>9
    <3>1. /\ resumed'[c] = OldestLine(worker)
          /\ replayed'[c] = replayed[c] \cup (OldestLine(worker)..LastLine(worker))
          /\ OldestLine(worker) \in Nat /\ LastLine(worker) \in {seq - 1, seq} /\ LastLine(worker) \in Nat
      BY <1>6, <3>0, ReplayReads
    <3>2. seq' = seq /\ seq \in Nat
      BY <2>1 DEF taskVars, TaskTypes
    <3>3. \A n \in Lost(c)' : n = seq
      <4>. SUFFICES ASSUME NEW n \in Lost(c)' PROVE n = seq
        OBVIOUS
      <4>1. n \in resumed'[c]..seq' /\ n \notin replayed'[c]
        BY DEF Lost, Received
      <4>. QED  BY <3>1, <3>2, <4>1
    <3>. QED  BY <2>1, <2>5, <3>3
  <2>. QED  BY <2>3, <2>4, <2>5
<1>7. ASSUME NEW g \in Gens, Number(g) PROVE Goal
  <2>1. /\ work[g] = "idle" /\ work'[g] = "numbered" /\ seq' = seq + 1 /\ UNCHANGED <<cast, connVars>>
    BY <1>7 DEF Number, GoesTo, TaskTypes
  <2>2. ~Pending(c) /\ Pending(c)'
    BY <2>1, OneAtWork DEF Pending
  <2>3. resumed[c] # 0 /\ c \in subs \ broken
    BY <2>1 DEF LostInv, connVars
  <2>. QED  BY <2>1, <2>2, <2>3, LostShrinks DEF connVars
<1>8. ASSUME NEW g \in Gens, SendLine(g) PROVE Goal
  <2>1. work'[g] = "sending" /\ seq' = seq /\ UNCHANGED connVars /\ cast'[<<"work", g>>].left = subs
    BY <1>8 DEF SendLine, GoesTo, TaskTypes, Announce, CastTypes
  <2>2. c \in subs
    BY <2>1 DEF LostInv, connVars
  <2>3. Pending(c)'
    BY <2>1, <2>2 DEF Pending
  <2>. QED  BY <1>1, <2>1, <2>3 DEF connVars
<1>9. ASSUME NEW g \in Gens, Store(g) \/ Finish(g) \/ ReportExit(g) \/ CountExit(g) \/ Decide(g) \/ Settled(g)
      PROVE  Goal
  <2>1. seq' = seq /\ UNCHANGED connVars
    BY <1>9 DEF Store, Finish, ReportExit, CountExit, Decide, Settled
  <2>2. work[g] \in {"idle", "exiting", "reporting", "settling", "telling"} \/ (work[g] = "sending" /\ Told(<<"work", g>>))
    BY <1>9 DEF Store, Finish, ReportExit, CountExit, Decide, Settled, GoesTo
  <2>3. \A h \in Gens : h # g => work[h] \in {"off", "done"}
    BY <2>2, OneAtWork
  <2>4. ~Pending(c)
    BY <2>2, <2>3 DEF Pending, Told
  <2>. QED  BY <1>1, <2>1, <2>4 DEF connVars
<1>10. ASSUME NEW g \in Gens, DoRestart(g) PROVE Goal
  <2>1. seq' = seq /\ UNCHANGED connVars /\ launch[g] = "due"
    BY <1>10 DEF DoRestart
  <2>2. \A h \in Gens : work[h] \in {"off", "done"}
    <3>1. work[g] = "off" /\ \A h \in Gens : h < g => work[h] = "done"
      BY <2>1 DEF Generations
    <3>2. \A h \in Gens : h > g => work[h] = "off"
      BY <3>1 DEF Generations
    <3>. QED  BY <3>1, <3>2
  <2>3. ~Pending(c)
    BY <2>2 DEF Pending
  <2>. QED  BY <1>1, <2>1, <2>3 DEF connVars
<1>11. ASSUME NEW g \in Gens, Restarted(g) PROVE Goal
  <2>1. UNCHANGED <<connVars, cast, seq, work>>
    BY <1>11 DEF Restarted
  <2>2. Pending(c) => Pending(c)'
    BY <2>1 DEF Pending
  <2>. QED  BY <1>1, <2>1, <2>2 DEF connVars
<1>12. CASE Start
  <2>1. seq' = seq /\ UNCHANGED connVars /\ launch[1] = "due"
    BY <1>12 DEF Start, Launching
  <2>2. \A h \in Gens : work[h] = "off"
    <3>1. work[1] = "off"
      BY <2>1 DEF Generations
    <3>. QED  BY <3>1 DEF Generations
  <2>3. ~Pending(c)
    BY <2>2 DEF Pending
  <2>. QED  BY <1>1, <2>1, <2>3 DEF connVars
<1>13. CASE Assign \/ AutoSubscribe \/ StopTask
  <2>1. UNCHANGED <<work, cast, seq, inbox, replayed, resumed, broken>> /\ subs \subseteq subs'
    BY <1>13 DEF Assign, AutoSubscribe, StopTask, connVars
  <2>2. Pending(c) => Pending(c)'
    BY <2>1 DEF Pending
  <2>. QED  BY <1>1, <2>1, <2>2
<1>14. CASE AnnounceStart
  <2>1. UNCHANGED <<work, seq, connVars>> /\ \A h \in Gens : cast'[<<"work", h>>] = cast[<<"work", h>>]
    BY <1>14 DEF AnnounceStart, Announce, CastTypes
  <2>2. Pending(c) => Pending(c)'
    BY <2>1 DEF Pending
  <2>. QED  BY <1>1, <2>1, <2>2 DEF connVars
<1>15. ASSUME UNCHANGED <<taskVars, cast, subs, broken, inbox, replayed, resumed>> PROVE Goal
  <2>1. Pending(c) => Pending(c)'
    BY <1>15 DEF Pending, taskVars
  <2>. QED  BY <1>1, <1>15, <2>1 DEF taskVars
<1>16. ASSUME NEW t \in Tasks, OtherTaskStarts(t) PROVE Goal
  BY <1>15, <1>16, QuietSteps
<1>17. CASE UNCHANGED deliveryVars
  BY <1>15, <1>17 DEF deliveryVars, connVars
<1>. QED  BY <1>2, <1>4, <1>5, <1>6, <1>7, <1>8, <1>9, <1>10, <1>11, <1>12, <1>13, <1>14, <1>16, <1>17
          DEF DeliveryNext, Broadcasting, VirtualWorker, StartFn, Client
-----------------------------------------------------------------------------
(* The invariant.                                                          *)

LEMMA InitTable ==
  ASSUME MetricsInit
  PROVE  TableInv
<1>1. /\ taskOrder = <<>> /\ taskOrder \in Seq(Tasks) /\ Len(taskOrder) = 0
      /\ DOMAIN taskOrder = {} /\ ToSet(taskOrder) = {}
  BY EmptySeq DEF MetricsInit, ToSet
<1>2. DOMAIN byTask = {} /\ byTask \in [{} -> [TaskCounters -> Nat]]
  BY DEF MetricsInit
<1>3. total \in [Counters -> Nat] /\ byAction \in [Actions -> [Counters -> Nat]]
  BY DEF MetricsInit
<1>4. 0 <= MaxTaskEntries /\ \A i, j \in 1..0 : i = j
  BY MetricsAssumption
<1>. QED  BY <1>1, <1>2, <1>3, <1>4 DEF TableInv, MetricsTypeOK

LEMMA InitInv == DeliveryInit => DeliveryInv
<1>. SUFFICES ASSUME DeliveryInit PROVE DeliveryInv
  OBVIOUS
<1>. USE GenType
<1>0. <<>> \in Seq(Messages) /\ Len(<<>>) = 0 /\ DOMAIN <<>> = 1..0 /\ 1..0 = {}
  BY EmptySeq
<1>1. TaskTypes
  <2>1. rings \in [Gens -> Seq(Messages)] /\ \A g \in Gens : Len(rings[g]) <= RingSize
    BY <1>0 DEF DeliveryInit
  <2>2. seq \in 0..MaxLines /\ worker \in 0..ErrorThreshold
    BY DEF DeliveryInit
  <2>. QED  BY <2>1, <2>2 DEF DeliveryInit, TaskTypes
<1>2. CastTypes
  <2>1. Message("none", 0, 0) \in Messages
    BY MessageType
  <2>2. Quiet \in [msg : Messages, to : SUBSET Conns, left : SUBSET Conns, dead : SUBSET Conns]
    BY <2>1 DEF Quiet
  <2>. QED  BY <2>2 DEF DeliveryInit, CastTypes
<1>3. ClientTypes
  <2>1. 0 \in 0..MaxMoves /\ 0 \in 0..(MaxLines + 1)
    OBVIOUS
  <2>. QED  BY <1>0, <2>1 DEF DeliveryInit, ClientTypes
<1>4. TableInv
  BY InitTable DEF DeliveryInit
<1>5. NoGhost
  BY DEF DeliveryInit, NoGhost
<1>6. Generations
  BY DEF DeliveryInit, Generations
<1>7. MuHeld
  <2>1. \A g \in Gens : muHolder # <<"launch", g>> /\ muHolder # <<"work", g>>
    BY DEF DeliveryInit
  <2>. QED  BY <2>1 DEF DeliveryInit, MuHeld
<1>8. /\ \A p \in Goroutines : cast[p].left = {} /\ cast[p].to = {} /\ cast[p].dead = {}
      /\ \A c \in Conns : inbox[c] = <<>> /\ resumed[c] = 0
      /\ \A g \in Gens : work[g] = "off" /\ rings[g] = <<>> /\ launch[g] # "telling"
      /\ seq = 0
  BY DEF DeliveryInit, Quiet
<1>9. InFlight
  BY <1>8 DEF InFlight, Told
<1>10. OnlyNews /\ LineUp /\ InOrder /\ PassInv
  BY <1>0, <1>8 DEF OnlyNews, LineUp, InOrder, PassInv, Has
<1>11. CountInv
  <2>1. Numbered = {} /\ Counted = {}
    BY <1>8 DEF Numbered, Counted
  <2>2. Relaunched = {}
    BY DEF DeliveryInit, Relaunched
  <2>3. \A k \in Counters : total[k] = 0
    BY DEF DeliveryInit, MetricsInit
  <2>4. total["output"] = 0 /\ total["completed"] = 0 /\ total["errored"] = 0 /\ total["restarted"] = 0
    BY <2>3 DEF Counters
  <2>5. Cardinality({}) = 0
    BY FS_EmptySet
  <2>6. total["output"] + Cardinality(Numbered) = seq
    BY <1>8, <2>1, <2>4, <2>5
  <2>7. total["completed"] = total["errored"] + Cardinality(Counted)
    BY <2>1, <2>4, <2>5
  <2>8. total["restarted"] = Cardinality(Relaunched)
    BY <2>2, <2>4, <2>5
  <2>. QED  BY <2>6, <2>7, <2>8 DEF CountInv, Numbered, Counted
<1>12. RingInv
  BY <1>0, <1>8 DEF RingInv, Newest
<1>13. LostInv
  BY <1>8 DEF LostInv
<1>. QED  BY <1>1, <1>2, <1>3, <1>4, <1>5, <1>6, <1>7, <1>9, <1>10, <1>11, <1>12, <1>13
          DEF DeliveryInv, TypeInv, Control

LEMMA NextInv == DeliveryInv /\ [DeliveryNext]_deliveryVars => DeliveryInv'
<1>. SUFFICES ASSUME DeliveryInv, [DeliveryNext]_deliveryVars PROVE DeliveryInv'
  OBVIOUS
<1>1. /\ TypeInv /\ TableInv /\ NoGhost /\ Control /\ Generations /\ InFlight /\ OnlyNews /\ LineUp
      /\ InOrder /\ PassInv /\ CountInv /\ RingInv /\ LostInv
  BY DEF DeliveryInv, Control
<1>2. TaskTypes' /\ CastTypes' /\ ClientTypes'
  BY <1>1, NextTaskTypes, NextCastTypes, NextClientTypes
<1>3. TypeInv'
  BY <1>2 DEF TypeInv
<1>4. TableInv' /\ NoGhost'
  BY <1>1, NextTable, NextNoGhost
<1>5. Control'
  BY <1>1, NextGenerations, NextMuHeld DEF Control
<1>6. InFlight' /\ OnlyNews'
  BY <1>1, NextInFlight, NextOnlyNews
<1>7. LineUp' /\ InOrder' /\ PassInv'
  BY <1>1, <1>2, NextLineUp, NextInOrder, NextPass
<1>8. CountInv' /\ RingInv' /\ LostInv'
  BY <1>1, <1>2, <1>3, NextCount, NextRing, NextLost
<1>. QED  BY <1>3, <1>4, <1>5, <1>6, <1>7, <1>8 DEF DeliveryInv

LEMMA DeliveryInvariant == DeliverySpec => []DeliveryInv
BY InitInv, NextInv, PTL DEF DeliverySpec

LEMMA InvCounts ==
  ASSUME DeliveryInv
  PROVE  CountersAgree
<1>1. {g \in Gens : g > 1 /\ work[g] # "off"} \subseteq Relaunched
  BY DEF DeliveryInv, Control, Generations, Relaunched
<1>2. IsFiniteSet(Relaunched)
  <2>1. Relaunched \in SUBSET Gens
    BY DEF Relaunched
  <2>. QED  BY <2>1, GenSets
<1>3. Cardinality({g \in Gens : g > 1 /\ work[g] # "off"}) <= Cardinality(Relaunched)
  BY <1>1, <1>2, FS_Subset
<1>4. /\ Cardinality({g \in Gens : g > 1 /\ work[g] # "off"}) \in Nat
      /\ Cardinality(Relaunched) \in Nat
  <2>1. {g \in Gens : g > 1 /\ work[g] # "off"} \in SUBSET Gens /\ Relaunched \in SUBSET Gens
    BY DEF Relaunched
  <2>. QED  BY <2>1, GenSets
<1>. QED  BY <1>3, <1>4 DEF DeliveryInv, CountInv, CountersAgree

LEMMA InvLost ==
  ASSUME DeliveryInv
  PROVE  AtMostOneLost
<1>. SUFFICES ASSUME NEW c \in subs \ broken, resumed[c] # 0 PROVE Cardinality(Lost(c)) <= 1
  BY DEF AtMostOneLost, Lost
<1>1. c \in Conns /\ \A m, n \in Lost(c) : m = n
  BY DEF DeliveryInv, TypeInv, ClientTypes, LostInv
<1>2. CASE Lost(c) = {}
  BY <1>2, FS_EmptySet
<1>3. CASE Lost(c) # {}
  <2>1. PICK n \in Lost(c) : TRUE
    BY <1>3
  <2>2. Lost(c) = {n}
    BY <1>1, <2>1
  <2>3. Cardinality({n}) = 1
    BY FS_Singleton
  <2>. QED  BY <2>2, <2>3
<1>. QED  BY <1>2, <1>3

LEMMA InvPass ==
  ASSUME DeliveryInv
  PROVE  PassReachesAll
BY DEF DeliveryInv, PassInv, PassReachesAll, Told, Has
-----------------------------------------------------------------------------
(* The theorems.                                                           *)

(* Every variable keeps its type: the ring of a worker never holds more than *)
(* ringBufferSize events, and no line has a number beyond the last.         *)
THEOREM DeliveryTypeCorrect == DeliverySpec => []DeliveryTypeOK
<1>1. DeliveryInv => DeliveryTypeOK
  BY DEF DeliveryInv, TypeInv, TaskTypes, CastTypes, ClientTypes, TableInv, DeliveryTypeOK
<1>. QED  BY <1>1, DeliveryInvariant, PTL

(* A connection that RemoveClient has taken out is never among the           *)
(* subscribers again, although startFn subscribes the one that asked late.  *)
THEOREM NobodyReturns == DeliverySpec => []NoGhost
<1>1. DeliveryInv => NoGhost
  BY DEF DeliveryInv
<1>. QED  BY <1>1, DeliveryInvariant, PTL

(* What a subscriber gets of a task is in order and without repetition,      *)
(* whichever goroutines send it and however their broadcasts overlap.       *)
THEOREM DeliveryInOrder == DeliverySpec => []InOrder
<1>1. DeliveryInv => InOrder
  BY DEF DeliveryInv
<1>. QED  BY <1>1, DeliveryInvariant, PTL

(* A broadcast that is over has reached all its targets whose connection     *)
(* has held.                                                               *)
THEOREM PassesReachAll == DeliverySpec => []PassReachesAll
<1>1. DeliveryInv => PassReachesAll
  BY InvPass
<1>. QED  BY <1>1, DeliveryInvariant, PTL

(* A client that replays after it subscribes misses one line at most.       *)
THEOREM OneLineLostAtMost == DeliverySpec => []AtMostOneLost
<1>1. DeliveryInv => AtMostOneLost
  BY InvLost
<1>. QED  BY <1>1, DeliveryInvariant, PTL

(* The global counters agree with what the task has done.                   *)
THEOREM CountersAgreeAlways == DeliverySpec => []CountersAgree
<1>1. DeliveryInv => CountersAgree
  BY InvCounts
<1>. QED  BY <1>1, DeliveryInvariant, PTL

(* The table of tasks stays within its cap, and its order lists each entry   *)
(* once.                                                                   *)
THEOREM TableStaysSound == DeliverySpec => []TableSound
<1>1. DeliveryInv => TableSound
  BY TableInvSound DEF DeliveryInv
<1>. QED  BY <1>1, DeliveryInvariant, PTL
=============================================================================
