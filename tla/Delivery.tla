------------------------------ MODULE Delivery ------------------------------
(***************************************************************************)
(* What the clients see of one task: the broadcasts of hub.go to the       *)
(* subscribers of the task, made by the goroutines of its workers (virtual *)
(* ones: one goroutine each), by startFn and by doRestart, while clients   *)
(* come and go, subscribe, unsubscribe and replay.                         *)
(*                                                                         *)
(* The workers of the task are numbered by generation: the first is        *)
(* launched by startFn, the next by the doRestart after an exit.           *)
(***************************************************************************)
EXTENDS Metrics

CONSTANTS
  Conns,           \* connections
  Starter,         \* the one that sent the start request
  Task, Action,    \* the task and its action; other tasks only start
  ErrorThreshold,  \* RetryPolicy.ErrorThreshold (ErrorWindow is 0: all-time)
  RingSize,        \* ringBufferSize
  MaxLines,        \* bound: lines the workers write between them
  MaxMoves,        \* bound: what clients do
  Free             \* task.mu has no holder

Gens == 1..ErrorThreshold
Goroutines == {"work", "launch"} \X Gens

ASSUME DeliveryAssumption ==
  /\ Starter \in Conns /\ Task \in Tasks /\ Action \in Actions
  /\ ErrorThreshold \in Nat \ {0} /\ RingSize \in Nat \ {0} /\ MaxLines \in Nat /\ MaxMoves \in Nat
  /\ Free \notin Goroutines

VARIABLES
  clients,     \* h.clients, also the keys of h.subscriptions
  subs,        \* connections subscribed to the task
  broken,      \* connections that are closed, here or at the other end
  seq,         \* task.outputSeq
  stopped,     \* record.State is stopped
  worker,      \* generation of task.worker, 0 for nil
  rings,       \* events of the workers
  muHolder,    \* who holds task.mu over a broadcast
  work,        \* where the goroutine of a worker is
  launch,      \* where the goroutine that launches a generation is
  cast,        \* broadcast a goroutine is making
  moves,       \* number of things clients have done (for the bound)
  inbox,       \* what a connection that still reads was sent by broadcasts
  replayed,    \* lines it was sent by replay
  resumed      \* oldest line that its first replay since it subscribed was to cover

taskVars == <<seq, stopped, worker, rings, muHolder, work, launch>>
connVars == <<clients, subs, broken, moves, inbox, replayed, resumed>>
deliveryVars == <<taskVars, connVars, cast, metricsVars>>

Message(kind, g, n) == [kind |-> kind, gen |-> g, seq |-> n]
Kinds == {"started", "output", "exited", "restarting", "errored"}
Messages == {Message(k, g, n) : k \in Kinds \cup {"none"}, g \in Gens \cup {0}, n \in 0..MaxLines}
Quiet == [msg |-> Message("none", 0, 0), to |-> {}, left |-> {}, dead |-> {}]

DeliveryTypeOK ==
  /\ MetricsTypeOK
  /\ clients \subseteq Conns /\ subs \subseteq Conns /\ broken \subseteq Conns
  /\ seq \in 0..MaxLines /\ stopped \in BOOLEAN /\ worker \in 0..ErrorThreshold
  /\ \A g \in Gens : rings[g] \in Seq(Messages) /\ Len(rings[g]) <= RingSize
  /\ muHolder \in Goroutines \cup {Free}
  /\ work \in [Gens -> {"off", "idle", "numbered", "sending", "exiting", "reporting",
                        "settling", "telling", "done"}]
  /\ launch \in [Gens -> {"off", "due", "assign", "subscribe", "record", "telling", "done"}]
  /\ cast \in [Goroutines -> [msg : Messages, to : SUBSET Conns,
                           left : SUBSET Conns, dead : SUBSET Conns]]
  /\ moves \in 0..MaxMoves
  /\ \A c \in Conns : inbox[c] \in Seq(Messages)
  /\ replayed \in [Conns -> SUBSET (1..MaxLines)]
  /\ resumed \in [Conns -> 0..(MaxLines + 1)]

DeliveryInit ==
  /\ MetricsInit
  /\ clients = Conns /\ subs = {} /\ broken = {}
  /\ seq = 0 /\ stopped = FALSE /\ worker = 0
  /\ rings = [g \in Gens |-> <<>>]
  /\ muHolder = Free
  /\ work = [g \in Gens |-> "off"]
  /\ launch = [g \in Gens |-> IF g = 1 THEN "due" ELSE "off"]
  /\ cast = [p \in Goroutines |-> Quiet]
  /\ moves = 0
  /\ inbox = [c \in Conns |-> <<>>]
  /\ replayed = [c \in Conns |-> {}]
  /\ resumed = [c \in Conns |-> 0]
-----------------------------------------------------------------------------
(* The first `started` is not noted in inbox: nothing is claimed of it.     *)
Noted(m) == m # Message("started", 1, 0)

(* BroadcastToSubscribers: the targets are collected under h.mu, written to *)
(* one after another without it, and those that failed removed.            *)

Announce(p, m) ==
  cast' = [cast EXCEPT ![p] = [msg |-> m, to |-> subs, left |-> subs, dead |-> {}]]

Told(p) == cast[p].left = {} /\ cast[p].dead = {}

(* Mutation: the first failed write ends the pass.                         *)
Send_StopsAtError(p) == \E c \in cast[p].left :
  /\ IF c \in broken
     THEN /\ cast' = [cast EXCEPT ![p].left = {}, ![p].dead = @ \cup {c}]
          /\ UNCHANGED inbox
     ELSE /\ cast' = [cast EXCEPT ![p].left = @ \ {c}]
          /\ inbox' = IF Noted(cast[p].msg) THEN [inbox EXCEPT ![c] = Append(@, cast[p].msg)]
                      ELSE inbox
  /\ UNCHANGED <<taskVars, metricsVars, clients, subs, broken, moves, replayed, resumed>>

Send(p) == \E c \in cast[p].left :
  /\ IF c \in broken
     THEN /\ cast' = [cast EXCEPT ![p].left = @ \ {c}, ![p].dead = @ \cup {c}]
          /\ UNCHANGED inbox
     ELSE /\ cast' = [cast EXCEPT ![p].left = @ \ {c}]
          /\ inbox' = IF Noted(cast[p].msg) THEN [inbox EXCEPT ![c] = Append(@, cast[p].msg)]
                      ELSE inbox
  /\ UNCHANGED <<taskVars, metricsVars, clients, subs, broken, moves, replayed, resumed>>

(* A closed connection reads no more; Close follows every RemoveClient.      *)
Close(c) ==
  /\ broken' = broken \cup {c}
  /\ inbox' = [inbox EXCEPT ![c] = <<>>]
  /\ replayed' = [replayed EXCEPT ![c] = {}]
  /\ resumed' = [resumed EXCEPT ![c] = 0]

RemoveClient(c) ==
  /\ clients' = clients \ {c}
  /\ subs' = subs \ {c}
  /\ Close(c)

Reap(p) == cast[p].left = {} /\ \E c \in cast[p].dead :
  /\ RemoveClient(c)
  /\ cast' = [cast EXCEPT ![p].dead = @ \ {c}]
  /\ UNCHANGED <<taskVars, metricsVars, moves>>
-----------------------------------------------------------------------------
(* The goroutine of a worker: send and the exit of StartVirtualWorker.      *)

GoesTo(g, from, to) == work[g] = from /\ work' = [work EXCEPT ![g] = to]

(* Mutation: the oldest event is not dropped.                              *)
Stored_Unbounded(ring, m) == Append(ring, m)

Stored(ring, m) == IF Len(ring) >= RingSize THEN Append(Tail(ring), m) ELSE Append(ring, m)

(* OnOutput: number the line under task.mu, count it, broadcast it.  The    *)
(* worker stores it after that.                                            *)
Number(g) ==
  /\ GoesTo(g, "idle", "numbered")
  /\ seq < MaxLines /\ muHolder = Free
  /\ seq' = seq + 1
  /\ UNCHANGED <<connVars, cast, metricsVars, stopped, worker, rings, muHolder, launch>>

(* Mutation: the line is not counted.                                      *)
SendLine_Uncounted(g) ==
  /\ GoesTo(g, "numbered", "sending")
  /\ Announce(<<"work", g>>, Message("output", g, seq))
  /\ UNCHANGED <<connVars, metricsVars, seq, stopped, worker, rings, muHolder, launch>>

SendLine(g) ==
  /\ GoesTo(g, "numbered", "sending")
  /\ RecordOutput(Task, Action)
  /\ Announce(<<"work", g>>, Message("output", g, seq))
  /\ UNCHANGED <<connVars, seq, stopped, worker, rings, muHolder, launch>>

Store(g) ==
  /\ GoesTo(g, "sending", "idle")
  /\ Told(<<"work", g>>)
  /\ rings' = [rings EXCEPT ![g] = Stored(@, Message("output", g, seq))]
  /\ UNCHANGED <<connVars, cast, metricsVars, seq, stopped, worker, muHolder, launch>>

(* The function of the worker returns; its exit is stored.                 *)
Finish(g) ==
  /\ GoesTo(g, "idle", "exiting")
  /\ rings' = [rings EXCEPT ![g] = Stored(@, Message("exited", g, 0))]
  /\ UNCHANGED <<connVars, cast, metricsVars, seq, stopped, worker, muHolder, launch>>

(* onWorkerExited: broadcast, then the retry policy under task.mu.         *)
ReportExit(g) ==
  /\ GoesTo(g, "exiting", "reporting")
  /\ Announce(<<"work", g>>, Message("exited", g, 0))
  /\ UNCHANGED <<connVars, metricsVars, seq, stopped, worker, rings, muHolder, launch>>

CountExit(g) ==
  /\ GoesTo(g, "reporting", "settling")
  /\ Told(<<"work", g>>) /\ muHolder = Free
  /\ muHolder' = <<"work", g>>
  /\ RecordExit(Task, Action, FALSE)
  /\ UNCHANGED <<connVars, cast, seq, stopped, worker, rings, launch>>

(* Every generation but the first comes from a retry: the exit of           *)
(* generation g is the g-th.                                               *)
Decide(g) ==
  \/ /\ stopped
     /\ GoesTo(g, "settling", "done")
     /\ muHolder' = Free
     /\ UNCHANGED <<connVars, cast, metricsVars, seq, stopped, worker, rings, launch>>
  \/ /\ ~stopped
     /\ GoesTo(g, "settling", "telling")
     /\ IF g >= ErrorThreshold
        THEN /\ RecordExit(Task, Action, TRUE)
             /\ Announce(<<"work", g>>, Message("errored", g, 0))
        ELSE /\ RecordRestart(Task, Action)
             /\ Announce(<<"work", g>>, Message("restarting", g, 0))
     /\ UNCHANGED <<connVars, seq, stopped, worker, rings, muHolder, launch>>

Settled(g) ==
  /\ GoesTo(g, "telling", "done")
  /\ Told(<<"work", g>>)
  /\ muHolder' = Free
  /\ launch' = IF g >= ErrorThreshold THEN launch ELSE [launch EXCEPT ![g + 1] = "due"]
  /\ UNCHANGED <<connVars, cast, metricsVars, seq, stopped, worker, rings>>
-----------------------------------------------------------------------------
(* startFn: handler.Start, task.worker, the automatic subscription, the     *)
(* counter and the broadcast, each on its own.                             *)

Launching(from, to) == launch[1] = from /\ launch' = [launch EXCEPT ![1] = to]

Start ==
  /\ Launching("due", "assign")
  /\ work' = [work EXCEPT ![1] = "idle"]
  /\ UNCHANGED <<connVars, cast, metricsVars, seq, stopped, worker, rings, muHolder>>

Assign ==
  /\ Launching("assign", "subscribe")
  /\ muHolder = Free
  /\ worker' = 1
  /\ UNCHANGED <<connVars, cast, metricsVars, seq, stopped, rings, muHolder, work>>

(* Mutation: a connection that has gone is subscribed all the same.        *)
AutoSubscribe_Unchecked ==
  /\ Launching("subscribe", "record")
  /\ subs' = subs \cup {Starter}
  /\ UNCHANGED <<cast, metricsVars, seq, stopped, worker, rings, muHolder, work,
                 clients, broken, moves, inbox, replayed, resumed>>

AutoSubscribe ==
  /\ Launching("subscribe", "record")
  /\ subs' = subs \cup ({Starter} \cap clients)
  /\ UNCHANGED <<cast, metricsVars, seq, stopped, worker, rings, muHolder, work,
                 clients, broken, moves, inbox, replayed, resumed>>

AnnounceStart ==
  /\ Launching("record", "done")
  /\ RecordStart(Task, Action)
  /\ Announce(<<"launch", 1>>, Message("started", 1, 0))
  /\ UNCHANGED <<connVars, seq, stopped, worker, rings, muHolder, work>>

(* Mutation: task.mu is given up before the broadcast.                     *)
DoRestart_UnlocksEarly(g) ==
  /\ g > 1 /\ launch[g] = "due" /\ muHolder = Free
  /\ ~stopped
  /\ worker' = g
  /\ work' = [work EXCEPT ![g] = "idle"]
  /\ launch' = [launch EXCEPT ![g] = "done"]
  /\ Announce(<<"launch", g>>, Message("started", g, 0))
  /\ UNCHANGED <<connVars, metricsVars, seq, stopped, rings, muHolder>>

(* doRestart: cancelled, or failing, or launching and broadcasting with     *)
(* task.mu held.                                                           *)
DoRestart(g) ==
  /\ g > 1 /\ launch[g] = "due" /\ muHolder = Free
  /\ \/ /\ launch' = [launch EXCEPT ![g] = "done"]
        /\ UNCHANGED <<worker, work, muHolder, cast>>
     \/ /\ ~stopped
        /\ worker' = g
        /\ work' = [work EXCEPT ![g] = "idle"]
        /\ launch' = [launch EXCEPT ![g] = "telling"]
        /\ muHolder' = <<"launch", g>>
        /\ Announce(<<"launch", g>>, Message("started", g, 0))
  /\ UNCHANGED <<connVars, metricsVars, seq, stopped, rings>>

Restarted(g) ==
  /\ launch[g] = "telling" /\ Told(<<"launch", g>>)
  /\ launch' = [launch EXCEPT ![g] = "done"]
  /\ muHolder' = Free
  /\ UNCHANGED <<connVars, cast, metricsVars, seq, stopped, worker, rings, work>>
-----------------------------------------------------------------------------
(* The clients, all connected from the start: one that joins later is one   *)
(* that has done nothing yet.  A closed connection sends no more messages.  *)

Move == moves < MaxMoves /\ moves' = moves + 1

(* The read loop of HandleClient ends.                                     *)
Disconnect(c) ==
  /\ c \in clients /\ Move
  /\ RemoveClient(c)
  /\ UNCHANGED <<taskVars, cast, metricsVars>>

(* The other end goes away.                                                *)
Break(c) ==
  /\ c \in clients \ broken /\ Move
  /\ Close(c)
  /\ UNCHANGED <<taskVars, cast, metricsVars, clients, subs>>

Subscribe(c) ==
  /\ c \in clients \ (broken \cup subs) /\ Move
  /\ subs' = subs \cup {c}
  /\ UNCHANGED <<taskVars, cast, metricsVars, clients, broken, inbox, replayed, resumed>>

Unsubscribe(c) ==
  /\ c \in subs \ broken /\ Move
  /\ subs' = subs \ {c}
  /\ replayed' = [replayed EXCEPT ![c] = {}]
  /\ resumed' = [resumed EXCEPT ![c] = 0]
  /\ UNCHANGED <<taskVars, cast, metricsVars, clients, broken, inbox>>

Lines(events) == {events[i].seq : i \in {j \in DOMAIN events : events[j].kind = "output"}}

(* Mutation: the last event is left out.                                   *)
GetEvents_SkipsLast(g) == IF rings[g] = <<>> THEN {} ELSE Lines(Front(rings[g]))

(* getEvents without since.                                                *)
GetEvents(g) == Lines(rings[g])

(* The oldest line that a worker has stored or has yet to store.           *)
OldestLine(g) == Min(Lines(rings[g]) \cup
                     {IF work[g] \in {"numbered", "sending"} THEN seq ELSE seq + 1})

(* handleReplay: the events of task.worker, in one go.  A replay changes    *)
(* nothing else, so only those are steps that AtMostOneLost speaks of: of a *)
(* subscriber, and of the newest worker.  (A fast first worker may have     *)
(* been replaced before startFn assigns it: its old events are then read.) *)
Replay(c) ==
  /\ c \in clients \ broken /\ Move
  /\ worker # 0 /\ muHolder = Free
  /\ c \in subs /\ \A g \in Gens : g > worker => work[g] = "off"
  /\ replayed' = [replayed EXCEPT ![c] = @ \cup GetEvents(worker)]
  /\ resumed' = [resumed EXCEPT ![c] = IF @ = 0 THEN OldestLine(worker) ELSE @]
  /\ UNCHANGED <<taskVars, cast, metricsVars, clients, subs, broken, inbox>>

(* handleStop: the state; the function of the worker may ignore its context. *)
StopTask ==
  /\ launch[1] # "due" /\ muHolder = Free /\ ~stopped
  /\ stopped' = TRUE
  /\ UNCHANGED <<connVars, cast, metricsVars, seq, worker, rings, muHolder, work, launch>>

OtherTaskStarts(t) ==
  /\ t \in Tasks \ {Task} /\ Move
  /\ RecordStart(t, Action)
  /\ UNCHANGED <<taskVars, cast, clients, subs, broken, inbox, replayed, resumed>>
-----------------------------------------------------------------------------
Broadcasting(p) == Send(p) \/ Reap(p)
VirtualWorker(g) == \/ Number(g) \/ SendLine(g) \/ Store(g) \/ Finish(g) \/ ReportExit(g)
                    \/ CountExit(g) \/ Decide(g) \/ Settled(g)
StartFn == Start \/ Assign \/ AutoSubscribe \/ AnnounceStart
Client(c) == \/ Disconnect(c) \/ Break(c)
             \/ Subscribe(c) \/ Unsubscribe(c) \/ Replay(c)

DeliveryNext ==
  \/ \E p \in Goroutines : Broadcasting(p)
  \/ \E g \in Gens : VirtualWorker(g) \/ DoRestart(g) \/ Restarted(g)
  \/ StartFn \/ StopTask
  \/ \E c \in Conns : Client(c)
  \/ \E t \in Tasks : OtherTaskStarts(t)

DeliverySpec == DeliveryInit /\ [][DeliveryNext]_deliveryVars
-----------------------------------------------------------------------------
(* Properties.                                                             *)

(* A connection that RemoveClient has taken out does not come back into     *)
(* h.subscriptions, although startFn subscribes it later on.               *)
NoGhost == subs \subseteq clients

Rank(kind) == CASE kind = "started" -> 0 [] kind = "output" -> 1 [] kind = "exited" -> 2
                [] kind \in {"restarting", "errored"} -> 3

(* The first `started` comes when it comes (its worker may have ended by    *)
(* then), and a worker that writes nothing may exit before its `started`.  *)
Before(m, n) ==
  \/ m.gen < n.gen
  \/ m.gen = n.gen /\ Rank(m.kind) < Rank(n.kind) /\ {m.kind, n.kind} # {"started", "exited"}
  \/ m.kind = "output" /\ n.kind = "output" /\ m.seq < n.seq

(* What a subscriber gets of a task is in the order in which it happened    *)
(* and without repetition, although four kinds of goroutine send it:       *)
(* lines in the order of their numbers, across restarts too, `exited` after *)
(* the lines, `restarting` after `exited`, `started` before the new lines.  *)
InOrder == \A c \in Conns : \A i, j \in DOMAIN inbox[c] :
  i < j => inbox[c][i] # inbox[c][j] /\ ~Before(inbox[c][j], inbox[c][i])

Received(c) == replayed[c] \cup Lines(inbox[c])

(* The line that a worker is about to send, or is sending, to c.           *)
OnItsWay(c) == {n \in 1..seq : n = seq /\ \E g \in Gens :
                  \/ work[g] = "numbered"
                  \/ work[g] = "sending" /\ c \in cast[<<"work", g>>].left}

(* A client that subscribes and then replays has, from the oldest line that *)
(* the ring held, all lines but at most one: that whose targets were        *)
(* collected before it subscribed and which was stored after the replay.   *)
AtMostOneLost == \A c \in subs \ broken : resumed[c] # 0 =>
  Cardinality((resumed[c]..seq) \ (Received(c) \cup OnItsWay(c))) <= 1

(* A broadcast that is over has reached all its targets whose connection    *)
(* has held, whatever became of the others in the middle of it.            *)
PassReachesAll == \A p \in Goroutines : Told(p) /\ Noted(cast[p].msg) =>
  \A c \in cast[p].to \ broken : \E i \in DOMAIN inbox[c] : inbox[c][i] = cast[p].msg

(* The counters agree with the task: a line is counted between its number   *)
(* and its broadcast, an exit once and an errored one twice, a restart with *)
(* its announcement.                                                       *)
CountersAgree ==
  /\ total["output"] + Cardinality({g \in Gens : work[g] = "numbered"}) = seq
  /\ total["completed"] = total["errored"]
       + Cardinality({g \in Gens : work[g] \in {"settling", "telling", "done"}})
  /\ total["restarted"] >= Cardinality({g \in Gens : g > 1 /\ work[g] # "off"})
=============================================================================
