----------------------------- MODULE PoolManager -----------------------------
(***************************************************************************)
(* The PoolManager of pool.go: admission of start requests up to a global  *)
(* and a per-action limit, one queue per action for the ones that do not   *)
(* fit, displacement, expiry, purge, set_pool and drain.                   *)
(*                                                                         *)
(* A "call" is one call of Acquire with the closures it hands to the pool  *)
(* (startFn, cancelFn, stopFn): the RunningEntry and the QueuedItem made   *)
(* for it carry its identity.  Every critical section of pm.mu is one      *)
(* step; what runs outside the lock (startFn, the rollback after it, a     *)
(* cancelFn, the stop loop of SetLimits) is a step of its own, and phase   *)
(* says where the closures of a call have got to.                          *)
(***************************************************************************)
EXTENDS Naturals, FiniteSets, Sequences, SequencesExt, FiniteSetsExt, Functions

CONSTANTS
  Calls,          \* the calls of Acquire that may happen
  Actions,        \* action names
  Global,         \* the scope of the pool-wide configuration ("" in the code)
  TaskOf,         \* [Calls -> task IDs]
  ActionOf,       \* [Calls -> Actions]
  ForcedCalls,    \* the calls made with force = true
  InitConfig,     \* [Scopes -> [limit, queue]]: globalCfg and actionCfgs
  NewLimits,      \* limits that set_pool may ask for
  NewSizes,       \* queue sizes that set_pool may ask for
  FailingCalls,   \* the calls whose startFn may return an error
  Unset,          \* capture[a] when pm.queues has no entry for a
  Detached,       \* capture[a] when q.cfg is a fresh &QueueConfig{}
  NoQueue         \* config[s].queue when it is nil

Scopes == Actions \cup {Global}

QueueConfig == [enabled: BOOLEAN, size: Nat, lifo: BOOLEAN, expires: BOOLEAN,
                displace: {"", "false", "true", "prohibit"}]
PoolConfig == [limit: Nat, queue: QueueConfig \cup {NoQueue}]

ASSUME PoolAssumption ==
  /\ IsFiniteSet(Calls) /\ IsFiniteSet(Actions)
  /\ Global \notin Actions
  /\ {Unset, Detached} \cap Scopes = {} /\ Unset # Detached
  /\ NoQueue \notin QueueConfig
  /\ \A c \in Calls : ActionOf[c] \in Actions
  /\ InitConfig \in [Scopes -> PoolConfig]
  /\ NewLimits \subseteq Nat /\ NewSizes \subseteq Nat

VARIABLES
  running,      \* pm.running: the calls that hold a RunningEntry
  stoppable,    \* calls registered with a non-nil RunningEntry.stop
  queues,       \* pm.queues[a].items
  capture,      \* the configuration q.cfg of queue a points at
  actionOrder,  \* pm.actionOrder, most recently enqueued first
  config,       \* globalCfg and actionCfgs
  aged,         \* queued calls older than the MaxAge of their queue
  stopping,     \* toStop of the SetLimits in progress
  asked,        \* calls whose stop function has been called
  drained,      \* stopCh is closed
  phase         \* how far the closures of a call have got

poolVars == <<running, stoppable, queues, capture, actionOrder, config, aged,
              stopping, asked, drained, phase>>

(* Phases: idle (Acquire not called), queued, starting (startFn runs, the  *)
(* entry is pre-registered), aborting (startFn failed, the entry is still  *)
(* there), cancelling (off the queue, cancelFn not yet run), up (startFn   *)
(* has got its worker from handler.Start), and the final ended, failed,    *)
(* cancelled, rejected.                                                    *)
Phases == {"idle", "queued", "starting", "aborting", "cancelling", "up",
           "ended", "failed", "cancelled", "rejected"}
Live(c) == phase[c] \in {"queued", "starting", "aborting", "cancelling", "up"}

TypeOK ==
  /\ running \subseteq Calls /\ stoppable \subseteq Calls
  /\ queues \in [Actions -> Seq(Calls)]
  /\ capture \in [Actions -> Scopes \cup {Unset, Detached}]
  /\ actionOrder \in Seq(Actions)
  /\ config \in [Scopes -> PoolConfig]
  /\ aged \subseteq Calls /\ stopping \subseteq Calls /\ asked \subseteq Calls
  /\ drained \in BOOLEAN
  /\ phase \in [Calls -> Phases]

Init ==
  /\ running = {} /\ stoppable = {} /\ aged = {} /\ stopping = {} /\ asked = {}
  /\ queues = [a \in Actions |-> <<>>]
  /\ capture = [a \in Actions |-> Unset]
  /\ actionOrder = <<>>
  /\ config = InitConfig
  /\ drained = FALSE
  /\ phase = [c \in Calls |-> "idle"]
-----------------------------------------------------------------------------
(* Capacity and configuration.                                             *)

RunningFor(a) == {c \in running : ActionOf[c] = a}

(* Mutation: the limit is one too high.                                    *)
HasCapacity_OffByOne(a) ==
  /\ config[Global].limit = 0 \/ Cardinality(running) <= config[Global].limit
  /\ config[a].limit = 0 \/ Cardinality(RunningFor(a)) <= config[a].limit

HasCapacity(a) ==
  /\ config[Global].limit = 0 \/ Cardinality(running) < config[Global].limit
  /\ config[a].limit = 0 \/ Cardinality(RunningFor(a)) < config[a].limit

Disabled == [enabled |-> FALSE, size |-> 0, lifo |-> FALSE, expires |-> FALSE,
             displace |-> ""]

EffectiveScope(a) == IF config[a].queue # NoQueue THEN a
                     ELSE IF config[Global].queue # NoQueue THEN Global
                     ELSE Detached
QueueAt(s) == IF s \in Scopes THEN config[s].queue ELSE Disabled

(* The scope whose QueueConfig queueFor(a).cfg points at.  It is fixed when *)
(* the queue is created; set_pool writes through the pointer.              *)
CaptureOf(a) == IF capture[a] = Unset THEN EffectiveScope(a) ELSE capture[a]
Cfg(a) == QueueAt(CaptureOf(a))

Full(a, q) == Cfg(a).size > 0 /\ Len(q) >= Cfg(a).size

(* updateActionOrder                                                       *)
MoveToFront(a) ==
  IF \E i \in DOMAIN actionOrder : actionOrder[i] = a
  THEN <<a>> \o RemoveAt(actionOrder, CHOOSE i \in DOMAIN actionOrder : actionOrder[i] = a)
  ELSE <<a>> \o actionOrder
-----------------------------------------------------------------------------
(* Acquire, one action per outcome.                                        *)

AcquireRun(c) ==
  /\ phase[c] = "idle" /\ HasCapacity(ActionOf[c])
  /\ running' = running \cup {c}
  /\ stoppable' = stoppable \cup {c}
  /\ phase' = [phase EXCEPT ![c] = "starting"]
  /\ UNCHANGED <<queues, capture, actionOrder, config, aged, stopping, asked, drained>>

(* No capacity: queueFor(action) creates the queue, whatever happens next. *)
NoRoom(c) ==
  /\ phase[c] = "idle" /\ ~HasCapacity(ActionOf[c])
  /\ capture' = [capture EXCEPT ![ActionOf[c]] = CaptureOf(ActionOf[c])]
  /\ UNCHANGED <<running, stoppable, config, aged, stopping, asked, drained>>

AcquireQueue(c) == LET a == ActionOf[c] IN
  /\ NoRoom(c)
  /\ Cfg(a).enabled /\ ~Full(a, queues[a])
  /\ queues' = [queues EXCEPT ![a] = Append(@, c)]
  /\ actionOrder' = MoveToFront(a)
  /\ phase' = [phase EXCEPT ![c] = "queued"]

(* tryDisplace looks at the queue of its own action first, then at the     *)
(* other existing queues in map order, hence at any of them.               *)
Displaceable(a, forced) ==
  /\ \E i \in DOMAIN queues[a] : queues[a][i] \notin ForcedCalls
  /\ LET d == QueueAt(EffectiveScope(a)).displace
     IN  d # "prohibit" /\ (d = "false" => forced)

FirstUnforced(q, i) == /\ q[i] \notin ForcedCalls
                       /\ \A j \in 1..(i-1) : q[j] \in ForcedCalls

DisplaceFrom(c) == LET own == ActionOf[c]
                       can == {a \in Actions : Displaceable(a, c \in ForcedCalls)}
                   IN  IF own \in can THEN {own} ELSE can

(* tryDisplace takes item i off queue b.  The result of newQ.Enqueue is     *)
(* ignored: when the queue of c is still full after the displacement, c is *)
(* nowhere although its caller is told that it is queued.                  *)
Displace(c, b, i) == LET a == ActionOf[c]
                         rest == [queues EXCEPT ![b] = RemoveAt(@, i)]
  IN  /\ FirstUnforced(queues[b], i)
      /\ queues' = IF Full(a, rest[a]) THEN rest ELSE [rest EXCEPT ![a] = Append(@, c)]
      /\ phase' = [phase EXCEPT ![c] = "queued", ![queues[b][i]] = "cancelling"]

AcquireDisplace(c) == LET a == ActionOf[c] IN
  /\ NoRoom(c)
  /\ Cfg(a).enabled /\ Full(a, queues[a])
  /\ \E b \in DisplaceFrom(c) : \E i \in DOMAIN queues[b] : Displace(c, b, i)
  /\ actionOrder' = MoveToFront(a)

AcquireReject(c) == LET a == ActionOf[c] IN
  /\ NoRoom(c)
  /\ Cfg(a).enabled => Full(a, queues[a]) /\ DisplaceFrom(c) = {}
  /\ phase' = [phase EXCEPT ![c] = "rejected"]
  /\ UNCHANGED <<queues, actionOrder>>

Acquire(c) == AcquireRun(c) \/ AcquireQueue(c) \/ AcquireDisplace(c) \/ AcquireReject(c)
-----------------------------------------------------------------------------
(* startFn and cancelFn run outside pm.mu.                                 *)

StartOK(c) ==
  /\ phase[c] = "starting"
  /\ phase' = [phase EXCEPT ![c] = "up"]
  /\ UNCHANGED <<running, stoppable, queues, capture, actionOrder, config, aged,
                 stopping, asked, drained>>

StartFail(c) ==
  /\ c \in FailingCalls
  /\ phase[c] = "starting"
  /\ phase' = [phase EXCEPT ![c] = "aborting"]
  /\ UNCHANGED <<running, stoppable, queues, capture, actionOrder, config, aged,
                 stopping, asked, drained>>

(* Mutation: a released task keeps its entry.                              *)
Unregister_Keeps(t) == {running}

(* The running list without one entry of a task, if it has one.            *)
Unregister(t) == LET entries == {e \in running : TaskOf[e] = t}
                 IN  IF entries = {} THEN {running} ELSE {running \ {e} : e \in entries}

(* Mutation: the entry of a failed start stays.                            *)
Rollback_KeepsEntry(c) ==
  /\ phase[c] = "aborting"
  /\ phase' = [phase EXCEPT ![c] = IF c \in stoppable THEN "failed" ELSE "cancelling"]
  /\ UNCHANGED <<running, stoppable, queues, capture, actionOrder, config, aged, stopping,
                 asked, drained>>

(* After a failed startFn the entry goes; nobody is admitted in its place. *)
(* Acquire returns the error, Release goes on to cancelFn.                 *)
Rollback(c) ==
  /\ phase[c] = "aborting"
  /\ running' \in Unregister(TaskOf[c])
  /\ phase' = [phase EXCEPT ![c] = IF c \in stoppable THEN "failed" ELSE "cancelling"]
  /\ UNCHANGED <<stoppable, queues, capture, actionOrder, config, aged, stopping,
                 asked, drained>>

RunCancelFn(c) ==
  /\ phase[c] = "cancelling"
  /\ phase' = [phase EXCEPT ![c] = "cancelled"]
  /\ UNCHANGED <<running, stoppable, queues, capture, actionOrder, config, aged,
                 stopping, asked, drained>>
-----------------------------------------------------------------------------
(* Release and nextQueued.                                                 *)

Fresh(a) == {i \in DOMAIN queues[a] : queues[a][i] \notin aged}

(* The queues that nextQueued finds empty, or full of expired items only,  *)
(* before it takes an item of queue a: actionOrder first, then map order.  *)
Passed(a) ==
  LET known == ToSet(actionOrder)
      passes(S) == \A b \in S : Fresh(b) = {}
  IN  {S \in SUBSET (Actions \ {a}) :
         /\ passes(S)
         /\ IF a \in known
            THEN \E k \in DOMAIN actionOrder :
                   actionOrder[k] = a /\ S = {actionOrder[j] : j \in 1..(k-1)}
            ELSE known \subseteq S}

(* What TaskQueue.Dequeue takes: the newest item of a LIFO queue, or the   *)
(* oldest fresh item of a FIFO queue, whose expired items go with it.      *)
Takes(a, i) == IF Cfg(a).lifo THEN i = Len(queues[a])
               ELSE \A j \in 1..(i-1) : queues[a][j] \in aged
(* Mutation: the taken item stays and the other end goes.                  *)
Rest_OtherEnd(a, i) == IF Cfg(a).lifo THEN SubSeq(queues[a], 2, i)
                       ELSE SubSeq(queues[a], i, Len(queues[a]) - 1)
Rest(a, i) == IF Cfg(a).lifo THEN SubSeq(queues[a], 1, i - 1)
              ELSE SubSeq(queues[a], i + 1, Len(queues[a]))

(* The queues after nextQueued has passed S and taken item i of a.         *)
AfterTake(a, i, S) == [b \in Actions |-> IF b = a THEN Rest(a, i)
                                         ELSE IF b \in S THEN <<>> ELSE queues[b]]
Queued(Q) == UNION {ToSet(Q[a]) : a \in Actions}

(* Mutation: the admitted item gets no running entry (before the H3 fix).  *)
Admit_Unregistered(t, ph, a, i, S) ==
  /\ Takes(a, i)
  /\ running' \in Unregister(t)
  /\ phase' = [c \in Calls |-> IF c = queues[a][i] THEN "starting"
                 ELSE IF c \in Queued(queues) \ Queued(AfterTake(a, i, S)) THEN "cancelled"
                 ELSE ph[c]]
  /\ queues' = AfterTake(a, i, S)

(* Mutation: expired items are dropped without their cancelFn.             *)
Admit_DropsSilently(t, ph, a, i, S) ==
  /\ Takes(a, i)
  /\ \E R \in Unregister(t) : running' = R \cup {queues[a][i]}
  /\ phase' = [ph EXCEPT ![queues[a][i]] = "starting"]
  /\ queues' = AfterTake(a, i, S)

(* Release of task t by a caller that leaves the phases as they are in ph. *)
(* The next item is admitted without a look at the limits; the cancelFn of *)
(* an expired item runs inside Dequeue, under pm.mu.                       *)
Admit(t, ph, a, i, S) ==
  /\ Takes(a, i)
  /\ \E R \in Unregister(t) : running' = R \cup {queues[a][i]}
  /\ phase' = [c \in Calls |-> IF c = queues[a][i] THEN "starting"
                 ELSE IF c \in Queued(queues) \ Queued(AfterTake(a, i, S)) THEN "cancelled"
                 ELSE ph[c]]
  /\ queues' = AfterTake(a, i, S)

ReleaseAndAdmit(t, ph) ==
  \E a \in Actions : \E i \in Fresh(a), S \in Passed(a) : Admit(t, ph, a, i, S)

ReleaseOnly(t, ph) ==
  /\ \A a \in Actions : Fresh(a) = {}
  /\ running' \in Unregister(t)
  /\ phase' = [c \in Calls |-> IF c \in Queued(queues) THEN "cancelled" ELSE ph[c]]
  /\ queues' = [a \in Actions |-> <<>>]

(* Mutation: the slot is given back and nobody is admitted.                *)
Release_NoAdmit(t, ph) ==
  /\ running' \in Unregister(t)
  /\ phase' = ph
  /\ UNCHANGED <<queues, stoppable, capture, actionOrder, config, aged, drained>>

Release(t, ph) ==
  /\ ReleaseAndAdmit(t, ph) \/ ReleaseOnly(t, ph)
  /\ UNCHANGED <<stoppable, capture, actionOrder, config, aged, drained>>
-----------------------------------------------------------------------------
(* Dequeue, PurgeQueue, expiry and DrainAll take items off under the lock  *)
(* and run their cancelFn afterwards.                                      *)

(* Mutation: the items are cancelled but stay in the queue.                *)
TakeOff_Keeps(Q) ==
  /\ phase' = [c \in Calls |-> IF c \in Queued(queues) \ Queued(Q)
                               THEN "cancelling" ELSE phase[c]]
  /\ UNCHANGED <<queues, stoppable, capture, actionOrder, config, aged, stopping, asked>>

TakeOff(Q) ==
  /\ queues' = Q
  /\ phase' = [c \in Calls |-> IF c \in Queued(queues) \ Queued(Q)
                               THEN "cancelling" ELSE phase[c]]
  /\ UNCHANGED <<stoppable, capture, actionOrder, config, aged, stopping, asked>>

Dequeue(t) ==
  /\ \E a \in Actions : \E i \in DOMAIN queues[a] :
       /\ TaskOf[queues[a][i]] = t
       /\ \A j \in 1..(i-1) : TaskOf[queues[a][j]] # t
       /\ TakeOff([queues EXCEPT ![a] = RemoveAt(@, i)])
  /\ UNCHANGED <<running, drained>>

PurgeQueue(s) ==
  /\ TakeOff([a \in Actions |-> IF s \in {a, Global} THEN <<>> ELSE queues[a]])
  /\ UNCHANGED <<running, drained>>

(* enqueuedAt grows along a queue, so its items pass MaxAge in that order. *)
Age(c) ==
  /\ c \notin aged
  /\ \E a \in Actions : \E i \in DOMAIN queues[a] :
       /\ queues[a][i] = c
       /\ Cfg(a).expires
       /\ \A j \in 1..(i-1) : queues[a][j] \in aged
  /\ aged' = aged \cup {c}
  /\ UNCHANGED <<running, stoppable, queues, capture, actionOrder, config, stopping,
                 asked, drained, phase>>

(* sweepExpired, at one queue: its expired items are its first n.          *)
Expire(a) ==
  /\ ~drained
  /\ \E n \in DOMAIN queues[a] :
       /\ \A i \in DOMAIN queues[a] : queues[a][i] \in aged <=> i <= n
       /\ TakeOff([queues EXCEPT ![a] = SubSeq(@, n + 1, Len(@))])
  /\ UNCHANGED <<running, drained>>

DrainAll ==
  /\ ~drained
  /\ TakeOff([a \in Actions |-> <<>>])
  /\ running' = {}
  /\ drained' = TRUE
-----------------------------------------------------------------------------
(* SetLimits.  Which running entries are over the limit is KillOrder's     *)
(* choice of age, left open here.  The stop loop runs outside the lock;    *)
(* set_pool requests are served one at a time.                             *)

(* Mutation: a missing QueueConfig is created with its size only.          *)
SetLimits_BareQueue(s, limit, size) ==
  /\ stopping = {}
  /\ config' = [config EXCEPT ![s] =
       [limit |-> limit,
        queue |-> IF @.queue = NoQueue THEN [size |-> size]
                  ELSE [@.queue EXCEPT !.size = size]]]
  /\ UNCHANGED <<running, stoppable, queues, capture, actionOrder, aged, stopping, asked,
                 drained, phase>>

SetLimits(s, limit, size) ==
  /\ stopping = {}
  /\ config' = [config EXCEPT ![s] =
       [limit |-> limit,
        queue |-> [(IF @.queue = NoQueue THEN Disabled ELSE @.queue) EXCEPT !.size = size]]]
  /\ LET candidates == IF s = Global THEN running ELSE RunningFor(s)
     IN  IF limit > 0 /\ Cardinality(candidates) > limit
         THEN stopping' \in kSubset(Cardinality(candidates) - limit, candidates)
         ELSE stopping' = {}
  /\ UNCHANGED <<running, stoppable, queues, capture, actionOrder, aged, asked,
                 drained, phase>>

StopExcess(c) ==
  /\ c \in stopping
  /\ stopping' = stopping \ {c}
  /\ asked' = IF c \in stoppable THEN asked \cup {c} ELSE asked
  /\ Release(TaskOf[c], phase)
-----------------------------------------------------------------------------
(* The closed system.  The owner of the pool keeps task IDs apart: a call  *)
(* is made only when no live call has its task ID, and it reports the exit *)
(* of a task it started once.                                              *)

Owned(c) == \A d \in Calls \ {c} : TaskOf[d] = TaskOf[c] => ~Live(d)

Request(c) == Owned(c) /\ Acquire(c)

Exit(c) ==
  /\ phase[c] = "up"
  /\ Release(TaskOf[c], [phase EXCEPT ![c] = "ended"])
  /\ UNCHANGED <<stopping, asked>>

Serve == \/ \E c \in Calls : \/ Request(c) \/ StartOK(c) \/ StartFail(c) \/ Rollback(c)
                             \/ RunCancelFn(c) \/ Exit(c) \/ Age(c)
                             \/ Dequeue(TaskOf[c])
         \/ \E a \in Actions : Expire(a)
         \/ \E s \in Scopes : PurgeQueue(s)
         \/ DrainAll

Resize == \/ \E s \in Scopes, l \in NewLimits, n \in NewSizes : SetLimits(s, l, n)
          \/ \E c \in Calls : StopExcess(c)

Next == Serve \/ Resize

Spec == Init /\ [][Next]_poolVars

(* Without set_pool the limits are the ones of the configuration file.     *)
FixedSpec == Init /\ [][Serve]_poolVars
-----------------------------------------------------------------------------
(* Properties.                                                             *)

(* A caller that was told "queued" is in the queue of its action until it   *)
(* is started or its cancelFn is due.                                      *)
QueuedIsHeld == \A c \in Calls : phase[c] = "queued" => c \in ToSet(queues[ActionOf[c]])

(* Conversely, whatever moves items about (displacement, expiry, purge,     *)
(* admission), an item is in one place of the queue of its own action, and *)
(* neither its startFn nor its cancelFn has run or is about to.            *)
QueuesSound ==
  \A a \in Actions : /\ IsInjective(queues[a])
                     /\ \A c \in ToSet(queues[a]) : phase[c] = "queued" /\ ActionOf[c] = a

(* A started task keeps its slot until its exit is reported, unless set_pool *)
(* took the slot and asked the task to stop (ExcessStop), or the pool was   *)
(* drained.                                                                *)
UpHoldsSlot ==
  \A c \in Calls : phase[c] \in {"starting", "aborting", "up"} =>
                    c \in running \/ c \in asked \/ drained

(* No slot is held on behalf of a call that is over or still waits.        *)
NoSlotLeak == \A c \in running : phase[c] \in {"starting", "aborting", "up"}

(* The running entries never exceed the global limit (the H3 comment of    *)
(* Release, TestPool_ReleaseNoOverrun), until DrainAll forgets the entries *)
(* of tasks that still run.                                                *)
GlobalCapacity ==
  ~drained /\ config[Global].limit > 0 => Cardinality(running) <= config[Global].limit

(* A startFn may have failed.  Its rollback gives the slot back and admits  *)
(* nobody, so what follows about waiting is promised up to that point.     *)
Failed == \E c \in Calls \cap FailingCalls :
            phase[c] \in {"aborting", "failed", "cancelling", "cancelled"}

(* A call waits only while some task runs, whose exit will admit it: no     *)
(* queue is left behind with nobody to serve it, unless a start failed.    *)
NoStranding == running = {} /\ ~Failed => Queued(queues) = {}

(* A newcomer is never started past a waiting call of its own action,       *)
(* unless a start failed and left that call in its queue.                  *)
NoOvertaking ==
  [][\A c \in Calls : phase[c] = "idle" /\ phase'[c] = "starting" /\ ~Failed
                      => queues[ActionOf[c]] = <<>>]_poolVars

(* "For cancelled/expired/displaced items, startFn is NOT called": once its *)
(* cancelFn is due a call is never started.                                *)
CancelledIsFinal ==
  [][\A c \in Calls : phase[c] \in {"cancelling", "cancelled"}
                      => phase'[c] \in {"cancelling", "cancelled"}]_poolVars

(* What it comes to for those who ask: PoolManager implements Slots.  The   *)
(* stage of a call is what its closures have been told; in particular the   *)
(* tasks that are starting or up, not the entries, are within the limit.   *)
Stage == [c \in Calls |-> CASE phase[c] = "idle" -> "outside"
                            [] phase[c] = "queued" -> "waiting"
                            [] phase[c] \in {"starting", "aborting", "up"} -> "holding"
                            [] OTHER -> "gone"]

Abstract == INSTANCE Slots WITH Clients <- Calls, Limit <- InitConfig[Global].limit,
                                stage <- Stage, open <- ~drained

(* Without set_pool every step of the pool is one of Slots, or none: each   *)
(* request gets one answer, whoever was sent away never holds a slot, a     *)
(* slot passes from one holder to the next, and the limit bounds the tasks. *)
ImplementsSlots == Abstract!SlotsSpec

(* The goroutines make progress: startFn and cancelFn return, and every     *)
(* started task exits sooner or later.                                     *)
Progress == \A c \in Calls : /\ WF_poolVars(StartOK(c) \/ StartFail(c))
                             /\ WF_poolVars(Rollback(c))
                             /\ WF_poolVars(RunCancelFn(c))
                             /\ WF_poolVars(Exit(c))
                             /\ WF_poolVars(StopExcess(c))
FairFixedSpec == FixedSpec /\ Progress

(* A queued call is started or cancelled in the end.                       *)
QueuedIsServed == \A c \in Calls : phase[c] = "queued" ~> phase[c] # "queued"

(* It is, as long as no startFn fails.                                     *)
QueuedIsServedUnlessFailed ==
  \A c \in Calls : phase[c] = "queued" ~> phase[c] # "queued" \/ Failed
=============================================================================
