--------------------------------- MODULE Hub ---------------------------------
(***************************************************************************)
(* The hub of hub.go on top of its PoolManager: handleStart and Submit     *)
(* reserve a task ID and ask the pool for a slot; the closures they hand   *)
(* to the pool register the task and launch its process; the exit of a     *)
(* process gives the slot back and lets the retry policy decide; stop,     *)
(* reset, purge and set_pool come from clients at any time.                *)
(*                                                                         *)
(* A call of PoolManager is here one start request, and also the Task      *)
(* object its startFn creates.  Each action is one critical section of     *)
(* h.mu, pm.mu or task.mu, with the call it makes under or right after it. *)
(***************************************************************************)
EXTENDS PoolManager

CONSTANTS
  Fingerprint,     \* [Calls -> dedupeFingerprint of the request], NoKey for ""
  NoKey,
  Submitted,       \* the requests that come by Submit, not by handleStart
  RetryCalls,      \* the requests that carry a RetryPolicy
  WindowedCalls,   \* those of them whose ErrorWindow is not 0
  ErrorThreshold,  \* RetryPolicy.ErrorThreshold
  NoTask           \* tasks[t] when h.tasks has no entry for t

TaskIds == {TaskOf[c] : c \in Calls}

ASSUME HubAssumption ==
  /\ Submitted \subseteq Calls /\ RetryCalls \subseteq Calls
  /\ WindowedCalls \subseteq RetryCalls
  /\ ErrorThreshold \in Nat \ {0}
  /\ NoTask \notin Calls

VARIABLES
  pending,     \* h.pending: reserved task IDs
  tasks,       \* h.tasks: the Task registered under an ID
  step,        \* how far a start request has got before the pool has it
  state,       \* record.State of the Task a request created
  proc,        \* Tasks with a live process
  settling,    \* exits between pool.Release and the rest of onWorkerExited
  restarting,  \* Tasks with a doRestart goroutine under way
  exits        \* len(exitHistory)

hubVars == <<pending, tasks, step, state, proc, settling, restarting, exits>>
allVars == <<poolVars, hubVars>>

HubTypeOK ==
  /\ pending \subseteq TaskIds
  /\ tasks \in [TaskIds -> Calls \cup {NoTask}]
  /\ step \in [Calls -> {"new", "scanned", "reserved", "asked", "refused"}]
  /\ state \in [Calls -> {"none", "active", "stopped", "errored"}]
  /\ proc \subseteq Calls /\ settling \subseteq Calls /\ restarting \subseteq Calls
  /\ exits \in [Calls -> 0..ErrorThreshold]

HubInit ==
  /\ Init
  /\ pending = {} /\ proc = {} /\ settling = {} /\ restarting = {}
  /\ tasks = [t \in TaskIds |-> NoTask]
  /\ step = [c \in Calls |-> "new"]
  /\ state = [c \in Calls |-> "none"]
  /\ exits = [c \in Calls |-> 0]
-----------------------------------------------------------------------------
(* A start request: the scan for a running duplicate, the reservation, then *)
(* Acquire.  A rejected one only reports the error: its reservation stays.  *)

Duplicates(c) == {d \in proc : tasks[TaskOf[d]] = d /\ Fingerprint[d] = Fingerprint[c]}

(* Only handleStart scans, and only for an action with a DedupeKey.        *)
Scans(c) == c \notin Submitted /\ Fingerprint[c] # NoKey

Scan(c) ==
  /\ Scans(c) /\ step[c] = "new"
  /\ step' = [step EXCEPT ![c] = IF Duplicates(c) = {} THEN "scanned" ELSE "refused"]
  /\ UNCHANGED <<poolVars, pending, tasks, state, proc, settling, restarting, exits>>

MayReserve(c) == step[c] = IF Scans(c) THEN "scanned" ELSE "new"

(* Mutation: only h.pending is looked at.                                  *)
Reserve_NoTasksCheck(c) == LET t == TaskOf[c] IN
  /\ MayReserve(c) /\ t \notin pending
  /\ step' = [step EXCEPT ![c] = "reserved"]
  /\ pending' = pending \cup {t}
  /\ UNCHANGED <<poolVars, tasks, state, proc, settling, restarting, exits>>

(* Mutation: only h.tasks is looked at.                                    *)
Reserve_NoPendingCheck(c) == LET t == TaskOf[c] IN
  /\ MayReserve(c) /\ tasks[t] = NoTask
  /\ step' = [step EXCEPT ![c] = "reserved"]
  /\ pending' = pending \cup {t}
  /\ UNCHANGED <<poolVars, tasks, state, proc, settling, restarting, exits>>

Reserve(c) == LET t == TaskOf[c] IN
  /\ MayReserve(c)
  /\ IF tasks[t] # NoTask \/ t \in pending
     THEN /\ step' = [step EXCEPT ![c] = "refused"]
          /\ UNCHANGED pending
     ELSE /\ step' = [step EXCEPT ![c] = "reserved"]
          /\ pending' = pending \cup {t}
  /\ UNCHANGED <<poolVars, tasks, state, proc, settling, restarting, exits>>

(* Mutation: the reservation is dropped once the pool has the request.     *)
AskPool_DropsPending(c) ==
  /\ step[c] = "reserved"
  /\ Acquire(c)
  /\ step' = [step EXCEPT ![c] = "asked"]
  /\ pending' = pending \ {TaskOf[c]}
  /\ UNCHANGED <<tasks, state, proc, settling, restarting, exits>>

AskPool(c) ==
  /\ step[c] = "reserved"
  /\ Acquire(c)
  /\ step' = [step EXCEPT ![c] = "asked"]
  /\ UNCHANGED <<pending, tasks, state, proc, settling, restarting, exits>>

(* startFn, first half: from pending to tasks in one section of h.mu.      *)
Register(c) ==
  /\ phase[c] = "starting" /\ state[c] = "none"
  /\ pending' = pending \ {TaskOf[c]}
  /\ tasks' = [tasks EXCEPT ![TaskOf[c]] = c]
  /\ state' = [state EXCEPT ![c] = "active"]
  /\ UNCHANGED <<poolVars, step, proc, settling, restarting, exits>>

(* startFn, second half: handler.Start.  On an error both maps are cleared *)
(* of the ID.                                                              *)
Launch(c) ==
  /\ state[c] # "none"
  /\ StartOK(c)
  /\ proc' = proc \cup {c}
  /\ UNCHANGED <<pending, tasks, step, state, settling, restarting, exits>>

LaunchFail(c) ==
  /\ state[c] # "none"
  /\ StartFail(c)
  /\ pending' = pending \ {TaskOf[c]}
  /\ tasks' = [tasks EXCEPT ![TaskOf[c]] = NoTask]
  /\ UNCHANGED <<step, state, proc, settling, restarting, exits>>

AbortStart(c) == Rollback(c) /\ UNCHANGED hubVars

(* cancelFn drops the reservation of the ID, whoever holds it by now.      *)
Cancel(c) ==
  /\ RunCancelFn(c)
  /\ pending' = pending \ {TaskOf[c]}
  /\ UNCHANGED <<tasks, step, state, proc, settling, restarting, exits>>
-----------------------------------------------------------------------------
(* onWorkerExited releases a slot at every exit, of a first process or of   *)
(* a restarted one; then the registered Task decides under task.mu.        *)

(* The cancelFn of the expired items that a Release comes across.          *)
DropExpired ==
  pending' = pending \ {TaskOf[x] : x \in {y \in Calls : /\ phase[y] = "queued"
                                                         /\ phase'[y] = "cancelled"}}

ProcExit(c) ==
  /\ c \in proc
  /\ proc' = proc \ {c}
  /\ settling' = settling \cup {c}
  /\ Release(TaskOf[c], [phase EXCEPT ![c] = "ended"])
  /\ DropExpired
  /\ UNCHANGED <<stopping, asked, tasks, step, state, restarting, exits>>

(* How many of the earlier exits of d are left when those older than the    *)
(* ErrorWindow have been pruned: the window may end anywhere.              *)
Kept(d) == IF d \in WindowedCalls THEN 0..exits[d] ELSE {exits[d]}

(* Mutation: one exit more than the threshold is tolerated.                *)
Settle_OffByOne(c) == LET d == tasks[TaskOf[c]] IN
  /\ c \in settling
  /\ settling' = settling \ {c}
  /\ IF d = NoTask \/ d \notin RetryCalls \/ (d # NoTask /\ state[d] = "stopped")
     THEN UNCHANGED <<state, restarting, exits>>
     ELSE \E n \in Kept(d) :
          /\ exits' = [exits EXCEPT ![d] = n + 1]
          /\ IF n + 1 > ErrorThreshold
             THEN state' = [state EXCEPT ![d] = "errored"] /\ UNCHANGED restarting
             ELSE restarting' = restarting \cup {d} /\ UNCHANGED state
  /\ UNCHANGED <<poolVars, pending, tasks, step, proc>>

Settle(c) == LET d == tasks[TaskOf[c]] IN
  /\ c \in settling
  /\ settling' = settling \ {c}
  /\ IF d = NoTask \/ d \notin RetryCalls \/ (d # NoTask /\ state[d] = "stopped")
     THEN UNCHANGED <<state, restarting, exits>>
     ELSE \E n \in Kept(d) :
          /\ exits' = [exits EXCEPT ![d] = n + 1]
          /\ IF n + 1 >= ErrorThreshold
             THEN state' = [state EXCEPT ![d] = "errored"] /\ UNCHANGED restarting
             ELSE restarting' = restarting \cup {d} /\ UNCHANGED state
  /\ UNCHANGED <<poolVars, pending, tasks, step, proc>>

(* Mutation: the state is not looked at again after the delay.             *)
DoRestart_NoStateCheck(d) ==
  /\ d \in restarting
  /\ restarting' = restarting \ {d}
  /\ proc' \in {proc, proc \cup {d}}
  /\ UNCHANGED <<poolVars, pending, tasks, step, state, settling, exits>>

(* doRestart: the process is launched again, past the pool; it may fail.   *)
DoRestart(d) ==
  /\ d \in restarting
  /\ restarting' = restarting \ {d}
  /\ \/ state[d] = "active" /\ proc' = proc \cup {d}
     \/ UNCHANGED proc
  /\ UNCHANGED <<poolVars, pending, tasks, step, state, settling, exits>>

(* Mutation: a stopped Task is reset as well.                              *)
Reset_AnyState(t) == LET d == tasks[t] IN
  /\ d # NoTask /\ state[d] # "active"
  /\ state' = [state EXCEPT ![d] = "active"]
  /\ exits' = [exits EXCEPT ![d] = 0]
  /\ proc' \in {proc, proc \cup {d}}
  /\ UNCHANGED <<poolVars, pending, tasks, step, settling, restarting>>

(* handleReset: also past the pool; the Task is active even if it fails.   *)
Reset(t) == LET d == tasks[t] IN
  /\ d # NoTask /\ state[d] = "errored"
  /\ state' = [state EXCEPT ![d] = "active"]
  /\ exits' = [exits EXCEPT ![d] = 0]
  /\ proc' \in {proc, proc \cup {d}}
  /\ UNCHANGED <<poolVars, pending, tasks, step, settling, restarting>>
-----------------------------------------------------------------------------
(* handleStop: a queued item is dequeued, else the registered Task stops.  *)
(* stopWorker, called by the stop loop of set_pool, does the second half.   *)

StopQueued(t) == Dequeue(t) /\ UNCHANGED hubVars

MarkStopped(t) == state' = [c \in Calls |-> IF c = tasks[t] THEN "stopped" ELSE state[c]]

StopTask(t) ==
  /\ \A c \in Queued(queues) : TaskOf[c] # t
  /\ tasks[t] # NoTask
  /\ MarkStopped(t)
  /\ UNCHANGED <<poolVars, pending, tasks, step, proc, settling, restarting, exits>>

StopOverLimit(c) ==
  /\ StopExcess(c)
  /\ IF c \in stoppable THEN MarkStopped(TaskOf[c]) ELSE UNCHANGED state
  /\ DropExpired
  /\ UNCHANGED <<tasks, step, proc, settling, restarting, exits>>

(* What the hub passes through to the pool.                                *)
PassThrough ==
  /\ \/ \E c \in Calls : Age(c)
     \/ \E a \in Actions : Expire(a)
     \/ \E s \in Scopes : PurgeQueue(s)
     \/ \E s \in Scopes, l \in NewLimits, n \in NewSizes : SetLimits(s, l, n)
     \/ DrainAll
  /\ UNCHANGED hubVars

HubNext ==
  \/ \E c \in Calls : \/ Scan(c) \/ Reserve(c) \/ AskPool(c) \/ Register(c) \/ Launch(c)
                      \/ LaunchFail(c) \/ AbortStart(c) \/ Cancel(c)
                      \/ ProcExit(c) \/ Settle(c) \/ DoRestart(c) \/ StopOverLimit(c)
  \/ \E t \in TaskIds : StopQueued(t) \/ StopTask(t) \/ Reset(t)
  \/ PassThrough

HubSpec == HubInit /\ [][HubNext]_allVars
-----------------------------------------------------------------------------
(* Properties.                                                             *)

(* A task ID has one process at a time, whatever requests, restarts and     *)
(* resets there were for it (the reason for h.pending).                    *)
OneProcess == \A c, d \in proc : TaskOf[c] = TaskOf[d] => c = d

(* A live process belongs to the Task registered under its ID, so that     *)
(* stop, list and the retry policy reach it.                               *)
Reachable == \A c \in proc : tasks[TaskOf[c]] = c

(* From its reservation to its registration a request keeps its ID in       *)
(* h.pending, and no second request is in that stretch for the same ID.    *)
Reserving(c) == \/ step[c] = "reserved"
                \/ phase[c] = "queued"
                \/ phase[c] = "starting" /\ state[c] = "none"
ReservationHeld ==
  /\ \A c \in Calls : Reserving(c) => TaskOf[c] \in pending
  /\ \A c, d \in Calls : Reserving(c) /\ Reserving(d) /\ TaskOf[c] = TaskOf[d] => c = d

(* A Task that was stopped and has no process never gets one again: a stop *)
(* defeats a restart that is already scheduled, and a start in the queue.  *)
StoppedStaysDown ==
  [][\A c \in Calls : state[c] = "stopped" /\ c \notin proc /\ phase[c] # "starting"
                      => c \notin proc']_allVars

(* The hub keeps its side of the pool's contract: it asks for a slot only  *)
(* when no live request in the pool has the same task ID.                  *)
RequestsOwned ==
  [][\A c \in Calls : phase[c] = "idle" /\ phase'[c] # "idle" => Owned(c)]_allVars

(* What it comes to for a task ID: the hub implements TaskLife.             *)
LifeOf == [t \in TaskIds |-> IF tasks[t] # NoTask THEN state[tasks[t]]
                             ELSE IF t \in pending THEN "reserved" ELSE "free"]
ProcessOf == [t \in TaskIds |-> LET c == tasks[t] IN
                CASE c = NoTask -> "down"
                  [] c # NoTask /\ phase[c] = "starting" -> "first"
                  [] c \in proc -> "up"
                  [] c \in settling \cup restarting -> "over"
                  [] OTHER -> "down"]

Life == INSTANCE TaskLife WITH Ids <- TaskIds, life <- LifeOf, process <- ProcessOf

(* Every step of the hub is one of the life of a task ID, or none: two      *)
(* requests, a restart, a reset and a stop that race for an ID never take   *)
(* it twice, launch twice for one exit, or bring back a stopped task, and   *)
(* an ID is free again only if its first launch failed.                    *)
ImplementsTaskLife == Life!TaskLifeSpec
=============================================================================
