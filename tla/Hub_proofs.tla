------------------------------ MODULE Hub_proofs ------------------------------
(* Theorems about Hub: one Task and one process per task ID, for any        *)
(* number of requests, retries, stops, resets and set_pool requests, as    *)
(* long as a start that fails is the only request for its ID.  (Two        *)
(* requests for the ID of a failed start break it: see the run             *)
(* hub_duplicate.)                                                         *)
EXTENDS Hub, PoolManager_proofs
-----------------------------------------------------------------------------
(* What the steps of the pool do to the phases.                            *)

(* Only queued calls are moved by what others do.                          *)
LEMMA ReleaseMoves ==
  ASSUME PoolInv, NEW t, NEW ph, Release(t, ph), NEW x \in Calls
  PROVE  \/ phase'[x] = ph[x]
         \/ phase[x] = "queued" /\ phase'[x] \in {"starting", "cancelled"}
<1>1. x \in Queued(queues) => phase[x] = "queued"
  BY DEF Queued, PoolInv, QueuesSound
<1>2. CASE ReleaseAndAdmit(t, ph)
  <2>1. PICK a \in Actions : \E i \in Fresh(a), S \in Passed(a) : Admit(t, ph, a, i, S)
    BY <1>2 DEF ReleaseAndAdmit
  <2>2. PICK i \in Fresh(a), S \in Passed(a) : Admit(t, ph, a, i, S)
    BY <2>1
  <2>3. queues[a][i] \in Queued(queues)
    BY DEF Queued, ToSet, Fresh
  <2>. QED  BY <1>1, <2>2, <2>3 DEF Admit
<1>3. CASE ReleaseOnly(t, ph)
  BY <1>1, <1>3 DEF ReleaseOnly
<1>. QED  BY <1>2, <1>3 DEF Release

LEMMA TakeOffMoves ==
  ASSUME PoolInv, NEW Q, TakeOff(Q), NEW x \in Calls
  PROVE  \/ phase'[x] = phase[x]
         \/ phase[x] = "queued" /\ phase'[x] = "cancelling"
<1>1. x \in Queued(queues) => phase[x] = "queued"
  BY DEF Queued, PoolInv, QueuesSound
<1>. QED  BY <1>1 DEF TakeOff

LEMMA AcquireMoves ==
  ASSUME PoolInv, NEW c \in Calls, Acquire(c)
  PROVE  /\ phase[c] = "idle" /\ phase'[c] \in {"starting", "queued", "rejected"}
         /\ \A x \in Calls \ {c} : \/ phase'[x] = phase[x]
                                   \/ phase[x] = "queued" /\ phase'[x] = "cancelling"
<1>1. phase \in [Calls -> Phases]
  BY DEF PoolInv, TypeOK
<1>2. CASE AcquireRun(c) \/ AcquireQueue(c) \/ AcquireReject(c)
  BY <1>1, <1>2 DEF AcquireRun, AcquireQueue, AcquireReject, NoRoom
<1>3. CASE AcquireDisplace(c)
  <2>1. PICK b \in DisplaceFrom(c) : \E i \in DOMAIN queues[b] : Displace(c, b, i)
    BY <1>3 DEF AcquireDisplace
  <2>2. PICK i \in DOMAIN queues[b] : Displace(c, b, i)
    BY <2>1
  <2>3. b \in Actions
    BY PoolAssumption DEF DisplaceFrom
  <2>4. phase[queues[b][i]] = "queued"
    BY <2>3 DEF PoolInv, QueuesSound, ToSet
  <2>5. phase[c] = "idle"
    BY <1>3 DEF AcquireDisplace, NoRoom
  <2>. QED  BY <1>1, <2>2, <2>4, <2>5 DEF Displace
<1>. QED  BY <1>2, <1>3 DEF Acquire
-----------------------------------------------------------------------------
(* The inductive invariant.                                                *)

(* A request lays claim to its ID from its reservation until its Task is    *)
(* registered or its cancelFn has run.                                     *)
Claims(c) == \/ step[c] = "reserved"
             \/ phase[c] = "queued"
             \/ phase[c] \in {"starting", "cancelling"} /\ state[c] = "none"

Failing(c) == c \in FailingCalls /\ phase[c] \in {"aborting", "failed", "cancelling", "cancelled"}

(* One claim per ID, held in h.pending while h.tasks has nothing; then one  *)
(* Task in h.tasks, for good unless its start failed.                      *)
Registered ==
  /\ \A c \in Calls : phase[c] = "idle" <=> step[c] # "asked"
  /\ \A c \in Calls : Claims(c) => TaskOf[c] \in pending /\ tasks[TaskOf[c]] = NoTask
  /\ \A c, d \in Calls : Claims(c) /\ Claims(d) /\ TaskOf[c] = TaskOf[d] => c = d
  /\ \A c \in Calls : state[c] # "none" =>
        \/ phase[c] \in {"starting", "up", "ended"} /\ tasks[TaskOf[c]] = c
        \/ Failing(c)
  /\ \A c \in Calls : phase[c] \in {"aborting", "up", "ended"} => state[c] # "none"
  /\ \A t \in TaskIds : tasks[t] # NoTask => /\ state[tasks[t]] # "none"
                                             /\ TaskOf[tasks[t]] = t

(* A Task has a process, or an exit to settle, or a restart under way, or   *)
(* none of these; an errored one has none, and exitHistory reaches the     *)
(* threshold only with the end of the retries.                             *)
OneAtATime ==
  /\ \A c \in proc \cup settling \cup restarting : phase[c] \in {"up", "ended"}
  /\ proc \cap settling = {} /\ proc \cap restarting = {} /\ settling \cap restarting = {}
  /\ \A c \in Calls : state[c] = "errored" =>
        phase[c] \in {"up", "ended"} /\ c \notin proc \cup settling \cup restarting
  /\ \A c \in Calls : exits[c] = ErrorThreshold => state[c] \in {"errored", "stopped"}

HubInv == PoolInv /\ HubTypeOK /\ Registered /\ OneAtATime

(* A start that fails is the only request for its ID.                      *)
FailuresAlone ==
  \A c \in Calls \cap FailingCalls, d \in Calls : TaskOf[c] = TaskOf[d] => c = d

LEMMA HubInitInv == HubInit => HubInv
<1>. SUFFICES ASSUME HubInit PROVE HubInv
  OBVIOUS
<1>1. PoolInv /\ \A c \in Calls : phase[c] = "idle"
  BY InitInv DEF HubInit, Init
<1>2. HubTypeOK
  BY HubAssumption DEF HubInit, HubTypeOK
<1>3. Registered
  BY <1>1 DEF HubInit, Registered, Claims
<1>4. OneAtATime
  BY <1>1, HubAssumption DEF HubInit, OneAtATime
<1>. QED  BY <1>1, <1>2, <1>3, <1>4 DEF HubInv

(* The hub owns its IDs: a claim excludes every other live call.           *)
LEMMA ReservedIsOwned ==
  ASSUME HubInv, FailuresAlone, NEW c \in Calls, step[c] = "reserved"
  PROVE  Owned(c)
<1>1. Claims(c) /\ tasks[TaskOf[c]] = NoTask
  BY DEF HubInv, Registered, Claims
<1>2. ASSUME NEW d \in Calls \ {c}, TaskOf[d] = TaskOf[c], Live(d)
      PROVE  FALSE
  <2>1. ~Claims(d)
    BY <1>1, <1>2 DEF HubInv, Registered
  <2>2. CASE state[d] = "none"
    BY <1>2, <2>1, <2>2 DEF Live, Claims, HubInv, Registered
  <2>3. CASE state[d] # "none"
    <3>1. tasks[TaskOf[d]] = d \/ d \in FailingCalls
      BY <2>3 DEF HubInv, Registered, Failing
    <3>. QED  BY <1>1, <1>2, <3>1, HubAssumption DEF FailuresAlone
  <2>. QED  BY <2>2, <2>3
<1>. QED  BY <1>2 DEF Owned
-----------------------------------------------------------------------------
(* Steps that register nothing: queued calls may be started or cancelled    *)
(* (their IDs then leave h.pending, no others do), and exits reported.     *)
LEMMA RegisteredUndisturbed ==
  ASSUME Registered, HubTypeOK, UNCHANGED <<tasks, step>>, pending' \subseteq pending,
         \A x \in Calls : state'[x] = "none" <=> state[x] = "none",
         \A x \in Calls : \/ phase'[x] = phase[x]
                          \/ phase[x] = "queued" /\ phase'[x] \in {"starting", "cancelling", "cancelled"}
                          \/ phase[x] \in {"up", "ended"} /\ phase'[x] = "ended",
         \A x \in Calls : TaskOf[x] \in pending /\ TaskOf[x] \notin pending' =>
            \E y \in Calls : /\ TaskOf[y] = TaskOf[x]
                             /\ phase[y] = "queued" /\ phase'[y] = "cancelled"
  PROVE  Registered'
<1>1. \A c \in Calls : phase'[c] = "idle" <=> step'[c] # "asked"
  BY DEF Registered
<1>2. \A c \in Calls : phase[c] = "queued" => state[c] = "none"
  BY DEF Registered, Failing
<1>3. \A c \in Calls : Claims(c)' => Claims(c)
  BY DEF Claims
<1>4. ASSUME NEW c \in Calls, Claims(c)'
      PROVE  TaskOf[c] \in pending' /\ tasks'[TaskOf[c]] = NoTask
  <2>1. TaskOf[c] \in pending /\ tasks[TaskOf[c]] = NoTask
    BY <1>3, <1>4 DEF Registered
  <2>2. ASSUME TaskOf[c] \notin pending' PROVE FALSE
    <3>1. PICK y \in Calls : /\ TaskOf[y] = TaskOf[c]
                             /\ phase[y] = "queued" /\ phase'[y] = "cancelled"
      BY <2>1, <2>2
    <3>2. y = c
      BY <1>3, <1>4, <3>1 DEF Registered, Claims
    <3>3. step'[c] # "reserved"
      BY <1>1, <3>1, <3>2
    <3>. QED  BY <1>4, <3>1, <3>2, <3>3 DEF Claims
  <2>. QED  BY <2>1, <2>2
<1>5. \A c, d \in Calls : Claims(c)' /\ Claims(d)' /\ TaskOf[c] = TaskOf[d] => c = d
  BY <1>3 DEF Registered
<1>6. \A c \in Calls : state'[c] # "none" =>
        \/ phase'[c] \in {"starting", "up", "ended"} /\ tasks'[TaskOf[c]] = c
        \/ Failing(c)'
  BY <1>2 DEF Registered, Failing
<1>7. \A c \in Calls : phase'[c] \in {"aborting", "up", "ended"} => state'[c] # "none"
  BY DEF Registered
<1>8. \A t \in TaskIds : tasks'[t] # NoTask => /\ state'[tasks'[t]] # "none"
                                               /\ TaskOf[tasks'[t]] = t
  BY DEF Registered, HubTypeOK
<1>. QED  BY <1>1, <1>4, <1>5, <1>6, <1>7, <1>8 DEF Registered

(* Steps that leave processes, exits and restarts alone.                   *)
LEMMA OneAtATimeUndisturbed ==
  ASSUME OneAtATime, UNCHANGED <<proc, settling, restarting, exits>>,
         \A x \in Calls : phase[x] \in {"up", "ended"} => phase'[x] = phase[x],
         \A x \in Calls : \/ state'[x] = state[x] \/ state'[x] = "stopped"
                          \/ state[x] = "none" /\ state'[x] = "active",
         proc \cup settling \cup restarting \subseteq Calls
  PROVE  OneAtATime'
BY DEF OneAtATime
-----------------------------------------------------------------------------
(* The pool keeps its invariant under the hub.  A restarted process has no  *)
(* entry, and its exit finds none of its ID: release admits all the same.  *)
LEMMA LaterExitKeepsPool ==
  ASSUME HubInv, NEW c \in Calls, phase[c] = "ended",
         Release(TaskOf[c], [phase EXCEPT ![c] = "ended"]), UNCHANGED <<stopping, asked>>
  PROVE  PoolInv' /\ CancelKept
<1>1. TypeOK /\ phase \in [Calls -> Phases] /\ PoolInv
  BY DEF HubInv, PoolInv, TypeOK
<1>2. [phase EXCEPT ![c] = "ended"] = phase
  BY <1>1
<1>3. Release(TaskOf[c], phase)
  BY <1>2
<1>4. QueuesSound' /\ NoSlotLeak' /\ NoneRevived /\ CancelKept
  BY <1>1, <1>3, ReleaseSound
<1>5. OneCallPerTask'
  BY <1>1, <1>4, OneCallKept DEF PoolInv
<1>6. /\ running' \subseteq Calls /\ phase' \in [Calls -> Phases]
      /\ queues' \in [Actions -> Seq(Calls)]
  BY <1>1, <1>3, ReleaseType
<1>7. TypeOK'
  BY <1>1, <1>3, <1>6 DEF Release, TypeOK
<1>. QED  BY <1>4, <1>5, <1>7 DEF PoolInv

LEMMA PoolKept ==
  ASSUME HubInv, FailuresAlone, [HubNext]_allVars
  PROVE  PoolInv' /\ CancelKept
<1>1. PoolInv
  BY DEF HubInv
<1>2. ASSUME [Next]_poolVars PROVE PoolInv' /\ CancelKept
  BY <1>1, <1>2, NextInv
<1>3. ASSUME UNCHANGED poolVars PROVE PoolInv' /\ CancelKept
  BY <1>2, <1>3
<1>4. CASE UNCHANGED allVars
  BY <1>3, <1>4 DEF allVars
<1>5. ASSUME NEW c \in Calls, AskPool(c) PROVE PoolInv' /\ CancelKept
  <2>1. Request(c)
    BY <1>5, ReservedIsOwned DEF AskPool, Request
  <2>. QED  BY <1>2, <2>1 DEF Next, Serve
<1>6. ASSUME NEW c \in Calls, Launch(c) \/ LaunchFail(c) \/ AbortStart(c) \/ Cancel(c)
      PROVE  PoolInv' /\ CancelKept
  <2>1. StartOK(c) \/ StartFail(c) \/ Rollback(c) \/ RunCancelFn(c)
    BY <1>6 DEF Launch, LaunchFail, AbortStart, Cancel
  <2>. QED  BY <1>2, <2>1 DEF Next, Serve
<1>7. ASSUME NEW c \in Calls, ProcExit(c) PROVE PoolInv' /\ CancelKept
  <2>1. phase[c] = "up" \/ phase[c] = "ended"
    BY <1>7 DEF ProcExit, HubInv, OneAtATime
  <2>2. CASE phase[c] = "up"
    <3>1. Exit(c)
      BY <1>7, <2>2 DEF ProcExit, Exit
    <3>. QED  BY <1>2, <3>1 DEF Next, Serve
  <2>3. CASE phase[c] = "ended"
    BY <1>7, <2>3, LaterExitKeepsPool DEF ProcExit
  <2>. QED  BY <2>1, <2>2, <2>3
<1>8. ASSUME NEW c \in Calls, StopOverLimit(c) PROVE PoolInv' /\ CancelKept
  BY <1>2, <1>8 DEF StopOverLimit, Next, Resize
<1>9. ASSUME NEW t \in TaskIds, StopQueued(t) PROVE PoolInv' /\ CancelKept
  <2>1. PICK c \in Calls : t = TaskOf[c]
    BY DEF TaskIds
  <2>. QED  BY <1>2, <1>9, <2>1 DEF StopQueued, Next, Serve
<1>10. CASE PassThrough
  BY <1>2, <1>10 DEF PassThrough, Next, Serve, Resize
<1>11. ASSUME NEW c \in Calls, Scan(c) \/ Reserve(c) \/ Register(c) \/ Settle(c) \/ DoRestart(c)
       PROVE  PoolInv' /\ CancelKept
  BY <1>3, <1>11 DEF Scan, Reserve, Register, Settle, DoRestart
<1>12. ASSUME NEW t \in TaskIds, StopTask(t) \/ Reset(t) PROVE PoolInv' /\ CancelKept
  BY <1>3, <1>12 DEF StopTask, Reset
<1>. QED  BY <1>4, <1>5, <1>6, <1>7, <1>8, <1>9, <1>10, <1>11, <1>12 DEF HubNext
-----------------------------------------------------------------------------
(* The task an exit is settled for is the one whose process exited.        *)
LEMMA OwnTask ==
  ASSUME HubInv, NEW c \in Calls, phase[c] \in {"up", "ended"}
  PROVE  tasks[TaskOf[c]] = c /\ state[c] # "none"
BY DEF HubInv, Registered, Failing

LEMMA TypeKept ==
  ASSUME HubInv, [HubNext]_allVars
  PROVE  HubTypeOK'
<1>. USE DEF HubTypeOK
<1>1. HubTypeOK /\ ErrorThreshold \in Nat \ {0}
  BY HubAssumption DEF HubInv
<1>2. CASE UNCHANGED hubVars
  BY <1>1, <1>2 DEF hubVars
<1>3. CASE UNCHANGED allVars \/ PassThrough \/ (\E t \in TaskIds : StopQueued(t))
           \/ (\E c \in Calls : AbortStart(c))
  BY <1>2, <1>3 DEF allVars, PassThrough, StopQueued, AbortStart
<1>4. ASSUME NEW c \in Calls,
             Scan(c) \/ Reserve(c) \/ AskPool(c) \/ Register(c) \/ Launch(c)
             \/ LaunchFail(c) \/ Cancel(c) \/ ProcExit(c) \/ DoRestart(c)
      PROVE  HubTypeOK'
  <2>1. TaskOf[c] \in TaskIds
    BY DEF TaskIds
  <2>2. CASE Scan(c) \/ Reserve(c) \/ AskPool(c)
    BY <1>1, <2>1, <2>2 DEF Scan, Reserve, AskPool
  <2>3. CASE Register(c) \/ Launch(c) \/ LaunchFail(c)
    BY <1>1, <2>1, <2>3 DEF Register, Launch, LaunchFail
  <2>4. CASE Cancel(c) \/ ProcExit(c) \/ DoRestart(c)
    BY <1>1, <2>4 DEF Cancel, ProcExit, DropExpired, DoRestart
  <2>. QED  BY <1>4, <2>2, <2>3, <2>4
<1>5. ASSUME NEW c \in Calls, Settle(c) PROVE HubTypeOK'
  <2>1. tasks[TaskOf[c]] = c /\ state[c] \notin {"none", "errored"}
    <3>1. c \in settling
      BY <1>5 DEF Settle
    <3>. QED  BY <3>1, OwnTask DEF HubInv, OneAtATime
  <2>2. CASE state[c] = "stopped" \/ c \notin RetryCalls
    <3>1. UNCHANGED <<pending, tasks, step, state, proc, restarting, exits>>
          /\ settling' \subseteq settling
      BY <1>5, <2>1, <2>2 DEF Settle
    <3>. QED  BY <1>1, <3>1
  <2>3. CASE state[c] # "stopped" /\ c \in RetryCalls
    <3>1. c # NoTask
      BY HubAssumption
    <3>2. PICK n \in Kept(c) :
             /\ exits' = [exits EXCEPT ![c] = n + 1]
             /\ \/ state' = [state EXCEPT ![c] = "errored"] /\ UNCHANGED restarting
                \/ restarting' = restarting \cup {c} /\ UNCHANGED state
      BY <1>5, <2>1, <2>3, <3>1 DEF Settle
    <3>3. exits[c] \in 0..ErrorThreshold /\ exits[c] # ErrorThreshold
      BY <1>1, <2>1, <2>3 DEF HubInv, OneAtATime
    <3>4. n + 1 \in 0..ErrorThreshold
      BY <1>1, <3>3 DEF Kept
    <3>5. UNCHANGED <<pending, tasks, step, proc>> /\ settling' \subseteq settling
      BY <1>5 DEF Settle
    <3>. QED  BY <1>1, <3>2, <3>4, <3>5
  <2>. QED  BY <2>2, <2>3
<1>6. ASSUME NEW t \in TaskIds, StopTask(t) PROVE HubTypeOK'
  BY <1>1, <1>6 DEF StopTask, MarkStopped
<1>7. ASSUME NEW c \in Calls, StopOverLimit(c) PROVE HubTypeOK'
  BY <1>1, <1>7 DEF StopOverLimit, MarkStopped, DropExpired
<1>8. ASSUME NEW t \in TaskIds, Reset(t) PROVE HubTypeOK'
  <2>1. tasks[t] \in Calls /\ 0 \in 0..ErrorThreshold
    BY <1>1, <1>8 DEF Reset
  <2>. QED  BY <1>1, <1>8, <2>1 DEF Reset
<1>. QED  BY <1>3, <1>4, <1>5, <1>6, <1>7, <1>8 DEF HubNext
-----------------------------------------------------------------------------
(* Registration, one lemma per kind of step.                               *)

(* What clients and clocks take off the queues, and stops.                 *)
LEMMA QueueStepRegisters ==
  ASSUME HubInv, PassThrough \/ \E t \in TaskIds : StopQueued(t)
  PROVE  Registered'
<1>1. Registered /\ HubTypeOK /\ PoolInv
  BY DEF HubInv
<1>2. UNCHANGED hubVars
  BY DEF PassThrough, StopQueued
<1>3. \A x \in Calls : \/ phase'[x] = phase[x]
                       \/ phase[x] = "queued" /\ phase'[x] = "cancelling"
  <2>1. CASE \E Q : TakeOff(Q)
    BY <1>1, <2>1, TakeOffMoves
  <2>2. CASE UNCHANGED phase
    BY <2>2
  <2>. QED
    BY <2>1, <2>2
       DEF PassThrough, StopQueued, Dequeue, Expire, PurgeQueue, DrainAll, Age, SetLimits
<1>. QED  BY <1>1, <1>2, <1>3, RegisteredUndisturbed DEF hubVars

(* A stop marks a registered Task only.                                    *)
LEMMA StopMarksRegistered ==
  ASSUME HubInv, NEW t \in TaskIds, MarkStopped(t)
  PROVE  \A x \in Calls : /\ state'[x] = "none" <=> state[x] = "none"
                          /\ state'[x] = state[x] \/ state'[x] = "stopped"
<1>1. \A x \in Calls : x = tasks[t] => state[x] # "none"
  BY HubAssumption DEF HubInv, Registered
<1>. QED  BY <1>1 DEF MarkStopped

(* Stops, exits and what the retry policy makes of them.                   *)
LEMMA TaskStepRegisters ==
  ASSUME HubInv,
         \/ \E c \in Calls : Settle(c) \/ DoRestart(c)
         \/ \E t \in TaskIds : StopTask(t) \/ Reset(t)
  PROVE  Registered'
<1>1. Registered /\ HubTypeOK
  BY DEF HubInv
<1>2. UNCHANGED <<phase, tasks, step, pending>>
  BY DEF Settle, DoRestart, StopTask, Reset, poolVars
<1>3. \A x \in Calls : state'[x] = "none" <=> state[x] = "none"
  <2>1. ASSUME NEW c \in Calls, Settle(c)
        PROVE  \A x \in Calls : state'[x] = "none" <=> state[x] = "none"
    <3>1. tasks[TaskOf[c]] = c /\ state[c] # "none"
      <4>1. c \in settling
        BY <2>1 DEF Settle
      <4>. QED  BY <4>1, OwnTask DEF HubInv, OneAtATime
    <3>2. state' = state \/ state' = [state EXCEPT ![c] = "errored"]
      BY <2>1, <3>1 DEF Settle
    <3>. QED  BY <1>1, <3>1, <3>2 DEF HubTypeOK
  <2>2. ASSUME NEW t \in TaskIds, Reset(t)
        PROVE  \A x \in Calls : state'[x] = "none" <=> state[x] = "none"
    BY <1>1, <2>2 DEF Reset, HubTypeOK
  <2>3. ASSUME NEW t \in TaskIds, StopTask(t)
        PROVE  \A x \in Calls : state'[x] = "none" <=> state[x] = "none"
    BY <2>3, StopMarksRegistered DEF StopTask
  <2>4. ASSUME NEW c \in Calls, DoRestart(c)
        PROVE  \A x \in Calls : state'[x] = "none" <=> state[x] = "none"
    BY <2>4 DEF DoRestart
  <2>. QED  BY <2>1, <2>2, <2>3, <2>4
<1>. QED  BY <1>1, <1>2, <1>3, RegisteredUndisturbed

(* A release, by an exit or by the stop loop of set_pool: the IDs of the    *)
(* expired items it comes across leave h.pending.                          *)
LEMMA ReleaseRegisters ==
  ASSUME HubInv, NEW c \in Calls, ProcExit(c) \/ StopOverLimit(c)
  PROVE  Registered'
<1>1. Registered /\ HubTypeOK /\ PoolInv /\ phase \in [Calls -> Phases]
  BY DEF HubInv, PoolInv, TypeOK
<1>2. /\ UNCHANGED <<tasks, step>> /\ DropExpired
  BY DEF ProcExit, StopOverLimit
<1>3. /\ pending' \subseteq pending
      /\ \A x \in Calls : TaskOf[x] \in pending /\ TaskOf[x] \notin pending' =>
            \E y \in Calls : /\ TaskOf[y] = TaskOf[x]
                             /\ phase[y] = "queued" /\ phase'[y] = "cancelled"
  BY <1>2 DEF DropExpired
<1>4. \A x \in Calls :
         \/ phase'[x] = phase[x]
         \/ phase[x] = "queued" /\ phase'[x] \in {"starting", "cancelling", "cancelled"}
         \/ phase[x] \in {"up", "ended"} /\ phase'[x] = "ended"
  <2>1. CASE ProcExit(c)
    <3>. DEFINE ph == [phase EXCEPT ![c] = "ended"]
    <3>1. Release(TaskOf[c], ph) /\ phase[c] \in {"up", "ended"}
      BY <2>1 DEF ProcExit, HubInv, OneAtATime
    <3>2. \A x \in Calls : ph[x] = IF x = c THEN "ended" ELSE phase[x]
      BY <1>1
    <3>. HIDE DEF ph
    <3>3. \A x \in Calls : \/ phase'[x] = ph[x]
                           \/ phase[x] = "queued" /\ phase'[x] \in {"starting", "cancelled"}
      BY <1>1, <3>1, ReleaseMoves
    <3>. QED  BY <3>1, <3>2, <3>3
  <2>2. CASE StopOverLimit(c)
    <3>1. Release(TaskOf[c], phase)
      BY <2>2 DEF StopOverLimit, StopExcess
    <3>. QED  BY <1>1, <3>1, ReleaseMoves
  <2>. QED  BY <2>1, <2>2
<1>5. \A x \in Calls : state'[x] = "none" <=> state[x] = "none"
  <2>1. TaskOf[c] \in TaskIds
    BY DEF TaskIds
  <2>. QED  BY <2>1, StopMarksRegistered DEF ProcExit, StopOverLimit
<1>. QED  BY <1>1, <1>2, <1>3, <1>4, <1>5, RegisteredUndisturbed

(* A request up to the answer of the pool.                                 *)
LEMMA RequestRegisters ==
  ASSUME HubInv, NEW c \in Calls, Scan(c) \/ Reserve(c) \/ AskPool(c)
  PROVE  Registered'
<1>1. Registered /\ HubTypeOK /\ PoolInv
  BY DEF HubInv
<1>2. TaskOf[c] \in TaskIds
  BY DEF TaskIds
<1>3. ASSUME step[c] \in {"new", "scanned"}, UNCHANGED <<phase, tasks, state>>,
             \/ pending' = pending /\ step'[c] \in {"scanned", "refused"}
             \/ /\ pending' = pending \cup {TaskOf[c]} /\ step'[c] = "reserved"
                /\ TaskOf[c] \notin pending /\ tasks[TaskOf[c]] = NoTask,
             \A x \in Calls : x # c => step'[x] = step[x]
      PROVE  Registered'
  <2>1. phase[c] = "idle"
    BY <1>1, <1>3 DEF Registered
  <2>2. \A x \in Calls : x # c /\ Claims(x)' => Claims(x)
    BY <1>3 DEF Claims
  <2>3. Claims(c)' => /\ pending' = pending \cup {TaskOf[c]}
                      /\ TaskOf[c] \notin pending /\ tasks[TaskOf[c]] = NoTask
    BY <1>3, <2>1 DEF Claims
  <2>4. \A x \in Calls : Claims(x)' => TaskOf[x] \in pending' /\ tasks'[TaskOf[x]] = NoTask
    BY <1>1, <1>3, <2>2, <2>3 DEF Registered
  <2>5. \A x, y \in Calls : Claims(x)' /\ Claims(y)' /\ TaskOf[x] = TaskOf[y] => x = y
    BY <1>1, <2>2, <2>3 DEF Registered
  <2>. QED  BY <1>1, <1>3, <2>1, <2>4, <2>5 DEF Registered, Failing
<1>4. CASE Scan(c)
  BY <1>1, <1>3, <1>4 DEF Scan, HubTypeOK, poolVars
<1>5. CASE Reserve(c)
  <2>1. step[c] \in {"new", "scanned"}
    BY <1>5 DEF Reserve, MayReserve
  <2>. QED  BY <1>1, <1>3, <1>5, <2>1 DEF Reserve, HubTypeOK, poolVars
<1>6. CASE AskPool(c)
  <2>1. /\ phase[c] = "idle" /\ phase'[c] \in {"starting", "queued", "rejected"}
        /\ \A x \in Calls \ {c} : \/ phase'[x] = phase[x]
                                  \/ phase[x] = "queued" /\ phase'[x] = "cancelling"
    BY <1>1, <1>6, AcquireMoves DEF AskPool
  <2>2. /\ step[c] = "reserved" /\ step'[c] = "asked"
        /\ \A x \in Calls \ {c} : step'[x] = step[x]
        /\ UNCHANGED <<pending, tasks, state>>
    BY <1>1, <1>6 DEF AskPool, HubTypeOK
  <2>3. state[c] = "none" /\ \A x \in Calls : phase[x] = "queued" => state[x] = "none"
    BY <1>1, <2>1 DEF Registered, Failing
  <2>4. \A x \in Calls : Claims(x)' => Claims(x)
    BY <2>1, <2>2 DEF Claims
  <2>5. \A x \in Calls : phase'[x] = "idle" <=> step'[x] # "asked"
    BY <1>1, <2>1, <2>2 DEF Registered
  <2>6. \A x \in Calls : state'[x] # "none" =>
           x # c /\ phase[x] # "queued" /\ phase'[x] = phase[x]
    BY <2>1, <2>2, <2>3
  <2>7. \A x \in Calls : state'[x] # "none" =>
          \/ phase'[x] \in {"starting", "up", "ended"} /\ tasks'[TaskOf[x]] = x
          \/ Failing(x)'
    BY <1>1, <2>2, <2>6 DEF Registered, Failing
  <2>8. \A x \in Calls : phase'[x] \in {"aborting", "up", "ended"} => state'[x] # "none"
    BY <1>1, <2>1, <2>2 DEF Registered
  <2>. QED  BY <1>1, <2>2, <2>4, <2>5, <2>7, <2>8 DEF Registered
<1>. QED  BY <1>4, <1>5, <1>6

(* startFn and cancelFn.                                                   *)
LEMMA ClosureRegisters ==
  ASSUME HubInv, FailuresAlone, NEW c \in Calls,
         Register(c) \/ Launch(c) \/ LaunchFail(c) \/ AbortStart(c) \/ Cancel(c)
  PROVE  Registered'
<1>1. /\ Registered /\ HubTypeOK /\ phase \in [Calls -> Phases]
      /\ tasks \in [TaskIds -> Calls \cup {NoTask}] /\ NoTask \notin Calls
      /\ TaskOf[c] \in TaskIds /\ \A x \in Calls : TaskOf[x] \in TaskIds
  BY HubAssumption DEF HubInv, PoolInv, TypeOK, HubTypeOK, TaskIds
<1>2. CASE Register(c)
  <2>1. /\ phase[c] = "starting" /\ state[c] = "none" /\ UNCHANGED <<phase, step>>
        /\ pending' = pending \ {TaskOf[c]} /\ state'[c] = "active"
        /\ \A x \in Calls \ {c} : state'[x] = state[x]
        /\ \A t \in TaskIds : tasks'[t] = IF t = TaskOf[c] THEN c ELSE tasks[t]
    BY <1>1, <1>2 DEF Register, poolVars, HubTypeOK
  <2>2. Claims(c) /\ tasks[TaskOf[c]] = NoTask
    BY <1>1, <2>1 DEF Claims, Registered
  <2>3. ~Claims(c)' /\ \A x \in Calls : Claims(x)' => Claims(x) /\ x # c
    BY <1>1, <2>1 DEF Claims, Registered
  <2>4. \A x \in Calls : Claims(x)' => TaskOf[x] # TaskOf[c]
    BY <1>1, <2>2, <2>3 DEF Registered
  <2>5. \A x \in Calls : Claims(x)' => TaskOf[x] \in pending' /\ tasks'[TaskOf[x]] = NoTask
    BY <1>1, <2>1, <2>3, <2>4 DEF Registered
  <2>6. \A x \in Calls : state'[x] # "none" =>
          \/ phase'[x] \in {"starting", "up", "ended"} /\ tasks'[TaskOf[x]] = x
          \/ Failing(x)'
    BY <1>1, <2>1, <2>2 DEF Registered, Failing
  <2>7. \A t \in TaskIds : tasks'[t] # NoTask => /\ state'[tasks'[t]] # "none"
                                                 /\ TaskOf[tasks'[t]] = t
    BY <1>1, <2>1 DEF Registered
  <2>. QED  BY <1>1, <2>1, <2>3, <2>5, <2>6, <2>7 DEF Registered
<1>3. CASE Launch(c)
  <2>1. /\ phase[c] = "starting" /\ phase'[c] = "up" /\ state[c] # "none"
        /\ \A x \in Calls \ {c} : phase'[x] = phase[x]
        /\ UNCHANGED <<pending, tasks, step, state>>
    BY <1>1, <1>3 DEF Launch, StartOK
  <2>2. \A x \in Calls : Claims(x)' => Claims(x)
    BY <2>1 DEF Claims
  <2>3. \A x \in Calls : phase'[x] = "idle" <=> step'[x] # "asked"
    BY <1>1, <2>1 DEF Registered
  <2>4. \A x \in Calls : state'[x] # "none" =>
          \/ phase'[x] \in {"starting", "up", "ended"} /\ tasks'[TaskOf[x]] = x
          \/ Failing(x)'
    BY <1>1, <2>1 DEF Registered, Failing
  <2>. QED  BY <1>1, <2>1, <2>2, <2>3, <2>4 DEF Registered
<1>4. ASSUME UNCHANGED <<step, state>>, c \in FailingCalls, state[c] # "none",
             phase[c] \in {"starting", "aborting", "cancelling"},
             phase'[c] \in {"aborting", "failed", "cancelling", "cancelled"},
             \A x \in Calls \ {c} : phase'[x] = phase[x],
             pending \ {TaskOf[c]} \subseteq pending',
             tasks' = tasks \/ tasks' = [tasks EXCEPT ![TaskOf[c]] = NoTask]
      PROVE  Registered'
  <2>1. \A x \in Calls : x # c => TaskOf[x] # TaskOf[c]
    BY <1>4 DEF FailuresAlone
  <2>2. \A x \in Calls : Claims(x)' => Claims(x) /\ x # c
    BY <1>1, <1>4 DEF Claims, Registered
  <2>3. \A x \in Calls \ {c} : tasks'[TaskOf[x]] = tasks[TaskOf[x]]
    BY <1>1, <1>4, <2>1
  <2>4. \A x \in Calls : Claims(x)' => TaskOf[x] \in pending' /\ tasks'[TaskOf[x]] = NoTask
    BY <1>1, <1>4, <2>1, <2>2, <2>3 DEF Registered
  <2>5. Failing(c)'
    BY <1>4 DEF Failing
  <2>6. \A x \in Calls : state'[x] # "none" =>
          \/ phase'[x] \in {"starting", "up", "ended"} /\ tasks'[TaskOf[x]] = x
          \/ Failing(x)'
    BY <1>1, <1>4, <2>3, <2>5 DEF Registered, Failing
  <2>7. \A t \in TaskIds : tasks'[t] # NoTask => /\ state'[tasks'[t]] # "none"
                                                 /\ TaskOf[tasks'[t]] = t
    BY <1>1, <1>4 DEF Registered
  <2>8. \A x \in Calls : phase'[x] = "idle" <=> step'[x] # "asked"
    BY <1>1, <1>4 DEF Registered
  <2>9. \A x \in Calls : phase'[x] \in {"aborting", "up", "ended"} => state'[x] # "none"
    BY <1>1, <1>4 DEF Registered
  <2>. QED  BY <1>1, <2>2, <2>4, <2>6, <2>7, <2>8, <2>9 DEF Registered
<1>5. CASE LaunchFail(c)
  BY <1>1, <1>4, <1>5 DEF LaunchFail, StartFail
<1>6. CASE AbortStart(c)
  <2>1. phase[c] = "aborting" /\ UNCHANGED hubVars /\ state[c] # "none"
    BY <1>1, <1>6 DEF AbortStart, Rollback, Registered
  <2>2. c \in FailingCalls
    BY <1>1, <2>1 DEF Registered, Failing
  <2>3. /\ phase'[c] \in {"failed", "cancelling"}
        /\ \A x \in Calls \ {c} : phase'[x] = phase[x]
    BY <1>1, <1>6 DEF AbortStart, Rollback
  <2>. QED  BY <1>4, <2>1, <2>2, <2>3 DEF hubVars
<1>7. CASE Cancel(c)
  <2>1. /\ phase[c] = "cancelling" /\ phase'[c] = "cancelled"
        /\ \A x \in Calls \ {c} : phase'[x] = phase[x]
        /\ pending' = pending \ {TaskOf[c]} /\ UNCHANGED <<tasks, step, state>>
    BY <1>1, <1>7 DEF Cancel, RunCancelFn
  <2>2. CASE state[c] # "none"
    <3>1. c \in FailingCalls
      BY <1>1, <2>1, <2>2 DEF Registered, Failing
    <3>. QED  BY <1>4, <2>1, <2>2, <3>1
  <2>3. CASE state[c] = "none"
    <3>1. Claims(c)
      BY <2>1, <2>3 DEF Claims
    <3>2. \A x \in Calls : Claims(x)' => Claims(x) /\ x # c
      BY <1>1, <2>1 DEF Claims, Registered
    <3>3. \A x \in Calls : Claims(x)' => TaskOf[x] # TaskOf[c]
      BY <1>1, <3>1, <3>2 DEF Registered
    <3>4. \A x \in Calls : Claims(x)' => TaskOf[x] \in pending' /\ tasks'[TaskOf[x]] = NoTask
      BY <1>1, <2>1, <3>2, <3>3 DEF Registered
    <3>5. \A x \in Calls : state'[x] # "none" =>
            \/ phase'[x] \in {"starting", "up", "ended"} /\ tasks'[TaskOf[x]] = x
            \/ Failing(x)'
      BY <1>1, <2>1, <2>3 DEF Registered, Failing
    <3>6. \A x \in Calls : phase'[x] = "idle" <=> step'[x] # "asked"
      BY <1>1, <2>1 DEF Registered
    <3>7. \A x \in Calls : phase'[x] \in {"aborting", "up", "ended"} => state'[x] # "none"
      BY <1>1, <2>1 DEF Registered
    <3>. QED  BY <1>1, <2>1, <3>2, <3>4, <3>5, <3>6, <3>7 DEF Registered
  <2>. QED  BY <2>2, <2>3
<1>. QED  BY <1>2, <1>3, <1>5, <1>6, <1>7

LEMMA RegisteredKept ==
  ASSUME HubInv, FailuresAlone, [HubNext]_allVars
  PROVE  Registered'
<1>1. CASE UNCHANGED allVars
  BY <1>1, RegisteredUndisturbed DEF allVars, hubVars, poolVars, HubInv
<1>. QED
  BY <1>1, QueueStepRegisters, TaskStepRegisters, ReleaseRegisters, RequestRegisters,
     ClosureRegisters DEF HubNext
-----------------------------------------------------------------------------
(* Processes, exits and restarts.                                          *)
LEMMA QuietStepKeepsTokens ==
  ASSUME HubInv, NEW c \in Calls,
         \/ Scan(c) \/ Reserve(c) \/ AskPool(c) \/ Register(c) \/ LaunchFail(c)
         \/ AbortStart(c) \/ Cancel(c) \/ StopOverLimit(c)
  PROVE  OneAtATime'
<1>1. /\ OneAtATime /\ HubTypeOK /\ PoolInv /\ phase \in [Calls -> Phases]
      /\ proc \cup settling \cup restarting \subseteq Calls
  BY DEF HubInv, PoolInv, TypeOK, HubTypeOK
<1>2. UNCHANGED <<proc, settling, restarting, exits>>
  BY DEF Scan, Reserve, AskPool, Register, LaunchFail, AbortStart, Cancel, StopOverLimit, hubVars
<1>3. \A x \in Calls : phase[x] \in {"up", "ended"} => phase'[x] = phase[x]
  <2>1. CASE Scan(c) \/ Reserve(c) \/ Register(c)
    BY <2>1 DEF Scan, Reserve, Register, poolVars
  <2>2. CASE AskPool(c)
    BY <1>1, <2>2, AcquireMoves DEF AskPool
  <2>3. CASE LaunchFail(c) \/ AbortStart(c) \/ Cancel(c)
    BY <1>1, <2>3 DEF LaunchFail, StartFail, AbortStart, Rollback, Cancel, RunCancelFn
  <2>4. CASE StopOverLimit(c)
    <3>1. Release(TaskOf[c], phase)
      BY <2>4 DEF StopOverLimit, StopExcess
    <3>. QED  BY <1>1, <3>1, ReleaseMoves
  <2>. QED  BY <2>1, <2>2, <2>3, <2>4
<1>4. \A x \in Calls : \/ state'[x] = state[x] \/ state'[x] = "stopped"
                       \/ state[x] = "none" /\ state'[x] = "active"
  <2>1. CASE Register(c)
    BY <1>1, <2>1 DEF Register, HubTypeOK
  <2>2. CASE StopOverLimit(c)
    <3>1. TaskOf[c] \in TaskIds
      BY DEF TaskIds
    <3>. QED  BY <2>2, <3>1, StopMarksRegistered DEF StopOverLimit
  <2>3. CASE UNCHANGED state
    BY <2>3
  <2>. QED  BY <2>1, <2>2, <2>3 DEF Scan, Reserve, AskPool, LaunchFail, AbortStart, Cancel, hubVars
<1>. QED  BY <1>1, <1>2, <1>3, <1>4, OneAtATimeUndisturbed

LEMMA QueueStepKeepsTokens ==
  ASSUME HubInv, PassThrough \/ \E t \in TaskIds : StopQueued(t) \/ StopTask(t)
  PROVE  OneAtATime'
<1>1. /\ OneAtATime /\ HubTypeOK /\ PoolInv
      /\ proc \cup settling \cup restarting \subseteq Calls
  BY DEF HubInv, HubTypeOK
<1>2. UNCHANGED <<proc, settling, restarting, exits>>
  BY DEF PassThrough, StopQueued, StopTask, hubVars
<1>3. \A x \in Calls : phase[x] \in {"up", "ended"} => phase'[x] = phase[x]
  <2>1. CASE \E Q : TakeOff(Q)
    BY <1>1, <2>1, TakeOffMoves
  <2>2. CASE UNCHANGED phase
    BY <2>2
  <2>. QED
    BY <2>1, <2>2 DEF PassThrough, StopQueued, StopTask, Dequeue, Expire, PurgeQueue,
                      DrainAll, Age, SetLimits, poolVars
<1>4. \A x \in Calls : state'[x] = state[x] \/ state'[x] = "stopped"
  BY StopMarksRegistered DEF PassThrough, StopQueued, StopTask, hubVars
<1>. QED  BY <1>1, <1>2, <1>3, <1>4, OneAtATimeUndisturbed

LEMMA ProcessStepKeepsTokens ==
  ASSUME HubInv, NEW c \in Calls, Launch(c) \/ ProcExit(c) \/ DoRestart(c)
  PROVE  OneAtATime'
<1>1. /\ OneAtATime /\ HubTypeOK /\ PoolInv /\ phase \in [Calls -> Phases]
      /\ proc \subseteq Calls /\ settling \subseteq Calls /\ restarting \subseteq Calls
  BY DEF HubInv, PoolInv, TypeOK, HubTypeOK
<1>2. CASE Launch(c)
  <2>1. /\ phase[c] = "starting" /\ phase'[c] = "up" /\ proc' = proc \cup {c}
        /\ \A x \in Calls \ {c} : phase'[x] = phase[x]
        /\ UNCHANGED <<state, settling, restarting, exits>>
    BY <1>1, <1>2 DEF Launch, StartOK
  <2>2. c \notin proc \cup settling \cup restarting /\ state[c] # "errored"
    BY <1>1, <2>1 DEF OneAtATime
  <2>. QED  BY <1>1, <2>1, <2>2 DEF OneAtATime
<1>3. CASE ProcExit(c)
  <2>1. /\ c \in proc /\ proc' = proc \ {c} /\ settling' = settling \cup {c}
        /\ UNCHANGED <<state, restarting, exits>>
    BY <1>3 DEF ProcExit
  <2>. DEFINE ph == [phase EXCEPT ![c] = "ended"]
  <2>2. Release(TaskOf[c], ph) /\ \A x \in Calls : ph[x] = IF x = c THEN "ended" ELSE phase[x]
    BY <1>1, <1>3 DEF ProcExit
  <2>. HIDE DEF ph
  <2>3. \A x \in Calls : phase[x] \in {"up", "ended"} => phase'[x] \in {"up", "ended"}
    BY <1>1, <2>2, ReleaseMoves
  <2>. QED  BY <1>1, <2>1, <2>3 DEF OneAtATime
<1>4. CASE DoRestart(c)
  <2>1. /\ c \in restarting /\ restarting' = restarting \ {c}
        /\ proc' = proc \/ (proc' = proc \cup {c} /\ state[c] = "active")
        /\ UNCHANGED <<phase, state, settling, exits>>
    BY <1>4 DEF DoRestart, poolVars
  <2>. QED  BY <1>1, <2>1 DEF OneAtATime
<1>. QED  BY <1>2, <1>3, <1>4

LEMMA SettleKeepsTokens ==
  ASSUME HubInv, NEW c \in Calls, Settle(c)
  PROVE  OneAtATime'
<1>1. /\ OneAtATime /\ HubTypeOK /\ ErrorThreshold \in Nat \ {0} /\ c # NoTask
  BY HubAssumption DEF HubInv
<1>2. c \in settling /\ settling' = settling \ {c} /\ UNCHANGED <<phase, proc>>
  BY DEF Settle, poolVars
<1>3. tasks[TaskOf[c]] = c /\ phase[c] \in {"up", "ended"}
  BY <1>1, <1>2, OwnTask DEF OneAtATime
<1>4. CASE state[c] = "stopped" \/ c \notin RetryCalls
  <2>1. UNCHANGED <<state, restarting, exits>>
    BY <1>3, <1>4 DEF Settle
  <2>. QED  BY <1>1, <1>2, <2>1 DEF OneAtATime
<1>5. CASE state[c] # "stopped" /\ c \in RetryCalls
  <2>1. PICK n \in Kept(c) :
          /\ exits' = [exits EXCEPT ![c] = n + 1]
          /\ IF n + 1 >= ErrorThreshold
             THEN state' = [state EXCEPT ![c] = "errored"] /\ UNCHANGED restarting
             ELSE restarting' = restarting \cup {c} /\ UNCHANGED state
    BY <1>1, <1>3, <1>5 DEF Settle
  <2>2. n \in Nat
    BY <1>1 DEF Kept, HubTypeOK
  <2>3. exits'[c] = n + 1 /\ \A x \in Calls \ {c} : exits'[x] = exits[x]
    BY <1>1, <2>1 DEF HubTypeOK
  <2>4. CASE n + 1 >= ErrorThreshold
    <3>1. /\ state'[c] = "errored" /\ \A x \in Calls \ {c} : state'[x] = state[x]
          /\ UNCHANGED restarting
      BY <1>1, <2>1, <2>4 DEF HubTypeOK
    <3>. QED  BY <1>1, <1>2, <1>3, <2>3, <3>1 DEF OneAtATime
  <2>5. CASE ~(n + 1 >= ErrorThreshold)
    <3>1. restarting' = restarting \cup {c} /\ UNCHANGED state
      BY <2>1, <2>5
    <3>2. exits'[c] # ErrorThreshold
      BY <1>1, <2>2, <2>3, <2>5
    <3>3. state[c] # "errored"
      BY <1>1, <1>2 DEF OneAtATime
    <3>. QED  BY <1>1, <1>2, <1>3, <2>3, <3>1, <3>2, <3>3 DEF OneAtATime
  <2>. QED  BY <2>4, <2>5
<1>. QED  BY <1>4, <1>5

LEMMA ResetKeepsTokens ==
  ASSUME HubInv, NEW t \in TaskIds, Reset(t)
  PROVE  OneAtATime'
<1>. DEFINE d == tasks[t]
<1>1. /\ OneAtATime /\ HubTypeOK /\ ErrorThreshold \in Nat \ {0}
      /\ d \in Calls /\ state[d] = "errored"
  BY HubAssumption DEF HubInv, HubTypeOK, Reset
<1>2. /\ proc' \subseteq proc \cup {d} /\ UNCHANGED <<phase, settling, restarting>>
      /\ state' = [state EXCEPT ![d] = "active"] /\ exits' = [exits EXCEPT ![d] = 0]
  BY DEF Reset, poolVars
<1>. HIDE DEF d
<1>3. /\ state'[d] = "active" /\ exits'[d] # ErrorThreshold
      /\ \A x \in Calls \ {d} : state'[x] = state[x] /\ exits'[x] = exits[x]
  BY <1>1, <1>2 DEF HubTypeOK
<1>. QED  BY <1>1, <1>2, <1>3 DEF OneAtATime

LEMMA OneAtATimeKept ==
  ASSUME HubInv, [HubNext]_allVars
  PROVE  OneAtATime'
<1>1. CASE UNCHANGED allVars
  BY <1>1 DEF allVars, hubVars, poolVars, HubInv, OneAtATime
<1>. QED
  BY <1>1, QuietStepKeepsTokens, QueueStepKeepsTokens, ProcessStepKeepsTokens,
     SettleKeepsTokens, ResetKeepsTokens DEF HubNext
-----------------------------------------------------------------------------
LEMMA HubInvariant ==
  ASSUME FailuresAlone
  PROVE  HubSpec => []HubInv
<1>1. HubInv /\ [HubNext]_allVars => HubInv'
  BY PoolKept, TypeKept, RegisteredKept, OneAtATimeKept DEF HubInv
<1>. QED  BY HubInitInv, <1>1, PTL DEF HubSpec

(* The variables keep their types; in particular exitHistory never gets     *)
(* longer than ErrorThreshold, resets and stops included.                  *)
THEOREM HubTypeCorrect ==
  ASSUME FailuresAlone
  PROVE  HubSpec => []HubTypeOK
<1>1. HubInv => HubTypeOK
  BY DEF HubInv
<1>. QED  BY <1>1, HubInvariant, PTL

(* A task ID has one process, whatever starts, exits, restarts, stops,      *)
(* resets and set_pool requests there were: the first launch, doRestart    *)
(* and handleReset never overlap.                                          *)
THEOREM OneProcessPerTask ==
  ASSUME FailuresAlone
  PROVE  HubSpec => []OneProcess
<1>1. HubInv => OneProcess
  BY OwnTask DEF HubInv, OneAtATime, HubTypeOK, OneProcess
<1>. QED  BY <1>1, HubInvariant, PTL

(* And it belongs to the Task that h.tasks has under the ID.               *)
THEOREM ProcessesReachable ==
  ASSUME FailuresAlone
  PROVE  HubSpec => []Reachable
<1>1. HubInv => Reachable
  BY OwnTask DEF HubInv, OneAtATime, HubTypeOK, Reachable
<1>. QED  BY <1>1, HubInvariant, PTL

(* h.pending holds the ID of a request until its Task is registered, and    *)
(* only one request is in that stretch (the TOCTOU that it is there for).  *)
THEOREM ReservationsHold ==
  ASSUME FailuresAlone
  PROVE  HubSpec => []ReservationHeld
<1>1. HubInv => ReservationHeld
  <2>1. \A c \in Calls : Reserving(c) => Claims(c)
    BY DEF Reserving, Claims
  <2>. QED  BY <2>1 DEF HubInv, Registered, ReservationHeld
<1>. QED  BY <1>1, HubInvariant, PTL

(* The hub keeps the contract that the theorems about the pool rest on.    *)
THEOREM HubOwnsItsRequests ==
  ASSUME FailuresAlone
  PROVE  HubSpec => RequestsOwned
<1>1. ASSUME HubInv, [HubNext]_allVars, NEW c \in Calls, phase[c] = "idle", phase'[c] # "idle"
      PROVE  Owned(c)
  <2>1. step[c] # "asked" /\ step'[c] = "asked"
    BY <1>1, RegisteredKept DEF HubInv, Registered
  <2>2. step[c] = "reserved"
    <3>0. step \in [Calls -> {"new", "scanned", "reserved", "asked", "refused"}]
      BY <1>1 DEF HubInv, HubTypeOK
    <3>1. ASSUME NEW d \in Calls, AskPool(d), d # c PROVE FALSE
      BY <2>1, <3>0, <3>1 DEF AskPool
    <3>2. ASSUME NEW d \in Calls, Scan(d) \/ Reserve(d) PROVE FALSE
      BY <2>1, <3>0, <3>2 DEF Scan, Reserve
    <3>3. CASE UNCHANGED step
      BY <2>1, <3>3
    <3>4. CASE \E d \in Calls : AskPool(d)
      BY <3>1, <3>4 DEF AskPool
    <3>. QED
      BY <1>1, <3>2, <3>3, <3>4
         DEF HubNext, Register, Launch, LaunchFail, AbortStart, Cancel, ProcExit, Settle,
             DoRestart, StopOverLimit, StopQueued, StopTask, Reset, PassThrough, hubVars, allVars
  <2>. QED  BY <1>1, <2>2, ReservedIsOwned
<1>2. HubInv /\ [HubNext]_allVars
      => [\A c \in Calls : phase[c] = "idle" /\ phase'[c] # "idle" => Owned(c)]_allVars
  BY <1>1
<1>. QED  BY <1>2, HubInvariant, PTL DEF HubSpec, RequestsOwned

(* A stop defeats a restart that is scheduled and a reset.                 *)
THEOREM StopsAreFinal ==
  ASSUME FailuresAlone
  PROVE  HubSpec => StoppedStaysDown
<1>1. ASSUME HubInv, [HubNext]_allVars, NEW c \in Calls,
             state[c] = "stopped", c \notin proc, phase[c] # "starting"
      PROVE  c \notin proc'
  <2>1. ASSUME NEW d \in Calls, Launch(d) \/ ProcExit(d) \/ DoRestart(d) PROVE c \notin proc'
    BY <1>1, <2>1 DEF Launch, StartOK, ProcExit, DoRestart
  <2>2. ASSUME NEW t \in TaskIds, Reset(t) PROVE c \notin proc'
    BY <1>1, <2>2 DEF Reset
  <2>3. CASE UNCHANGED proc
    BY <1>1, <2>3
  <2>. QED
    BY <1>1, <2>1, <2>2, <2>3
       DEF HubNext, Scan, Reserve, AskPool, Register, LaunchFail, AbortStart, Cancel, Settle,
           StopOverLimit, StopQueued, StopTask, PassThrough, hubVars, allVars
<1>2. HubInv /\ [HubNext]_allVars
      => [\A c \in Calls : state[c] = "stopped" /\ c \notin proc /\ phase[c] # "starting"
                           => c \notin proc']_allVars
  BY <1>1
<1>. QED  BY <1>2, HubInvariant, PTL DEF HubSpec, StoppedStaysDown

(* Under the hub, whose later exits are no steps of the pool's own closed   *)
(* system, the queues stay sound, no slot leaks and no cancelled request   *)
(* is started.                                                             *)
THEOREM PoolSoundUnderHub ==
  ASSUME FailuresAlone
  PROVE  HubSpec => [](TypeOK /\ QueuesSound /\ NoSlotLeak) /\ CancelledIsFinal
<1>1. HubInv => TypeOK /\ QueuesSound /\ NoSlotLeak
  BY DEF HubInv, PoolInv
<1>2. HubInv /\ [HubNext]_allVars
      => [\A c \in Calls : phase[c] \in {"cancelling", "cancelled"}
                           => phase'[c] \in {"cancelling", "cancelled"}]_poolVars
  BY PoolKept DEF CancelKept
<1>. QED  BY <1>1, <1>2, HubInvariant, PTL DEF HubSpec, CancelledIsFinal
=============================================================================
