---------------------------- MODULE HubRefinement ----------------------------
(***************************************************************************)
(* Hub implements TaskLife: each action of the hub is one of TaskLife, or  *)
(* none, for the task ID it is about.  HubInv of Hub_proofs holds before   *)
(* each step.                                                              *)
(***************************************************************************)
EXTENDS Hub_proofs

LifeAt(t) == IF tasks[t] # NoTask THEN state[tasks[t]]
             ELSE IF t \in pending THEN "reserved" ELSE "free"

ProcAt(t) == IF tasks[t] = NoTask THEN "down"
             ELSE IF phase[tasks[t]] = "starting" THEN "first"
             ELSE IF tasks[t] \in proc THEN "up"
             ELSE IF tasks[t] \in settling \cup restarting THEN "over" ELSE "down"

(* The arms of ProcessOf exclude each other.                                *)
LEMMA ProcessIsAt == HubInv => ProcessOf = [t \in TaskIds |-> ProcAt(t)]
<1>. SUFFICES ASSUME HubInv, NEW t \in TaskIds
              PROVE  (LET c == tasks[t] IN
                        CASE c = NoTask -> "down"
                          [] c # NoTask /\ phase[c] = "starting" -> "first"
                          [] c \in proc -> "up"
                          [] c \in settling \cup restarting -> "over"
                          [] OTHER -> "down") = ProcAt(t)
  BY DEF ProcessOf
<1>. DEFINE c == tasks[t]
<1>1. c \in proc => c # NoTask /\ phase[c] # "starting" /\ c \notin settling \cup restarting
  BY HubAssumption DEF HubInv, HubTypeOK, OneAtATime
<1>2. c \in settling \cup restarting => c # NoTask /\ phase[c] # "starting"
  BY HubAssumption DEF HubInv, HubTypeOK, OneAtATime
<1>. QED  BY <1>1, <1>2 DEF ProcAt

LEMMA ProcessIsAtNext == HubInv' => (ProcessOf = [t \in TaskIds |-> ProcAt(t)])'
BY ProcessIsAt, PTL

LEMMA LifePointwise ==
  ASSUME HubInv, HubInv'
  PROVE  /\ LifeOf = [t \in TaskIds |-> LifeAt(t)]
         /\ LifeOf' = [t \in TaskIds |-> LifeAt(t)']
         /\ ProcessOf = [t \in TaskIds |-> ProcAt(t)]
         /\ ProcessOf' = [t \in TaskIds |-> ProcAt(t)']
BY ProcessIsAt, ProcessIsAtNext DEF LifeOf, LifeAt
-----------------------------------------------------------------------------
(* What a step does to one ID.                                             *)

LEMMA TaskIsOwn ==
  ASSUME HubInv, NEW t \in TaskIds, tasks[t] # NoTask
  PROVE  /\ tasks[t] \in Calls /\ TaskOf[tasks[t]] = t
         /\ state[tasks[t]] \in {"active", "stopped", "errored"}
         /\ phase[tasks[t]] \notin {"idle", "queued"}
<1>1. tasks[t] \in Calls /\ TaskOf[tasks[t]] = t /\ state[tasks[t]] # "none"
  BY DEF HubInv, HubTypeOK, Registered
<1>. QED  BY <1>1 DEF HubInv, HubTypeOK, Registered, Failing

LEMMA OneMoves ==
  ASSUME HubInv, HubInv', NEW t \in TaskIds, NEW l, NEW p,
         LifeAt(t)' = l, ProcAt(t)' = p,
         \A u \in TaskIds \ {t} : LifeAt(u)' = LifeAt(u) /\ ProcAt(u)' = ProcAt(u)
  PROVE  Life!Moves(t, l, p)
BY LifePointwise DEF Life!Moves

LEMMA AtIs ==
  ASSUME HubInv, HubInv', NEW t \in TaskIds
  PROVE  LifeOf[t] = LifeAt(t) /\ ProcessOf[t] = ProcAt(t)
BY LifePointwise

(* An ID whose entries in the maps of the hub stay as they are.             *)
LEMMA Untouched ==
  ASSUME NEW u \in TaskIds, tasks'[u] = tasks[u], u \in pending' <=> u \in pending,
         tasks[u] # NoTask =>
            /\ state'[tasks[u]] = state[tasks[u]]
            /\ phase'[tasks[u]] = "starting" <=> phase[tasks[u]] = "starting"
            /\ tasks[u] \in proc' <=> tasks[u] \in proc
            /\ tasks[u] \in settling' \cup restarting' <=> tasks[u] \in settling \cup restarting
  PROVE  LifeAt(u)' = LifeAt(u) /\ ProcAt(u)' = ProcAt(u)
BY DEF LifeAt, ProcAt

(* A step about the Task c moves the ID of c at most.                       *)
LEMMA OthersUntouched ==
  ASSUME HubInv, NEW c \in Calls,
         \A u \in TaskIds \ {TaskOf[c]} : /\ tasks'[u] = tasks[u]
                                          /\ u \in pending' <=> u \in pending,
         \A d \in Calls \ {c} : /\ state'[d] = state[d] /\ phase'[d] = phase[d]
                                /\ d \in proc' <=> d \in proc
                                /\ d \in settling' \cup restarting' <=> d \in settling \cup restarting
  PROVE  \A u \in TaskIds \ {TaskOf[c]} : LifeAt(u)' = LifeAt(u) /\ ProcAt(u)' = ProcAt(u)
<1>. SUFFICES ASSUME NEW u \in TaskIds \ {TaskOf[c]}
              PROVE  LifeAt(u)' = LifeAt(u) /\ ProcAt(u)' = ProcAt(u)
  OBVIOUS
<1>1. CASE tasks[u] = NoTask
  BY <1>1 DEF LifeAt, ProcAt
<1>2. CASE tasks[u] # NoTask
  <2>1. tasks[u] \in Calls \ {c}
    BY <1>2, TaskIsOwn
  <2>. QED  BY <2>1, Untouched
<1>. QED  BY <1>1, <1>2

(* Reservations that a step gives up.                                      *)
Dropped == {u \in TaskIds : tasks[u] = NoTask /\ u \in pending \ pending'}

LEMMA DroppedAreReserved ==
  ASSUME HubInv, HubInv'
  PROVE  Dropped \in SUBSET Life!Reservations
BY AtIs DEF Dropped, Life!Reservations, LifeAt

LEMMA FreedAt ==
  ASSUME HubInv, UNCHANGED tasks, pending' \subseteq pending, NEW u \in TaskIds,
         tasks[u] # NoTask => state'[tasks[u]] = state[tasks[u]]
  PROVE  LifeAt(u)' = IF u \in Dropped THEN "free" ELSE LifeAt(u)
BY DEF LifeAt, Dropped

(* A step that registers nothing, and leaves the registered Tasks alone.    *)
LEMMA WithdrawRefines ==
  ASSUME HubInv, HubInv', UNCHANGED <<tasks, proc>>, pending' \subseteq pending,
         settling' \cup restarting' = settling \cup restarting,
         \A d \in Calls : state[d] # "none" =>
            /\ state'[d] = state[d]
            /\ phase'[d] = "starting" <=> phase[d] = "starting"
  PROVE  Life!TaskLifeNext
<1>1. \A u \in TaskIds : tasks[u] # NoTask =>
        /\ state'[tasks[u]] = state[tasks[u]]
        /\ phase'[tasks[u]] = "starting" <=> phase[tasks[u]] = "starting"
  BY TaskIsOwn
<1>2. \A u \in TaskIds : LifeAt(u)' = IF u \in Dropped THEN "free" ELSE LifeAt(u)
  BY <1>1, FreedAt
<1>3. \A u \in TaskIds : ProcAt(u)' = ProcAt(u)
  BY <1>1 DEF ProcAt
<1>4. LifeOf' = Life!Freed(LifeOf, Dropped) /\ ProcessOf' = ProcessOf
  BY <1>2, <1>3, LifePointwise DEF Life!Freed
<1>5. Life!Withdraw
  BY <1>4, DroppedAreReserved DEF Life!Withdraw
<1>. QED  BY <1>5 DEF Life!TaskLifeNext
-----------------------------------------------------------------------------
(* One lemma per kind of step.                                             *)

LEMMA QuietRefines ==
  ASSUME HubInv, HubInv',
         \/ PassThrough \/ UNCHANGED allVars
         \/ \E t \in TaskIds : StopQueued(t)
         \/ \E c \in Calls : Scan(c) \/ AskPool(c) \/ AbortStart(c) \/ Cancel(c)
  PROVE  Life!TaskLifeNext
<1>0. PoolInv /\ phase \in [Calls -> Phases]
      /\ \A d \in Calls : state[d] # "none" => phase[d] \notin {"idle", "queued"}
  BY DEF HubInv, PoolInv, TypeOK, Registered, Failing
<1>1. /\ UNCHANGED <<tasks, proc, settling, restarting, state>>
      /\ pending' \subseteq pending
  BY DEF PassThrough, allVars, hubVars, StopQueued, Scan, AskPool, AbortStart, Cancel
<1>2. \A d \in Calls : state[d] # "none" =>
        \/ phase'[d] = phase[d]
        \/ phase[d] \in {"aborting", "cancelling"} /\ phase'[d] # "starting"
  <2>1. CASE \E c \in Calls : AskPool(c)
    BY <1>0, <2>1, AcquireMoves DEF AskPool
  <2>2. CASE \E Q : TakeOff(Q)
    BY <1>0, <2>2, TakeOffMoves
  <2>3. CASE \E c \in Calls : AbortStart(c) \/ Cancel(c)
    BY <1>0, <2>3 DEF AbortStart, Rollback, Cancel, RunCancelFn
  <2>4. CASE UNCHANGED phase
    BY <2>4
  <2>. QED
    BY <2>1, <2>2, <2>3, <2>4
       DEF PassThrough, allVars, poolVars, StopQueued, Scan, Dequeue, Expire, PurgeQueue,
           DrainAll, Age, SetLimits
<1>. QED  BY <1>1, <1>2, WithdrawRefines

LEMMA ReserveRefines ==
  ASSUME HubInv, HubInv', NEW c \in Calls, Reserve(c)
  PROVE  Life!TaskLifeNext
<1>. DEFINE t == TaskOf[c]
<1>1. t \in TaskIds
  BY DEF TaskIds
<1>2. CASE UNCHANGED pending
  BY <1>2, WithdrawRefines DEF Reserve, poolVars
<1>3. CASE /\ tasks[t] = NoTask /\ t \notin pending /\ pending' = pending \cup {t}
           /\ UNCHANGED <<tasks, phase, state, proc, settling, restarting>>
  <2>1. LifeAt(t) = "free" /\ LifeAt(t)' = "reserved" /\ ProcAt(t)' = "down"
    BY <1>3 DEF LifeAt, ProcAt
  <2>2. \A u \in TaskIds \ {t} : LifeAt(u)' = LifeAt(u) /\ ProcAt(u)' = ProcAt(u)
    BY <1>3 DEF LifeAt, ProcAt
  <2>3. Life!Reserve(t)
    BY <1>1, <2>1, <2>2, OneMoves, AtIs DEF Life!Reserve
  <2>. QED  BY <1>1, <2>3 DEF Life!TaskLifeNext
<1>. QED  BY <1>2, <1>3 DEF Reserve, poolVars

(* A step of startFn: it is about the Task c, and the ID of c alone.        *)
LEMMA StartRefines ==
  ASSUME HubInv, HubInv', NEW c \in Calls, Register(c) \/ Launch(c) \/ LaunchFail(c)
  PROVE  Life!TaskLifeNext
<1>. DEFINE t == TaskOf[c]
<1>0. /\ t \in TaskIds /\ HubTypeOK /\ phase \in [Calls -> Phases] /\ c # NoTask
      /\ c \notin proc \cup settling \cup restarting
  <2>1. phase[c] = "starting"
    BY DEF Register, Launch, StartOK, LaunchFail, StartFail
  <2>. QED  BY <2>1, HubAssumption DEF TaskIds, HubInv, PoolInv, TypeOK, OneAtATime
<1>2. CASE Register(c)
  <2>1. tasks[t] = NoTask /\ t \in pending
    BY <1>2 DEF Register, HubInv, Registered, Claims
  <2>2. /\ tasks'[t] = c /\ state'[c] = "active" /\ phase' = phase /\ phase[c] = "starting"
        /\ \A u \in TaskIds \ {t} : /\ tasks'[u] = tasks[u]
                                    /\ u \in pending' <=> u \in pending
        /\ \A d \in Calls \ {c} : state'[d] = state[d]
        /\ UNCHANGED <<proc, settling, restarting>>
    BY <1>0, <1>2 DEF Register, HubTypeOK, poolVars
  <2>3. LifeAt(t) = "reserved" /\ LifeAt(t)' = "active" /\ ProcAt(t)' = "first"
    BY <1>0, <2>1, <2>2 DEF LifeAt, ProcAt
  <2>4. \A u \in TaskIds \ {t} : LifeAt(u)' = LifeAt(u) /\ ProcAt(u)' = ProcAt(u)
    <3>1. \A d \in Calls \ {c} : phase'[d] = phase[d]
      BY <2>2
    <3>. QED  BY <2>2, <3>1, OthersUntouched
  <2>5. Life!Create(t)
    BY <1>0, <2>3, <2>4, OneMoves, AtIs DEF Life!Create
  <2>. QED  BY <1>0, <2>5 DEF Life!TaskLifeNext
<1>3. CASE Launch(c) \/ LaunchFail(c)
  <2>1. tasks[t] = c /\ phase[c] = "starting"
    BY <1>3 DEF Launch, LaunchFail, StartOK, StartFail, HubInv, Registered, Failing
  <2>2. ProcAt(t) = "first"
    BY <1>0, <2>1 DEF ProcAt
  <2>3. /\ \A d \in Calls \ {c} : phase'[d] = phase[d] /\ (d \in proc' <=> d \in proc)
        /\ \A u \in TaskIds \ {t} : /\ tasks'[u] = tasks[u]
                                    /\ u \in pending' <=> u \in pending
        /\ UNCHANGED <<state, settling, restarting>>
    BY <1>0, <1>3 DEF Launch, LaunchFail, StartOK, StartFail, HubTypeOK
  <2>4. \A u \in TaskIds \ {t} : LifeAt(u)' = LifeAt(u) /\ ProcAt(u)' = ProcAt(u)
    BY <2>3, OthersUntouched
  <2>5. CASE Launch(c)
    <3>1. tasks'[t] = c /\ phase'[c] = "up" /\ c \in proc' /\ state' = state
      BY <1>0, <2>1, <2>5 DEF Launch, StartOK
    <3>2. LifeAt(t)' = LifeAt(t) /\ ProcAt(t)' = "up"
      BY <1>0, <2>1, <3>1 DEF LifeAt, ProcAt
    <3>3. Life!Launch(t)
      BY <1>0, <2>2, <2>4, <3>2, OneMoves, AtIs DEF Life!Launch
    <3>. QED  BY <1>0, <3>3 DEF Life!TaskLifeNext
  <2>6. CASE LaunchFail(c)
    <3>1. tasks'[t] = NoTask /\ t \notin pending'
      BY <1>0, <2>6 DEF LaunchFail, HubTypeOK
    <3>2. LifeAt(t)' = "free" /\ ProcAt(t)' = "down"
      BY <3>1 DEF LifeAt, ProcAt
    <3>3. Life!LaunchFails(t)
      BY <1>0, <2>2, <2>4, <3>2, OneMoves, AtIs DEF Life!LaunchFails
    <3>. QED  BY <1>0, <3>3 DEF Life!TaskLifeNext
  <2>. QED  BY <1>3, <2>5, <2>6
<1>. QED  BY <1>2, <1>3

(* onWorkerExited, first part: Release may cancel queued requests.          *)
LEMMA ExitRefines ==
  ASSUME HubInv, HubInv', NEW c \in Calls, ProcExit(c)
  PROVE  Life!TaskLifeNext
<1>. DEFINE t == TaskOf[c]
            ph == [phase EXCEPT ![c] = "ended"]
<1>0. /\ t \in TaskIds /\ c # NoTask /\ PoolInv /\ phase \in [Calls -> Phases]
      /\ c \in proc /\ c \notin settling \cup restarting /\ phase[c] \in {"up", "ended"}
  BY HubAssumption DEF TaskIds, ProcExit, HubInv, PoolInv, TypeOK, OneAtATime
<1>1. tasks[t] = c
  BY <1>0, OwnTask
<1>2. /\ proc' = proc \ {c} /\ settling' = settling \cup {c}
      /\ UNCHANGED <<tasks, state, restarting>> /\ pending' \subseteq pending
  BY DEF ProcExit, DropExpired
<1>3. Release(t, ph) /\ \A x \in Calls : ph[x] = IF x = c THEN "ended" ELSE phase[x]
  BY <1>0 DEF ProcExit
<1>. HIDE DEF ph
<1>4. \A x \in Calls : \/ phase'[x] = ph[x]
                       \/ phase[x] = "queued" /\ phase'[x] \in {"starting", "cancelled"}
  BY <1>0, <1>3, ReleaseMoves
<1>5. ProcAt(t) = "up" /\ ProcAt(t)' = "over"
  <2>1. phase'[c] = "ended"
    BY <1>0, <1>3, <1>4
  <2>. QED  BY <1>0, <1>1, <1>2, <2>1 DEF ProcAt
<1>6. ASSUME NEW u \in TaskIds \ {t} PROVE ProcAt(u)' = ProcAt(u)
  <2>1. CASE tasks[u] = NoTask
    BY <1>2, <2>1 DEF ProcAt
  <2>2. CASE tasks[u] # NoTask
    <3>1. tasks[u] \in Calls \ {c} /\ phase[tasks[u]] # "queued"
      BY <2>2, TaskIsOwn
    <3>2. phase'[tasks[u]] = phase[tasks[u]]
      BY <1>3, <1>4, <3>1
    <3>. QED  BY <1>2, <3>1, <3>2 DEF ProcAt
  <2>. QED  BY <2>1, <2>2
<1>7. \A u \in TaskIds : LifeAt(u)' = IF u \in Dropped THEN "free" ELSE LifeAt(u)
  BY <1>2, FreedAt
<1>8. /\ LifeOf' = Life!Freed(LifeOf, Dropped)
      /\ ProcessOf' = [ProcessOf EXCEPT ![t] = "over"]
  BY <1>5, <1>6, <1>7, LifePointwise DEF Life!Freed
<1>9. Life!Exit(t)
  BY <1>0, <1>5, <1>8, AtIs, DroppedAreReserved DEF Life!Exit
<1>. QED  BY <1>0, <1>9 DEF Life!TaskLifeNext

(* onWorkerExited, second part, and doRestart.                             *)
LEMMA SettleRefines ==
  ASSUME HubInv, HubInv', NEW c \in Calls, Settle(c) \/ DoRestart(c)
  PROVE  Life!TaskLifeNext
<1>. DEFINE t == TaskOf[c]
<1>0. /\ t \in TaskIds /\ c # NoTask /\ HubTypeOK
      /\ c \in settling \cup restarting /\ c \notin proc /\ phase[c] \in {"up", "ended"}
  BY HubAssumption DEF TaskIds, Settle, DoRestart, HubInv, OneAtATime
<1>1. tasks[t] = c /\ state[c] # "errored"
  BY <1>0, OwnTask DEF HubInv, OneAtATime
<1>2. UNCHANGED <<tasks, pending, phase>>
  BY DEF Settle, DoRestart, poolVars
<1>3. ProcAt(t) = "over" /\ LifeAt(t) = state[c]
  BY <1>0, <1>1 DEF ProcAt, LifeAt
<1>4. ASSUME \A d \in Calls \ {c} : /\ state'[d] = state[d] /\ (d \in proc' <=> d \in proc)
                                    /\ (d \in settling' \cup restarting'
                                         <=> d \in settling \cup restarting),
             c \notin settling' \cup restarting',
             \/ state'[c] = state[c] /\ c \notin proc'
             \/ state[c] = "active" /\ state'[c] = state[c] /\ c \in proc'
             \/ state[c] = "active" /\ state'[c] = "errored" /\ c \notin proc'
      PROVE  Life!TaskLifeNext
  <2>1. \A u \in TaskIds \ {t} : LifeAt(u)' = LifeAt(u) /\ ProcAt(u)' = ProcAt(u)
    BY <1>2, <1>4, OthersUntouched
  <2>2. LifeAt(t)' = state'[c] /\ ProcAt(t)' = IF c \in proc' THEN "up" ELSE "down"
    BY <1>0, <1>1, <1>2, <1>4 DEF LifeAt, ProcAt
  <2>3. \/ Life!Moves(t, LifeOf[t], "down")
        \/ /\ LifeOf[t] = "active"
           /\ Life!Moves(t, "active", "up") \/ Life!Moves(t, "errored", "down")
    <3>1. CASE state'[c] = state[c] /\ c \notin proc'
      <4>1. LifeAt(t)' = LifeOf[t] /\ ProcAt(t)' = "down"
        BY <1>0, <1>3, <2>2, <3>1, AtIs
      <4>. QED  BY <1>0, <2>1, <4>1, OneMoves
    <3>2. CASE state[c] = "active" /\ state'[c] = state[c] /\ c \in proc'
      <4>1. LifeOf[t] = "active" /\ LifeAt(t)' = "active" /\ ProcAt(t)' = "up"
        BY <1>0, <1>3, <2>2, <3>2, AtIs
      <4>. QED  BY <1>0, <2>1, <4>1, OneMoves
    <3>3. CASE state[c] = "active" /\ state'[c] = "errored" /\ c \notin proc'
      <4>1. LifeOf[t] = "active" /\ LifeAt(t)' = "errored" /\ ProcAt(t)' = "down"
        BY <1>0, <1>3, <2>2, <3>3, AtIs
      <4>. QED  BY <1>0, <2>1, <4>1, OneMoves
    <3>. QED  BY <1>4, <3>1, <3>2, <3>3
  <2>4. Life!Settle(t)
    BY <1>0, <1>3, <2>3, AtIs DEF Life!Settle
  <2>. QED  BY <1>0, <2>4 DEF Life!TaskLifeNext
<1>5. CASE DoRestart(c)
  <2>1. /\ c \in restarting /\ restarting' = restarting \ {c} /\ c \notin settling
        /\ UNCHANGED <<state, settling>>
        /\ proc' = proc \/ (state[c] = "active" /\ proc' = proc \cup {c})
    BY <1>5 DEF DoRestart, HubInv, OneAtATime
  <2>. QED  BY <1>0, <1>4, <2>1
<1>6. CASE Settle(c) /\ (state[c] = "stopped" \/ c \notin RetryCalls)
  <2>1. /\ c \in settling /\ settling' = settling \ {c} /\ c \notin restarting
        /\ UNCHANGED <<state, restarting, proc>>
    BY <1>1, <1>6 DEF Settle, HubInv, OneAtATime
  <2>. QED  BY <1>0, <1>4, <2>1
<1>7. CASE Settle(c) /\ ~(state[c] = "stopped" \/ c \notin RetryCalls)
  <2>1. /\ c \in settling /\ settling' = settling \ {c} /\ c \notin restarting /\ proc' = proc
        /\ \/ state' = [state EXCEPT ![c] = "errored"] /\ UNCHANGED restarting
           \/ restarting' = restarting \cup {c} /\ UNCHANGED state
    BY <1>0, <1>1, <1>7 DEF Settle, HubInv, OneAtATime
  <2>2. CASE restarting' = restarting \cup {c} /\ UNCHANGED state
    <3>1. settling' \cup restarting' = settling \cup restarting
      BY <2>1, <2>2
    <3>. QED  BY <1>2, <2>1, <2>2, <3>1, WithdrawRefines
  <2>3. CASE state' = [state EXCEPT ![c] = "errored"] /\ UNCHANGED restarting
    <3>1. state[c] = "active"
      BY <1>0, <1>1, <1>7, OwnTask DEF HubTypeOK
    <3>2. state'[c] = "errored" /\ \A d \in Calls \ {c} : state'[d] = state[d]
      BY <1>0, <2>3 DEF HubTypeOK
    <3>. QED  BY <1>0, <1>4, <2>1, <2>3, <3>1, <3>2
  <2>. QED  BY <2>1, <2>2, <2>3
<1>. QED  BY <1>5, <1>6, <1>7

LEMMA ResetRefines ==
  ASSUME HubInv, HubInv', NEW t \in TaskIds, Reset(t)
  PROVE  Life!TaskLifeNext
<1>. DEFINE d == tasks[t]
<1>0. d # NoTask /\ state[d] = "errored" /\ UNCHANGED <<tasks, pending, phase, settling, restarting>>
  BY DEF Reset, poolVars
<1>1. /\ d \in Calls /\ TaskOf[d] = t
      /\ d \notin proc \cup settling \cup restarting /\ phase[d] # "starting"
  BY <1>0, TaskIsOwn DEF HubInv, OneAtATime
<1>2. /\ state'[d] = "active" /\ proc' \in {proc, proc \cup {d}}
      /\ \A x \in Calls \ {d} : state'[x] = state[x]
  BY <1>1 DEF Reset, HubInv, HubTypeOK
<1>3. LifeAt(t) = "errored"
  BY <1>0 DEF LifeAt
<1>4. LifeAt(t)' = "active" /\ ProcAt(t)' \in {"up", "down"}
  BY <1>0, <1>1, <1>2 DEF LifeAt, ProcAt
<1>5. \A u \in TaskIds \ {t} : LifeAt(u)' = LifeAt(u) /\ ProcAt(u)' = ProcAt(u)
  <2>1. \A x \in Calls \ {d} : x \in proc' <=> x \in proc
    BY <1>2
  <2>. QED  BY <1>0, <1>1, <1>2, <2>1, OthersUntouched
<1>6. PICK p \in {"up", "down"} : ProcAt(t)' = p
  BY <1>4
<1>7. Life!Moves(t, "active", p)
  BY <1>4, <1>5, <1>6, OneMoves
<1>8. Life!Reset(t)
  BY <1>3, <1>7, AtIs DEF Life!Reset
<1>. QED  BY <1>8 DEF Life!TaskLifeNext

(* A stop of the Task of t, if it has one; the stop loop of set_pool also   *)
(* gives a slot back, which may cancel queued requests.                    *)
LEMMA MarkRefines ==
  ASSUME HubInv, HubInv', NEW t \in TaskIds, MarkStopped(t),
         UNCHANGED <<tasks, proc, settling, restarting>>, pending' \subseteq pending,
         \A d \in Calls : state[d] # "none" => phase'[d] = phase[d]
  PROVE  Life!TaskLifeNext
<1>1. \A d \in Calls : state'[d] = IF d = tasks[t] THEN "stopped" ELSE state[d]
  BY DEF MarkStopped
<1>2. CASE tasks[t] = NoTask
  <2>1. \A d \in Calls : state'[d] = state[d]
    BY <1>1, <1>2, HubAssumption
  <2>. QED  BY <2>1, WithdrawRefines
<1>3. CASE tasks[t] # NoTask
  <2>1. tasks[t] \in Calls /\ TaskOf[tasks[t]] = t /\ LifeAt(t) \in {"active", "stopped", "errored"}
    BY <1>3, TaskIsOwn DEF LifeAt
  <2>2. LifeAt(t)' = "stopped"
    BY <1>1, <1>3, <2>1 DEF LifeAt
  <2>3. \A u \in TaskIds \ {t} : LifeAt(u)' = IF u \in Dropped THEN "free" ELSE LifeAt(u)
    <3>1. \A u \in TaskIds \ {t} : tasks[u] # NoTask => state'[tasks[u]] = state[tasks[u]]
      BY <1>1, <2>1, TaskIsOwn
    <3>. QED  BY <3>1, FreedAt
  <2>4. \A u \in TaskIds : ProcAt(u)' = ProcAt(u)
    <3>1. \A u \in TaskIds : tasks[u] # NoTask => phase'[tasks[u]] = phase[tasks[u]]
      BY TaskIsOwn
    <3>. QED  BY <3>1 DEF ProcAt
  <2>5. t \notin Dropped
    BY <1>3 DEF Dropped
  <2>6. /\ LifeOf' = Life!Freed([LifeOf EXCEPT ![t] = "stopped"], Dropped)
        /\ ProcessOf' = ProcessOf
    BY <2>2, <2>3, <2>4, <2>5, LifePointwise DEF Life!Freed
  <2>7. Life!Stop(t)
    BY <2>1, <2>6, AtIs, DroppedAreReserved DEF Life!Stop, Life!Taken
  <2>. QED  BY <2>7 DEF Life!TaskLifeNext
<1>. QED  BY <1>2, <1>3

LEMMA StopRefines ==
  ASSUME HubInv, HubInv',
         (\E t \in TaskIds : StopTask(t)) \/ \E c \in Calls : StopOverLimit(c)
  PROVE  Life!TaskLifeNext
<1>1. ASSUME NEW t \in TaskIds, StopTask(t) PROVE Life!TaskLifeNext
  BY <1>1, MarkRefines DEF StopTask, poolVars
<1>2. ASSUME NEW c \in Calls, StopOverLimit(c) PROVE Life!TaskLifeNext
  <2>1. TaskOf[c] \in TaskIds
    BY DEF TaskIds
  <2>2. UNCHANGED <<tasks, proc, settling, restarting>> /\ pending' \subseteq pending
    BY <1>2 DEF StopOverLimit, DropExpired
  <2>3. \A d \in Calls : state[d] # "none" => phase'[d] = phase[d]
    <3>1. Release(TaskOf[c], phase) /\ PoolInv
      BY <1>2 DEF StopOverLimit, StopExcess, HubInv
    <3>2. \A d \in Calls : state[d] # "none" => phase[d] # "queued"
      BY DEF HubInv, Registered, Failing
    <3>. QED  BY <3>1, <3>2, ReleaseMoves
  <2>4. CASE UNCHANGED state
    BY <2>2, <2>3, <2>4, WithdrawRefines
  <2>5. CASE MarkStopped(TaskOf[c])
    BY <2>1, <2>2, <2>3, <2>5, MarkRefines
  <2>. QED  BY <1>2, <2>4, <2>5 DEF StopOverLimit
<1>. QED  BY <1>1, <1>2
-----------------------------------------------------------------------------
(* The hub implements the life of a task ID, for any number of requests,    *)
(* IDs, retries and stops, whatever the pool makes of them, as long as a    *)
(* start that fails is the only request for its ID.                        *)
THEOREM HubImplementsTaskLife ==
  ASSUME FailuresAlone
  PROVE  HubSpec => ImplementsTaskLife
<1>1. HubInit => Life!TaskLifeInit
  BY DEF HubInit, Life!TaskLifeInit, LifeOf, ProcessOf
<1>2. HubInv /\ HubInv' /\ [HubNext]_allVars => [Life!TaskLifeNext]_(Life!lifeVars)
  <2>. SUFFICES ASSUME HubInv, HubInv', [HubNext]_allVars
                PROVE  Life!TaskLifeNext
    OBVIOUS
  <2>1. CASE UNCHANGED allVars \/ PassThrough
    BY <2>1, QuietRefines
  <2>2. ASSUME NEW c \in Calls,
               \/ Scan(c) \/ Reserve(c) \/ AskPool(c) \/ Register(c) \/ Launch(c)
               \/ LaunchFail(c) \/ AbortStart(c) \/ Cancel(c)
               \/ ProcExit(c) \/ Settle(c) \/ DoRestart(c) \/ StopOverLimit(c)
        PROVE  Life!TaskLifeNext
    BY <2>2, QuietRefines, ReserveRefines, StartRefines, ExitRefines, SettleRefines, StopRefines
  <2>3. ASSUME NEW t \in TaskIds, StopQueued(t) \/ StopTask(t) \/ Reset(t)
        PROVE  Life!TaskLifeNext
    BY <2>3, QuietRefines, StopRefines, ResetRefines
  <2>. QED  BY <2>1, <2>2, <2>3 DEF HubNext
<1>. QED  BY <1>1, <1>2, HubInvariant, PTL DEF HubSpec, ImplementsTaskLife, Life!TaskLifeSpec
=============================================================================
