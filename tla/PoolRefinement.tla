---------------------------- MODULE PoolRefinement ----------------------------
(***************************************************************************)
(* PoolManager implements Slots: each action of the pool is one of Slots,  *)
(* or none, under the stage of a call.  FixedInv of PoolManager_proofs     *)
(* holds before each step.                                                 *)
(***************************************************************************)
EXTENDS PoolManager_proofs

Waiting == {c \in Calls : phase[c] = "queued"}
Holding == {c \in Calls : phase[c] \in {"starting", "aborting", "up"}}

(* The stages of Slots, in terms of the phases.                            *)
LEMMA StagesAreSets ==
  /\ Abstract!At("waiting") = Waiting
  /\ Abstract!At("holding") = Holding
  /\ \A c \in Calls : Stage[c] = "outside" <=> phase[c] = "idle"
  /\ \A c \in Calls : Stage[c] = "holding" <=> c \in Holding
BY DEF Abstract!At, Waiting, Holding, Stage

(* Two steps of the closures move a call within its stage.                 *)
StageOf(p) == CASE p = "idle" -> "outside"
                [] p = "queued" -> "waiting"
                [] p \in {"starting", "aborting", "up"} -> "holding"
                [] OTHER -> "gone"

LEMMA StageIsOfPhase ==
  /\ Stage = [c \in Calls |-> StageOf(phase[c])]
  /\ Stage' = [c \in Calls |-> StageOf(phase'[c])]
BY DEF Stage, StageOf

(* Slots counts with the Cardinality of its own FiniteSets.                *)
LEMMA SameCardinality == \A S : Abstract!Cardinality(S) = Cardinality(S)
BY DEF Abstract!Cardinality, Cardinality

LEMMA QueuedAreWaiting ==
  ASSUME PoolInv
  PROVE  Queued(queues) \subseteq Waiting
<1>. SUFFICES ASSUME NEW c \in Queued(queues) PROVE c \in Waiting
  OBVIOUS
<1>1. PICK a \in Actions : c \in ToSet(queues[a])
  BY DEF Queued
<1>2. phase[c] = "queued"
  BY <1>1 DEF PoolInv, QueuesSound
<1>3. c \in Calls
  <2>1. queues[a] \in Seq(Calls)
    BY <1>1 DEF PoolInv, TypeOK
  <2>. QED  BY <1>1, <2>1, ElementOfSeq, LenProperties DEF ToSet
<1>. QED  BY <1>2, <1>3 DEF Waiting

(* A step that moves the calls of S out of the queues to a final stage, and *)
(* leaves the stages of all others, is a SendAway.                         *)
LEMMA SendsAway ==
  ASSUME NEW S \in SUBSET Waiting,
         \A c \in Calls : StageOf(phase'[c]) = IF c \in S THEN "gone" ELSE StageOf(phase[c])
  PROVE  /\ S \in SUBSET Abstract!At("waiting")
         /\ Stage' = Abstract!Moved(Stage, S, "gone")
<1>1. Stage' = [c \in Calls |-> StageOf(phase'[c])]
  BY StageIsOfPhase
<1>. QED  BY <1>1, StagesAreSets, StageIsOfPhase DEF Abstract!Moved

(* Below the limit on entries there is room for one more holder.           *)
LEMMA CapacityIsRoom ==
  ASSUME FixedInv, NEW a \in Actions, HasCapacity(a)
  PROVE  Abstract!Room
<1>. SUFFICES ASSUME ~drained, InitConfig[Global].limit # 0
              PROVE  Cardinality(Holding) < InitConfig[Global].limit
  BY StagesAreSets, SameCardinality DEF Abstract!Room
<1>1. Cardinality(running) < InitConfig[Global].limit
  BY DEF HasCapacity, FixedInv, Unresized
<1>2. Holding \subseteq running
  BY DEF Holding, FixedInv, Unresized, UpHoldsSlot
<1>3. IsFiniteSet(running) /\ Cardinality(running) \in Nat
  BY RunningFinite DEF FixedInv, PoolInv
<1>4. Cardinality(Holding) \in Nat /\ Cardinality(Holding) <= Cardinality(running)
  BY <1>2, <1>3, FS_Subset, FS_CardinalityType
<1>5. InitConfig[Global].limit \in Nat
  BY PoolAssumption DEF Scopes, PoolConfig
<1>. QED  BY <1>1, <1>3, <1>4, <1>5

LEMMA AcquireRefines ==
  ASSUME FixedInv, NEW c \in Calls, Acquire(c)
  PROVE  Abstract!Enter(c) \/ Abstract!Wait(c) \/ Abstract!TurnAway(c)
<1>. USE DEF StageOf
<1>0. TypeOK /\ phase \in [Calls -> Phases]
  BY DEF FixedInv, PoolInv, TypeOK
<1>1. phase[c] = "idle" /\ Stage[c] = "outside" /\ drained' = drained
  BY StagesAreSets DEF Acquire, AcquireRun, AcquireQueue, AcquireDisplace, AcquireReject, NoRoom
<1>s. Stage' = [x \in Calls |-> StageOf(phase'[x])] /\ Stage = [x \in Calls |-> StageOf(phase[x])]
  BY StageIsOfPhase
<1>2. CASE AcquireRun(c)
  <2>1. Abstract!Room
    BY <1>2, CapacityIsRoom, PoolAssumption DEF AcquireRun
  <2>2. \A x \in Calls : phase'[x] = IF x = c THEN "starting" ELSE phase[x]
    BY <1>0, <1>2 DEF AcquireRun
  <2>3. Stage' = Abstract!Moved(Stage, {c}, "holding")
    BY <1>s, <2>2 DEF Abstract!Moved
  <2>. QED  BY <1>1, <2>1, <2>3 DEF Abstract!Enter
<1>3. CASE AcquireQueue(c)
  <2>1. \A x \in Calls : phase'[x] = IF x = c THEN "queued" ELSE phase[x]
    BY <1>0, <1>3 DEF AcquireQueue
  <2>2. Stage' = Abstract!Moved(Abstract!Moved(Stage, {}, "gone"), {c}, "waiting")
    BY <1>s, <2>1 DEF Abstract!Moved
  <2>. QED  BY <1>1, <2>2 DEF Abstract!Wait
<1>4. CASE AcquireDisplace(c)
  <2>1. PICK b \in DisplaceFrom(c) : \E i \in DOMAIN queues[b] : Displace(c, b, i)
    BY <1>4 DEF AcquireDisplace
  <2>2. PICK i \in DOMAIN queues[b] : Displace(c, b, i)
    BY <2>1
  <2>. DEFINE v == queues[b][i]
  <2>3. b \in Actions
    BY PoolAssumption DEF DisplaceFrom
  <2>4. v \in Waiting
    BY <2>3, QueuedAreWaiting DEF Queued, ToSet, FixedInv
  <2>5. v \in Calls /\ v # c
    BY <1>1, <2>4 DEF Waiting
  <2>6. \A x \in Calls : phase'[x] = IF x = v THEN "cancelling"
                                     ELSE IF x = c THEN "queued" ELSE phase[x]
    BY <1>0, <2>2, <2>5 DEF Displace
  <2>7. Stage' = Abstract!Moved(Abstract!Moved(Stage, {v}, "gone"), {c}, "waiting")
    BY <1>s, <2>5, <2>6 DEF Abstract!Moved
  <2>8. {v} \in SUBSET Abstract!At("waiting")
    BY <2>4, StagesAreSets
  <2>. QED  BY <1>1, <2>7, <2>8 DEF Abstract!Wait
<1>5. CASE AcquireReject(c)
  <2>1. \A x \in Calls : phase'[x] = IF x = c THEN "rejected" ELSE phase[x]
    BY <1>0, <1>5 DEF AcquireReject
  <2>2. Stage' = Abstract!Moved(Stage, {c}, "gone")
    BY <1>s, <2>1 DEF Abstract!Moved
  <2>. QED  BY <1>1, <2>2 DEF Abstract!TurnAway
<1>. QED  BY <1>2, <1>3, <1>4, <1>5 DEF Acquire

LEMMA IsLeave ==
  ASSUME NEW c \in Calls, Stage[c] = "holding", drained' = drained,
         NEW S \in SUBSET Abstract!At("waiting"), NEW W \in SUBSET Abstract!At("waiting"),
         W = {} \/ \E v : W = {v},
         Stage' = Abstract!Moved(Abstract!Moved(Stage, S \cup {c}, "gone"), W, "holding")
  PROVE  Abstract!Leave(c)
<1>1. Abstract!Cardinality(W) <= 1
  <2>1. Cardinality(W) \in {0, 1}
    BY FS_EmptySet, FS_Singleton
  <2>. QED  BY <2>1, SameCardinality
<1>2. UNCHANGED ~drained
  OBVIOUS
<1>. QED  BY <1>1, <1>2, Zenon DEF Abstract!Leave

(* An exit sends away what expired, and hands the slot to who is admitted.  *)
LEMMA ExitRefines ==
  ASSUME FixedInv, NEW c \in Calls, Exit(c)
  PROVE  Abstract!Leave(c)
<1>. USE DEF StageOf
<1>. DEFINE ph == [phase EXCEPT ![c] = "ended"]
<1>1. /\ phase[c] = "up" /\ Release(TaskOf[c], ph)
      /\ \A x \in Calls : ph[x] = IF x = c THEN "ended" ELSE phase[x]
  BY DEF Exit, FixedInv, PoolInv, TypeOK
<1>. HIDE DEF ph
<1>2. Stage[c] = "holding" /\ drained' = drained
  BY <1>1, StagesAreSets DEF Holding, Release
<1>3. Queued(queues) \subseteq Waiting /\ c \notin Waiting
  BY <1>1, QueuedAreWaiting DEF FixedInv, Waiting
<1>s. Stage' = [x \in Calls |-> StageOf(phase'[x])] /\ Stage = [x \in Calls |-> StageOf(phase[x])]
  BY StageIsOfPhase
<1>4. CASE ReleaseAndAdmit(TaskOf[c], ph)
  <2>1. PICK a \in Actions : \E i \in Fresh(a), S \in Passed(a) : Admit(TaskOf[c], ph, a, i, S)
    BY <1>4 DEF ReleaseAndAdmit
  <2>2. PICK i \in Fresh(a), S \in Passed(a) : Admit(TaskOf[c], ph, a, i, S)
    BY <2>1
  <2>. DEFINE v == queues[a][i]
              D == Queued(queues) \ Queued(AfterTake(a, i, S))
  <2>3. v \in Waiting
    BY <1>3 DEF Fresh, Queued, ToSet
  <2>4. D \in SUBSET Abstract!At("waiting") /\ {v} \in SUBSET Abstract!At("waiting")
    BY <1>3, <2>3, StagesAreSets
  <2>5. \A x \in Calls : phase'[x] = IF x = v THEN "starting"
                                     ELSE IF x \in D THEN "cancelled" ELSE ph[x]
    BY <2>2 DEF Admit
  <2>. HIDE DEF v, D
  <2>6. Stage' = Abstract!Moved(Abstract!Moved(Stage, D \cup {c}, "gone"), {v}, "holding")
    BY <1>1, <1>s, <2>5 DEF Abstract!Moved
  <2>. QED  BY <1>2, <2>4, <2>6, IsLeave
<1>5. CASE ReleaseOnly(TaskOf[c], ph)
  <2>1. \A x \in Calls : phase'[x] = IF x \in Queued(queues) THEN "cancelled" ELSE ph[x]
    BY <1>5 DEF ReleaseOnly
  <2>2. Queued(queues) \in SUBSET Abstract!At("waiting") /\ {} \in SUBSET Abstract!At("waiting")
    BY <1>3, StagesAreSets
  <2>3. Stage' = Abstract!Moved(Abstract!Moved(Stage, Queued(queues) \cup {c}, "gone"), {}, "holding")
    BY <1>1, <1>s, <2>1 DEF Abstract!Moved
  <2>. QED  BY <1>2, <2>2, <2>3, IsLeave
<1>. QED  BY <1>1, <1>4, <1>5 DEF Release

(* The removal of a failed start's entry is the end of its stay.           *)
LEMMA RollbackRefines ==
  ASSUME FixedInv, NEW c \in Calls, Rollback(c)
  PROVE  Abstract!Leave(c)
<1>. USE DEF StageOf
<1>1. Stage[c] = "holding" /\ drained' = drained
  BY StagesAreSets DEF Holding, Rollback
<1>2. \A x \in Calls : phase'[x] = IF x # c THEN phase[x]
                                   ELSE IF c \in stoppable THEN "failed" ELSE "cancelling"
  BY DEF Rollback, FixedInv, PoolInv, TypeOK
<1>3. Stage' = Abstract!Moved(Abstract!Moved(Stage, {} \cup {c}, "gone"), {}, "holding")
  BY <1>2, StageIsOfPhase DEF Abstract!Moved
<1>4. {} \in SUBSET Abstract!At("waiting")
  OBVIOUS
<1>. QED  BY <1>1, <1>3, <1>4, IsLeave

(* Closures that return, and items that grow old, change no stage.         *)
LEMMA StutterRefines ==
  ASSUME FixedInv, NEW c \in Calls, StartOK(c) \/ StartFail(c) \/ RunCancelFn(c) \/ Age(c)
  PROVE  UNCHANGED Abstract!slotVars
<1>. USE DEF StageOf
<1>1. drained' = drained
  BY DEF StartOK, StartFail, RunCancelFn, Age
<1>2. \A x \in Calls : StageOf(phase'[x]) = StageOf(phase[x])
  BY DEF StartOK, StartFail, RunCancelFn, Age, FixedInv, PoolInv, TypeOK
<1>3. Stage' = Stage
  BY <1>2, StageIsOfPhase
<1>. QED  BY <1>1, <1>3 DEF Abstract!slotVars

LEMMA TakeOffRefines ==
  ASSUME FixedInv, NEW Q, TakeOff(Q)
  PROVE  \E S \in SUBSET Abstract!At("waiting") : Stage' = Abstract!Moved(Stage, S, "gone")
<1>. DEFINE S == Queued(queues) \ Queued(Q)
<1>1. S \in SUBSET Waiting
  BY QueuedAreWaiting DEF FixedInv
<1>2. \A x \in Calls : StageOf(phase'[x]) = IF x \in S THEN "gone" ELSE StageOf(phase[x])
  BY DEF TakeOff, StageOf
<1>. HIDE DEF S
<1>. QED  BY <1>1, <1>2, SendsAway

LEMMA ServeRefines ==
  ASSUME FixedInv, [Serve]_poolVars
  PROVE  [Abstract!SlotsNext]_(Abstract!slotVars)
<1>1. ASSUME NEW c \in Calls, Request(c) PROVE Abstract!SlotsNext
  BY <1>1, AcquireRefines DEF Request, Abstract!SlotsNext
<1>2. ASSUME NEW c \in Calls, Exit(c) \/ Rollback(c) PROVE Abstract!SlotsNext
  BY <1>2, ExitRefines, RollbackRefines DEF Abstract!SlotsNext
<1>3. ASSUME NEW c \in Calls, StartOK(c) \/ StartFail(c) \/ RunCancelFn(c) \/ Age(c)
      PROVE  UNCHANGED Abstract!slotVars
  BY <1>3, StutterRefines
<1>4. ASSUME \/ \E t : Dequeue(t)
             \/ \E a \in Actions : Expire(a)
             \/ \E s \in Scopes : PurgeQueue(s)
      PROVE  Abstract!SlotsNext
  <2>1. (\E Q : TakeOff(Q)) /\ drained' = drained
    BY <1>4 DEF Dequeue, Expire, PurgeQueue
  <2>2. Abstract!SendAway
    BY <2>1, TakeOffRefines DEF Abstract!SendAway
  <2>. QED  BY <2>2 DEF Abstract!SlotsNext
<1>5. CASE DrainAll
  <2>1. ~drained /\ drained' = TRUE /\ \E Q : TakeOff(Q)
    BY <1>5 DEF DrainAll
  <2>2. Abstract!Close
    BY <2>1, TakeOffRefines DEF Abstract!Close
  <2>. QED  BY <2>2 DEF Abstract!SlotsNext
<1>6. CASE UNCHANGED poolVars
  BY <1>6 DEF poolVars, Abstract!slotVars, Stage
<1>. QED  BY <1>1, <1>2, <1>3, <1>4, <1>5, <1>6 DEF Serve

(* Without set_pool the pool implements the abstract pool of slots, for any *)
(* calls, actions and configurations, displacement and failing starts      *)
(* included.                                                               *)
THEOREM PoolImplementsSlots == FixedSpec => ImplementsSlots
<1>1. Init => Abstract!SlotsInit
  BY StageIsOfPhase DEF Init, Abstract!SlotsInit, StageOf
<1>2. FixedInv /\ [Serve]_poolVars => [Abstract!SlotsNext]_(Abstract!slotVars)
  BY ServeRefines
<1>. QED  BY <1>1, <1>2, FixedInvariant, PTL DEF FixedSpec, ImplementsSlots, Abstract!SlotsSpec
=============================================================================
