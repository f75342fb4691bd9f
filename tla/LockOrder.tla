------------------------------ MODULE LockOrder ------------------------------
(***************************************************************************)
(* The locks of the program and the order in which its goroutines take     *)
(* them: pm.mu and q.mu of the pool, h.mu of the hub (a sync.RWMutex), the *)
(* mu of a Task, of its Worker and of a connection.                        *)
(*                                                                         *)
(* A goroutine is the list of the lock operations that it has still to do; *)
(* everything else is left out.  All goroutines meet at one task, one      *)
(* worker, one queue and one connection: others do not contend.            *)
(***************************************************************************)
EXTENDS Sequences, FiniteSets

CONSTANTS
  Goroutines,   \* goroutines under way at the same time
  Mix,          \* what they may be doing, a set of Jobs
  Nobody        \* the holder of a free lock

Jobs == {"start", "list", "stop", "reset", "output", "exit", "retryExit", "restart",
         "sweep", "set_pool", "shutdown", "connect"}
Locks == {"pm", "q", "h", "task", "worker", "conn"}

ASSUME LockAssumption ==
  /\ Nobody \notin Goroutines
  /\ Mix \subseteq Jobs

VARIABLES
  todo,      \* the operations a goroutine has still to do
  holder,    \* who holds a lock; of h.mu, the writer that has announced itself
  readers    \* who holds h.mu for reading

lockVars == <<todo, holder, readers>>
-----------------------------------------------------------------------------
(* The operations.  A section that takes no further lock always ends: it    *)
(* is one operation.  A writer of h.mu announces itself, which keeps new    *)
(* readers out, and then waits for the readers that are in; its sections   *)
(* take no further lock.                                                   *)

Holding(m) == IF m = "h" THEN <<<<"announce", m>>, <<"write", m>>>> ELSE <<<<"visit", m>>>>
Under(m, body) == <<<<"lock", m>>>> \o body \o <<<<"unlock", m>>>>
Reading(body) == IF body = <<>> THEN <<<<"visit", "h">>>>
                 ELSE <<<<"rlock", "h">>>> \o body \o <<<<"runlock", "h">>>>
-----------------------------------------------------------------------------
(* What the goroutines do.                                                 *)

SendJSON == Holding("conn")

(* Broadcast and BroadcastToSubscribers: when the write fails the           *)
(* connection is removed.                                                  *)
RemoveClient == Holding("h")
Broadcast == Reading(<<>>) \o SendJSON \o <<<<"written", "conn">>>>

Info == Under("pm", Holding("q"))

(* cancelFn and startFn of handleStart and Submit.                         *)
CancelFn == Holding("h") \o Broadcast
StartFn == Holding("h") \o Holding("task") \o Holding("h") \o Broadcast

(* Dedup scan, reservation, Acquire with a free slot or a full pool.       *)
HandleStart ==
  LET ask == Reading(Holding("task")) \o Holding("h")
  IN  {ask \o Holding("pm") \o StartFn, ask \o Info \o Info \o Broadcast}

(* Mutation: the pool is asked with h.mu held.                             *)
HandleList_InfoUnderLock == {Reading(Info \o Under("task", Holding("worker"))) \o SendJSON}

HandleList == {Info \o Reading(Under("task", Holding("worker"))) \o SendJSON}

(* stopWorker, and handleStop of a queued task or of a registered one.     *)
StopWorker == Reading(<<>>) \o Under("task", Holding("worker") \o Holding("worker"))
HandleStop == {Info \o CancelFn \o Broadcast, Info \o StopWorker}

HandleReset == {Reading(<<>>) \o Under("task", SendJSON)}

OnOutput == {Holding("task") \o Broadcast \o Holding("worker")}

(* Release: the cancelFn of an item that TaskQueue.Dequeue finds expired    *)
(* runs under pm.mu; the startFn of the next one does not.                 *)
Release == {Under("pm", Holding("q") \o CancelFn \o Holding("q")) \o StartFn, Info}

(* The exit goroutine and onWorkerExited.                                  *)
Exited == {Holding("worker") \o Holding("worker") \o Broadcast \o r \o Reading(<<>>) :
             r \in Release}
ExitQuiet == {e \o Holding("task") : e \in Exited}
ExitAndRetry == {e \o Under("task", Broadcast) : e \in Exited}

DoRestart == {Under("task", Broadcast)}

SweepExpired == {Holding("pm") \o Holding("q") \o CancelFn}

(* SetLimits, its stop loop with stopWorker, and the answers.              *)
HandleSetPool == {Holding("pm") \o StopWorker \o r \o Info \o Broadcast \o SendJSON :
                    r \in Release}

(* DrainAll, then Hub.Shutdown with one look at the workers.               *)
Shutdown == {Info \o Reading(Under("task", Holding("worker"))) \o Holding("worker")
                  \o Reading(Holding("task"))}

(* AddClient, subscribe and unsubscribe, RemoveClient.                     *)
Connect == {Holding("h") \o Holding("h") \o SendJSON \o RemoveClient}

Script(job) == CASE job = "start"     -> HandleStart
                 [] job = "list"      -> HandleList
                 [] job = "stop"      -> HandleStop
                 [] job = "reset"     -> HandleReset
                 [] job = "output"    -> OnOutput
                 [] job = "exit"      -> ExitQuiet
                 [] job = "retryExit" -> ExitAndRetry
                 [] job = "restart"   -> DoRestart
                 [] job = "sweep"     -> SweepExpired
                 [] job = "set_pool"  -> HandleSetPool
                 [] job = "shutdown"  -> Shutdown
                 [] job = "connect"   -> Connect
-----------------------------------------------------------------------------
LockInit ==
  /\ todo \in [Goroutines -> UNION {Script(job) : job \in Mix}]
  /\ holder = [m \in Locks |-> Nobody]
  /\ readers = {}

Does(g, op, m) == /\ todo[g] # <<>> /\ Head(todo[g]) = <<op, m>>
                  /\ todo' = [todo EXCEPT ![g] = Tail(@)]

Lock(g, m) ==
  /\ Does(g, "lock", m)
  /\ holder[m] = Nobody
  /\ holder' = [holder EXCEPT ![m] = g]
  /\ UNCHANGED readers

Unlock(g, m) ==
  /\ Does(g, "unlock", m)
  /\ holder' = [holder EXCEPT ![m] = Nobody]
  /\ UNCHANGED readers

(* Lock and unlock, or RLock and RUnlock of h.mu.                          *)
Visit(g, m) ==
  /\ Does(g, "visit", m)
  /\ holder[m] = Nobody
  /\ UNCHANGED <<holder, readers>>

(* After a failed write the connection is removed.                         *)
Written(g) ==
  /\ todo[g] # <<>> /\ Head(todo[g])[1] = "written"
  /\ \E more \in {<<>>, RemoveClient} : todo' = [todo EXCEPT ![g] = more \o Tail(@)]
  /\ UNCHANGED <<holder, readers>>

Announce(g) ==
  /\ Does(g, "announce", "h")
  /\ holder["h"] = Nobody
  /\ holder' = [holder EXCEPT !["h"] = g]
  /\ UNCHANGED readers

WriteAndUnlock(g) ==
  /\ Does(g, "write", "h")
  /\ readers = {}
  /\ holder' = [holder EXCEPT !["h"] = Nobody]
  /\ UNCHANGED readers

RLock(g) ==
  /\ Does(g, "rlock", "h")
  /\ holder["h"] = Nobody
  /\ readers' = readers \cup {g}
  /\ UNCHANGED holder

RUnlock(g) ==
  /\ Does(g, "runlock", "h")
  /\ readers' = readers \ {g}
  /\ UNCHANGED holder

Go(g) == \/ \E m \in Locks : Lock(g, m) \/ Unlock(g, m) \/ Visit(g, m)
         \/ Written(g) \/ Announce(g) \/ WriteAndUnlock(g) \/ RLock(g) \/ RUnlock(g)

LockNext == \E g \in Goroutines : Go(g)

LockSpec == LockInit /\ [][LockNext]_lockVars
-----------------------------------------------------------------------------
(* Properties.                                                             *)

(* The operation a goroutine is at can be done now.                        *)
Enabled(g) == LET op == Head(todo[g])[1]
                  m == Head(todo[g])[2]
              IN  CASE op \in {"unlock", "runlock", "written"} -> TRUE
                    [] op = "write" -> readers = {}
                    [] OTHER -> holder[m] = Nobody

(* Every request is answered and every callback returns: while some of them *)
(* are under way, one can go on.  (Each has finitely many operations.)     *)
NoDeadlock == (\A g \in Goroutines : todo[g] = <<>>)
              \/ \E g \in Goroutines : todo[g] # <<>> /\ Enabled(g)
=============================================================================
