-------------------------------- MODULE Server --------------------------------
(***************************************************************************)
(* The life of the program: main of run.go accepts the connections that    *)
(* the transport of transport.go hands over, and when that channel closes  *)
(* drains the pool and shuts the hub down while starts, exits, restarts,   *)
(* stops and resets of the tasks go on.                                    *)
(*                                                                         *)
(* A step is a critical section of task.mu or h.mu, a channel operation or *)
(* a call of handler.Start.  A worker is its generation in its task: 1 is  *)
(* started by handleStart, the later ones by doRestart and handleReset.    *)
(***************************************************************************)
EXTENDS Naturals, Sequences

CONSTANTS
  Conns,         \* connections that clients may open
  Tasks,
  RetryTasks,    \* the tasks that have a retry policy
  DelayedTasks,  \* the ones whose policy has a restart delay
  MaxWorkers     \* bound: workers of a task

ASSUME ServerAssumption ==
  RetryTasks \subseteq Tasks /\ DelayedTasks \subseteq RetryTasks /\ MaxWorkers \in Nat \ {0}

VARIABLES
  ctxDone,       \* SIGINT or SIGTERM cancelled ctx
  transport,     \* which transport runs, until it closed connChan
  ch,            \* connChan
  conn,          \* where each connection is
  main,          \* where main is
  unseen,        \* tasks that the loop over h.tasks has still to visit
  toStop,        \* the workers Shutdown collected
  outcome,       \* what Shutdown returned
  start,         \* where the startFn of each task is
  record,        \* task.record.State
  taskWorker,    \* task.worker, 0 is nil
  worker,        \* the state of each worker
  intentional,   \* the workers whose intentionalStop is set
  restart,       \* the doRestart goroutine of each task
  held,          \* tasks whose task.mu a blocked broadcast holds
  late           \* history: tasks whose worker was set in this poll after the look at it

connVars == <<ctxDone, transport, ch, conn>>
mainVars == <<main, unseen, toStop, outcome>>
taskVars == <<start, record, taskWorker, worker, intentional, restart, held>>
serverVars == <<connVars, mainVars, taskVars, late>>

Workers == Tasks \X (1..MaxWorkers)

ServerTypeOK ==
  /\ ctxDone \in BOOLEAN /\ transport \in {"http", "stdio", "closed"}
  /\ ch \in Seq(Conns) /\ Len(ch) <= 1
  /\ conn \in [Conns -> {"none", "requested", "offered", "sent", "served", "closed", "panicked"}]
  /\ main \in {"serving", "draining", "closing", "collecting", "stopping", "waiting",
               "polling", "done", "crashed"}
  /\ unseen \subseteq Tasks /\ toStop \subseteq Workers
  /\ outcome \in {"none", "clean", "timeout"}
  /\ start \in [Tasks -> {"none", "registered", "launched", "up"}]
  /\ record \in [Tasks -> {"active", "stopped", "errored"}]
  /\ taskWorker \in [Tasks -> 0..MaxWorkers]
  /\ worker \in [Tasks -> [1..MaxWorkers -> {"none", "running", "exited", "settled"}]]
  /\ intentional \subseteq Workers
  /\ restart \in [Tasks -> {"none", "delay", "due"}]
  /\ held \subseteq Tasks /\ late \subseteq Tasks

ServerInit ==
  /\ ctxDone = FALSE /\ ch = <<>>
  /\ \/ transport = "http" /\ conn = [k \in Conns |-> "none"]
     \/ /\ transport = "stdio"
        /\ \E j \in Conns : conn = [k \in Conns |-> IF k = j THEN "offered" ELSE "none"]
  /\ main = "serving" /\ unseen = {} /\ toStop = {} /\ outcome = "none"
  /\ start = [t \in Tasks |-> "none"] /\ record = [t \in Tasks |-> "active"]
  /\ taskWorker = [t \in Tasks |-> 0]
  /\ worker = [t \in Tasks |-> [g \in 1..MaxWorkers |-> "none"]]
  /\ intentional = {} /\ restart = [t \in Tasks |-> "none"]
  /\ held = {} /\ late = {}

Registered == {t \in Tasks : start[t] \in {"registered", "launched", "up"}}
Runs(t, g) == g > 0 /\ worker[t][g] = "running"
Ended == main \in {"done", "crashed"}
ShuttingDown == main \notin {"serving", "draining", "closing"}
-----------------------------------------------------------------------------
(* The transport.  A /ws handler upgrades its request, perhaps after the     *)
(* listener is closed, and offers the connection; the stdio transport       *)
(* offers its only one from the start.                                     *)

Signal ==
  /\ ~ctxDone
  /\ ctxDone' = TRUE
  /\ UNCHANGED <<transport, ch, conn, mainVars, taskVars, late>>

Request(k) ==
  /\ conn[k] = "none" /\ transport = "http"
  /\ conn' = [conn EXCEPT ![k] = "requested"]
  /\ UNCHANGED <<ctxDone, transport, ch, mainVars, taskVars, late>>

Upgrade(k) ==
  /\ conn[k] = "requested"
  /\ conn' = [conn EXCEPT ![k] = "offered"]
  /\ UNCHANGED <<ctxDone, transport, ch, mainVars, taskVars, late>>

(* Mutation: without the case ctx.Done.                                    *)
Hand_SendOnly(k) ==
  /\ conn[k] = "offered" /\ transport # "closed" /\ ch = <<>>
  /\ ch' = <<k>> /\ conn' = [conn EXCEPT ![k] = "sent"]
  /\ UNCHANGED <<ctxDone, transport, mainVars, taskVars, late>>

(* The select of the handler: the send, which panics on a closed channel    *)
(* (net/http recovers), or ctx.Done.                                       *)
Hand(k) ==
  /\ conn[k] = "offered"
  /\ \/ /\ transport # "closed" /\ ch = <<>>
        /\ ch' = <<k>> /\ conn' = [conn EXCEPT ![k] = "sent"]
     \/ /\ transport = "closed"
        /\ conn' = [conn EXCEPT ![k] = "panicked"] /\ UNCHANGED ch
     \/ /\ ctxDone
        /\ conn' = [conn EXCEPT ![k] = "closed"] /\ UNCHANGED ch
  /\ UNCHANGED <<ctxDone, transport, mainVars, taskVars, late>>

(* The deferred close: when ctx is cancelled, when Serve fails, or, for      *)
(* stdio, as soon as the only connection is handed over.                   *)
CloseChan ==
  /\ transport # "closed"
  /\ transport = "stdio" => \E k \in Conns : conn[k] \in {"sent", "served", "closed"}
  /\ transport' = "closed"
  /\ UNCHANGED <<ctxDone, ch, conn, mainVars, taskVars, late>>
-----------------------------------------------------------------------------
(* Starts.  The pool admits them as ever during the shutdown: DrainAll only *)
(* empties its queues and forgets what runs.                               *)

(* Both loops of Shutdown hold h.mu for reading until their last task.      *)
HubLocked == main \in {"collecting", "polling"}

Register(t) ==
  /\ start[t] = "none" /\ ~HubLocked
  /\ start' = [start EXCEPT ![t] = "registered"]
  /\ record' = [record EXCEPT ![t] = "active"]
  /\ UNCHANGED <<connVars, mainVars, taskWorker, worker, intentional, restart, held, late>>

(* task.worker is set while a poll of Shutdown is under way.                *)
NoteSet(t) == late' = IF main = "polling" THEN late \cup {t} ELSE late

Launch(t) ==
  /\ start[t] = "registered"
  /\ start' = [start EXCEPT ![t] = "launched"]
  /\ worker' = [worker EXCEPT ![t][1] = "running"]
  /\ UNCHANGED <<connVars, mainVars, record, taskWorker, intentional, restart, held, late>>

(* The worker runs, and may exit and be restarted, before task.worker = w.  *)
Assign(t) ==
  /\ start[t] = "launched" /\ t \notin held
  /\ start' = [start EXCEPT ![t] = "up"]
  /\ taskWorker' = [taskWorker EXCEPT ![t] = 1]
  /\ NoteSet(t)
  /\ UNCHANGED <<connVars, mainVars, record, worker, intentional, restart, held>>

LaunchFails(t) ==
  /\ start[t] = "registered" /\ ~HubLocked
  /\ start' = [start EXCEPT ![t] = "none"]
  /\ UNCHANGED <<connVars, mainVars, record, taskWorker, worker, intentional, restart,
                 held, late>>

(* handler.Start under task.mu, and task.worker = w.                        *)
NextWorker(t, g) == worker[t][g] = "none" /\ \A i \in 1..(g - 1) : worker[t][i] # "none"
Replace(t, g) ==
  /\ NextWorker(t, g)
  /\ worker' = [worker EXCEPT ![t][g] = "running"]
  /\ taskWorker' = [taskWorker EXCEPT ![t] = g]
  /\ NoteSet(t)
-----------------------------------------------------------------------------
(* Exits: the process ends and w.State is set; onWorkerExited then enters   *)
(* task.mu and ends the task, or schedules a restart.                      *)

Exit(t, g) ==
  /\ Runs(t, g)
  /\ worker' = [worker EXCEPT ![t][g] = "exited"]
  /\ UNCHANGED <<connVars, mainVars, start, record, taskWorker, intentional, restart,
                 held, late>>

Scheduled(t) == IF t \in DelayedTasks THEN "delay" ELSE "due"

(* Mutation: the intentional flag is not looked at.                        *)
Settle_IgnoresIntent(t, g) ==
  /\ worker[t][g] = "exited" /\ t \notin held
  /\ worker' = [worker EXCEPT ![t][g] = "settled"]
  /\ \/ /\ record[t] = "stopped" \/ t \notin RetryTasks
        /\ UNCHANGED <<record, restart>>
     \/ /\ record[t] # "stopped" /\ t \in RetryTasks
        /\ restart' = [restart EXCEPT ![t] = Scheduled(t)] /\ UNCHANGED record
  /\ UNCHANGED <<connVars, mainVars, start, taskWorker, intentional, held, late>>

Settle(t, g) ==
  /\ worker[t][g] = "exited" /\ t \notin held
  /\ worker' = [worker EXCEPT ![t][g] = "settled"]
  /\ LET restarts == <<t, g>> \notin intentional /\ record[t] # "stopped" /\ t \in RetryTasks IN
     \/ ~restarts /\ UNCHANGED <<record, restart>>
     \/ restarts /\ record' = [record EXCEPT ![t] = "errored"] /\ UNCHANGED restart
     \/ restarts /\ restart' = [restart EXCEPT ![t] = Scheduled(t)] /\ UNCHANGED record
  /\ UNCHANGED <<connVars, mainVars, start, taskWorker, intentional, held, late>>

(* The select of doRestart between its timer and shutdownCh.               *)
TimerFires(t) ==
  /\ restart[t] = "delay"
  /\ restart' = [restart EXCEPT ![t] = "due"]
  /\ UNCHANGED <<connVars, mainVars, start, record, taskWorker, worker, intentional,
                 held, late>>

AbortRestart(t) ==
  /\ restart[t] = "delay" /\ ShuttingDown
  /\ restart' = [restart EXCEPT ![t] = "none"]
  /\ UNCHANGED <<connVars, mainVars, start, record, taskWorker, worker, intentional,
                 held, late>>

(* Mutation: the state of the record is not looked at.                     *)
DoRestart_Unchecked(t) ==
  /\ restart[t] = "due" /\ t \notin held
  /\ restart' = [restart EXCEPT ![t] = "none"]
  /\ \E g \in 1..MaxWorkers : Replace(t, g)
  /\ UNCHANGED <<connVars, mainVars, start, record, intentional, held>>

(* Cancelled, failed, or started.                                          *)
DoRestart(t) ==
  /\ restart[t] = "due" /\ t \notin held
  /\ restart' = [restart EXCEPT ![t] = "none"]
  /\ \/ UNCHANGED <<worker, taskWorker, late>>
     \/ record[t] = "active" /\ \E g \in 1..MaxWorkers : Replace(t, g)
  /\ UNCHANGED <<connVars, mainVars, start, record, intentional, held>>

(* onWorkerExited and doRestart broadcast with task.mu held, and WriteJSON  *)
(* has no deadline: a client that does not read keeps the lock.            *)
Stall(t) ==
  /\ t \notin held
  /\ \/ t \in RetryTasks /\ \E g \in 1..MaxWorkers : worker[t][g] = "exited"
     \/ restart[t] = "due" /\ record[t] = "active"
  /\ held' = held \cup {t}
  /\ UNCHANGED <<connVars, mainVars, start, record, taskWorker, worker, intentional,
                 restart, late>>
-----------------------------------------------------------------------------
(* Worker.Stop of worker g, called where main is `at`.  A second Stop before *)
(* the exit closes stopCh again, and the panic ends the program.           *)
StopWorker(t, g, at) ==
  IF Runs(t, g)
  THEN /\ intentional' = intentional \cup {<<t, g>>}
       /\ main' = IF <<t, g>> \in intentional THEN "crashed" ELSE at
  ELSE intentional' = intentional /\ main' = at

(* handleStop and stopWorker                                               *)
ClientStop(t) ==
  /\ t \in Registered \ held
  /\ record' = [record EXCEPT ![t] = "stopped"]
  /\ StopWorker(t, taskWorker[t], main)
  /\ UNCHANGED <<connVars, unseen, toStop, outcome, start, taskWorker, worker,
                 restart, held, late>>

(* handleReset                                                             *)
Reset(t) ==
  /\ t \in Registered \ held /\ record[t] = "errored"
  /\ record' = [record EXCEPT ![t] = "active"]
  /\ \/ UNCHANGED <<worker, taskWorker, late>>
     \/ \E g \in 1..MaxWorkers : Replace(t, g)
  /\ UNCHANGED <<connVars, mainVars, start, intentional, restart, held>>
-----------------------------------------------------------------------------
(* main                                                                    *)

Accept ==
  /\ main = "serving"
  /\ \/ /\ ch # <<>>
        /\ ch' = <<>> /\ conn' = [conn EXCEPT ![Head(ch)] = "served"]
        /\ UNCHANGED main
     \/ /\ ch = <<>> /\ transport = "closed"
        /\ main' = "draining" /\ UNCHANGED <<ch, conn>>
  /\ UNCHANGED <<ctxDone, transport, unseen, toStop, outcome, taskVars, late>>

(* pool.DrainAll                                                           *)
DrainAll ==
  /\ main = "draining"
  /\ main' = "closing"
  /\ UNCHANGED <<connVars, unseen, toStop, outcome, taskVars, late>>

(* Shutdown closes shutdownCh and starts its loop over h.tasks.            *)
BeginShutdown ==
  /\ main = "closing"
  /\ main' = "collecting" /\ unseen' = Registered
  /\ UNCHANGED <<connVars, toStop, outcome, taskVars, late>>

(* Mutation: a task without a worker is collected too.                     *)
Collect_NilToo(t) ==
  /\ main = "collecting" /\ t \in unseen \ held
  /\ unseen' = unseen \ {t}
  /\ toStop' = toStop \cup {<<t, taskWorker[t]>>}
  /\ UNCHANGED <<connVars, main, outcome, taskVars, late>>

Collect(t) ==
  /\ main = "collecting" /\ t \in unseen \ held
  /\ unseen' = unseen \ {t}
  /\ toStop' = toStop \cup {x \in {<<t, taskWorker[t]>>} : Runs(t, taskWorker[t])}
  /\ UNCHANGED <<connVars, main, outcome, taskVars, late>>

CollectEnds ==
  /\ main = "collecting" /\ unseen = {}
  /\ main' = "stopping"
  /\ UNCHANGED <<connVars, unseen, toStop, outcome, taskVars, late>>

StopCollected(t, g) ==
  /\ main = "stopping" /\ <<t, g>> \in toStop
  /\ toStop' = toStop \ {<<t, g>>}
  /\ StopWorker(t, g, main)
  /\ UNCHANGED <<connVars, unseen, outcome, start, record, taskWorker, worker,
                 restart, held, late>>

StopsEnd ==
  /\ main = "stopping" /\ toStop = {}
  /\ main' = "waiting"
  /\ UNCHANGED <<connVars, unseen, toStop, outcome, taskVars, late>>

(* A tick: hasRunningWorkers starts its loop over h.tasks.                 *)
Tick ==
  /\ main = "waiting"
  /\ main' = "polling" /\ unseen' = Registered
  /\ UNCHANGED <<connVars, toStop, outcome, taskVars, late>>

(* Mutation: one idle task is enough for the answer false.                 *)
Poll_First(t) ==
  /\ main = "polling" /\ t \in unseen \ held
  /\ unseen' = {}
  /\ main' = IF Runs(t, taskWorker[t]) THEN "waiting" ELSE main
  /\ late' = late \ {t}
  /\ UNCHANGED <<connVars, toStop, outcome, taskVars>>

Poll(t) ==
  /\ main = "polling" /\ t \in unseen \ held
  /\ IF Runs(t, taskWorker[t])
     THEN main' = "waiting" /\ unseen' = {} /\ late' = {}
     ELSE main' = main /\ unseen' = unseen \ {t} /\ late' = late \ {t}
  /\ UNCHANGED <<connVars, toStop, outcome, taskVars>>

PollEnds ==
  /\ main = "polling" /\ unseen = {}
  /\ main' = "done" /\ outcome' = "clean"
  /\ UNCHANGED <<connVars, unseen, toStop, taskVars, late>>

(* Mutation: the context has no deadline.                                  *)
Timeout_Never == FALSE /\ UNCHANGED serverVars

(* The deadline of 15 seconds is past when ctx.Done is ready here.          *)
Timeout ==
  /\ main = "waiting"
  /\ main' = "done" /\ outcome' = "timeout"
  /\ UNCHANGED <<connVars, unseen, toStop, taskVars, late>>

(* The steps of main, but for the two cases of its last select.            *)
MainStep ==
  \/ Accept \/ DrainAll \/ BeginShutdown \/ CollectEnds \/ StopsEnd \/ PollEnds
  \/ \E t \in Tasks : Collect(t) \/ Poll(t) \/ \E g \in 1..MaxWorkers : StopCollected(t, g)

StartStep(t) == Register(t) \/ Launch(t) \/ Assign(t) \/ LaunchFails(t)
ExitStep(t, g) == Exit(t, g) \/ Settle(t, g)
RestartStep(t) == TimerFires(t) \/ AbortRestart(t) \/ DoRestart(t) \/ Stall(t)

ServerNext ==
  /\ ~Ended
  /\ \/ Signal \/ CloseChan
     \/ MainStep \/ Tick \/ Timeout
     \/ \E k \in Conns : Request(k) \/ Upgrade(k) \/ Hand(k)
     \/ \E t \in Tasks : \/ StartStep(t) \/ RestartStep(t) \/ ClientStop(t) \/ Reset(t)
                         \/ \E g \in 1..MaxWorkers : ExitStep(t, g)

(* main and the goroutines of the transport run, and the clock goes on: the *)
(* deadline passes, ctx.Done is then ready at every round of the loop, and  *)
(* Go picks a ready case at random, so that Timeout is taken in the end.    *)
(* Nothing is assumed of clients, signals, processes or tasks.             *)
Unless(A) == ~Ended /\ A
ServerFairness ==
  /\ WF_serverVars(Unless(MainStep)) /\ WF_serverVars(Unless(Tick))
  /\ SF_serverVars(Unless(Timeout))
  /\ WF_serverVars(Unless((transport = "stdio" \/ ctxDone) /\ CloseChan))
  /\ \A k \in Conns : WF_serverVars(Unless(Hand(k)))

ServerSpec == ServerInit /\ [][ServerNext]_serverVars /\ ServerFairness
-----------------------------------------------------------------------------
(* Properties.                                                             *)

(* A clean Shutdown leaves no worker of a task running, but for one that    *)
(* became task.worker after the last look at its task: the poll reads the  *)
(* tasks one by one, while starts, restarts and resets go on.              *)
CleanShutdown ==
  outcome = "clean" =>
    \A t \in Tasks : Runs(t, taskWorker[t]) => t \in late

(* A worker told to stop, by a client or by Shutdown, is the last of its    *)
(* task: neither a restart in flight nor a reset replaces it.              *)
ToldIsLast ==
  \A t \in Tasks, g \in 2..MaxWorkers : <<t, g - 1>> \in intentional => worker[t][g] = "none"

(* A stop misses the running worker of its task only around the first       *)
(* start, where task.worker is assigned late: the worker is the first one,  *)
(* or the first one was written over it.                                   *)
StopReaches ==
  \A t \in Tasks, g \in 1..MaxWorkers :
    record[t] = "stopped" /\ Runs(t, g) =>
      <<t, g>> \in intentional \/ g = 1 \/ taskWorker[t] = 1

(* Once ctx is cancelled, or at once with the stdio transport, the          *)
(* program ends, whatever its tasks do: unless a broadcast blocks with a    *)
(* task.mu, for then Shutdown waits where its deadline is not looked at.    *)
MainEnds == (ctxDone \/ transport # "http") ~> (Ended \/ held # {})

(* A connection that was upgraded is served, closed, or left to the panic   *)
(* of its handler.                                                         *)
ConnsSettled ==
  \A k \in Conns : conn[k] = "offered" ~> conn[k] \in {"served", "closed", "panicked"} \/ Ended
=============================================================================
