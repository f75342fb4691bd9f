---------------------------- MODULE Server_proofs ----------------------------
(* Theorems about Server: for any connections and tasks, any retry policies *)
(* and any number of workers, whatever starts, exits, restarts, stops and   *)
(* resets go on while the program shuts down.                              *)
EXTENDS Server, TLAPS
-----------------------------------------------------------------------------
(* The inductive invariant.                                                *)

(* A task has no worker before handler.Start, and its first one from then   *)
(* on.                                                                     *)
Launched ==
  \A t \in Tasks :
    /\ start[t] \in {"none", "registered"} =>
         /\ taskWorker[t] = 0 /\ restart[t] = "none" /\ record[t] # "errored"
         /\ \A g \in 1..MaxWorkers : worker[t][g] = "none"
    /\ start[t] \in {"launched", "up"} => 1 \in 1..MaxWorkers /\ worker[t][1] # "none"

(* The exit of a worker is settled before the next one is started.          *)
OneByOne ==
  \A t \in Tasks, g \in 1..MaxWorkers :
    worker[t][g] # "none" => \A i \in 1..(g - 1) : worker[t][i] = "settled"

(* A task that waits for a restart or a reset has no worker left, and none  *)
(* that it had was told to stop.                                           *)
Rests(t) == restart[t] # "none" \/ record[t] = "errored"
Resting ==
  \A t \in Tasks :
    /\ record[t] = "errored" => restart[t] = "none"
    /\ Rests(t) => \A g \in 1..MaxWorkers : /\ worker[t][g] \in {"none", "settled"}
                                             /\ <<t, g>> \notin intentional

ToldWasStarted == \A x \in intentional : worker[x[1]][x[2]] # "none"

(* A worker that was started under task.mu is task.worker, unless the late   *)
(* assignment of the first one hides it.                                   *)
Assigned ==
  \A t \in Tasks, g \in 2..MaxWorkers : Runs(t, g) => taskWorker[t] \in {1, g}

(* What the poll has looked at does not run, or was set since.              *)
Polled ==
  main = "polling" => \A t \in Tasks \ unseen : Runs(t, taskWorker[t]) => t \in late

DoneWhenClean == outcome = "clean" => main = "done"

TaskInv == /\ Launched /\ OneByOne /\ Resting /\ ToldWasStarted /\ Assigned
           /\ ToldIsLast /\ StopReaches

MainInv == Polled /\ DoneWhenClean /\ CleanShutdown

ServerInv == ServerTypeOK /\ TaskInv /\ MainInv

LEMMA ServerInitInv == ServerInit => ServerInv
<1>. SUFFICES ASSUME ServerInit PROVE ServerInv
  OBVIOUS
<1>1. ServerTypeOK
  <2>1. <<>> \in Seq(Conns) /\ Len(<<>>) <= 1
    OBVIOUS
  <2>2. 0 \in 0..MaxWorkers
    BY ServerAssumption
  <2>. QED  BY <2>1, <2>2 DEF ServerInit, ServerTypeOK
<1>2. TaskInv
  BY ServerAssumption DEF ServerInit, TaskInv, Launched, OneByOne, Resting, Rests, ToldWasStarted,
                          Assigned, ToldIsLast, StopReaches, Runs
<1>3. MainInv
  BY DEF ServerInit, MainInv, Polled, DoneWhenClean, CleanShutdown
<1>. QED  BY <1>1, <1>2, <1>3 DEF ServerInv
-----------------------------------------------------------------------------
(* Types.                                                                  *)

LEMMA ReplaceTypes ==
  ASSUME ServerTypeOK, NEW t \in Tasks, NEW g \in 1..MaxWorkers, Replace(t, g)
  PROVE  /\ worker' \in [Tasks -> [1..MaxWorkers -> {"none", "running", "exited", "settled"}]]
         /\ taskWorker' \in [Tasks -> 0..MaxWorkers] /\ late' \subseteq Tasks
BY ServerAssumption DEF ServerTypeOK, Replace, NoteSet

LEMMA StopTypes ==
  ASSUME ServerTypeOK, NEW t \in Tasks, NEW g \in 0..MaxWorkers, StopWorker(t, g, main)
  PROVE  intentional' \subseteq Workers /\ main' \in {main, "crashed"}
<1>1. CASE Runs(t, g)
  <2>1. <<t, g>> \in Workers
    BY <1>1, ServerAssumption DEF Workers, Runs
  <2>. QED  BY <1>1, <2>1 DEF StopWorker, ServerTypeOK
<1>2. CASE ~Runs(t, g)
  BY <1>2 DEF StopWorker, ServerTypeOK
<1>. QED  BY <1>1, <1>2

(* The transport and main, as far as they stop no worker.                   *)
LEMMA QuietStepTypes ==
  ASSUME ServerTypeOK,
         \/ Signal \/ CloseChan \/ Accept \/ DrainAll \/ BeginShutdown
         \/ CollectEnds \/ StopsEnd \/ PollEnds \/ Tick \/ Timeout
         \/ \E k \in Conns : Request(k) \/ Upgrade(k) \/ Hand(k)
         \/ \E t \in Tasks : Collect(t) \/ Poll(t)
  PROVE  ServerTypeOK'
<1>1. CASE Signal \/ CloseChan
  BY <1>1 DEF ServerTypeOK, Signal, CloseChan, mainVars, taskVars
<1>2. CASE Accept
  <2>1. <<>> \in Seq(Conns) /\ Len(<<>>) <= 1
    OBVIOUS
  <2>. QED  BY <1>2, <2>1 DEF ServerTypeOK, Accept, taskVars
<1>3. CASE DrainAll \/ BeginShutdown \/ CollectEnds \/ StopsEnd \/ PollEnds \/ Tick \/ Timeout
  BY <1>3 DEF ServerTypeOK, DrainAll, BeginShutdown, CollectEnds, StopsEnd, PollEnds, Tick,
              Timeout, Registered, connVars, taskVars
<1>4. ASSUME NEW k \in Conns, Request(k) \/ Upgrade(k) PROVE ServerTypeOK'
  BY <1>4 DEF ServerTypeOK, Request, Upgrade, mainVars, taskVars
<1>5. ASSUME NEW k \in Conns, Hand(k) PROVE ServerTypeOK'
  <2>1. <<k>> \in Seq(Conns)
    OBVIOUS
  <2>2. Len(<<k>>) <= 1
    OBVIOUS
  <2>3. CASE ch' = <<k>>
    BY <1>5, <2>1, <2>2, <2>3 DEF ServerTypeOK, Hand, mainVars, taskVars
  <2>4. CASE UNCHANGED ch
    BY <1>5, <2>4 DEF ServerTypeOK, Hand, mainVars, taskVars
  <2>. QED  BY <1>5, <2>3, <2>4 DEF Hand
<1>6. ASSUME NEW t \in Tasks, Collect(t) PROVE ServerTypeOK'
  <2>1. {x \in {<<t, taskWorker[t]>>} : Runs(t, taskWorker[t])} \subseteq Workers
    BY ServerAssumption DEF Workers, Runs, ServerTypeOK
  <2>. QED  BY <1>6, <2>1 DEF ServerTypeOK, Collect, connVars, taskVars
<1>7. ASSUME NEW t \in Tasks, Poll(t) PROVE ServerTypeOK'
  BY <1>7 DEF ServerTypeOK, Poll, connVars, taskVars
<1>. QED  BY <1>1, <1>2, <1>3, <1>4, <1>5, <1>6, <1>7

LEMMA TaskStepTypes ==
  ASSUME ServerTypeOK, NEW t \in Tasks,
         \/ StartStep(t) \/ RestartStep(t) \/ ClientStop(t) \/ Reset(t)
         \/ \E g \in 1..MaxWorkers : ExitStep(t, g) \/ StopCollected(t, g)
  PROVE  ServerTypeOK'
<1>1. CASE Register(t) \/ LaunchFails(t)
  BY <1>1 DEF ServerTypeOK, Register, LaunchFails, connVars, mainVars
<1>7. CASE Launch(t)
  BY <1>7, ServerAssumption DEF ServerTypeOK, Launch, connVars, mainVars
<1>8. CASE Assign(t)
  <2>1. 1 \in 0..MaxWorkers
    BY ServerAssumption
  <2>. QED  BY <1>8, <2>1 DEF ServerTypeOK, Assign, NoteSet, connVars, mainVars
<1>2. CASE TimerFires(t) \/ AbortRestart(t) \/ Stall(t)
  BY <1>2 DEF ServerTypeOK, TimerFires, AbortRestart, Stall, connVars, mainVars
<1>3. CASE DoRestart(t) \/ Reset(t)
  <2>1. /\ worker' \in [Tasks -> [1..MaxWorkers -> {"none", "running", "exited", "settled"}]]
        /\ taskWorker' \in [Tasks -> 0..MaxWorkers] /\ late' \subseteq Tasks
    BY <1>3, ReplaceTypes DEF ServerTypeOK, DoRestart, Reset
  <2>. QED  BY <1>3, <2>1 DEF ServerTypeOK, DoRestart, Reset, connVars, mainVars
<1>4. CASE ClientStop(t)
  <2>1. taskWorker[t] \in 0..MaxWorkers
    BY DEF ServerTypeOK
  <2>2. intentional' \subseteq Workers /\ main' \in {main, "crashed"}
    BY <1>4, <2>1, StopTypes DEF ClientStop
  <2>. QED  BY <1>4, <2>2 DEF ServerTypeOK, ClientStop, connVars
<1>5. ASSUME NEW g \in 1..MaxWorkers, Exit(t, g) PROVE ServerTypeOK'
  BY <1>5 DEF ServerTypeOK, Exit, connVars, mainVars
<1>9. ASSUME NEW g \in 1..MaxWorkers, Settle(t, g) PROVE ServerTypeOK'
  <2>1. /\ record' \in [Tasks -> {"active", "stopped", "errored"}]
        /\ restart' \in [Tasks -> {"none", "delay", "due"}]
    BY <1>9 DEF ServerTypeOK, Settle, Scheduled
  <2>2. worker' \in [Tasks -> [1..MaxWorkers -> {"none", "running", "exited", "settled"}]]
    BY <1>9 DEF ServerTypeOK, Settle
  <2>3. UNCHANGED <<connVars, mainVars, start, taskWorker, intentional, held, late>>
    BY <1>9 DEF Settle
  <2>. QED  BY <2>1, <2>2, <2>3 DEF ServerTypeOK, connVars, mainVars
<1>6. ASSUME NEW g \in 1..MaxWorkers, StopCollected(t, g) PROVE ServerTypeOK'
  <2>1. g \in 0..MaxWorkers
    BY ServerAssumption
  <2>2. intentional' \subseteq Workers /\ main' \in {main, "crashed"}
    BY <1>6, <2>1, StopTypes DEF StopCollected
  <2>. QED  BY <1>6, <2>2 DEF ServerTypeOK, StopCollected, connVars
<1>. QED  BY <1>1, <1>2, <1>3, <1>4, <1>5, <1>6, <1>7, <1>8, <1>9
            DEF RestartStep, StartStep, ExitStep
-----------------------------------------------------------------------------
(* The workers.                                                            *)

LEMMA OthersAreOver ==
  ASSUME ServerTypeOK, OneByOne, NEW t \in Tasks, NEW g \in 1..MaxWorkers,
         worker[t][g] \in {"running", "exited"}
  PROVE  \A h \in 1..MaxWorkers : /\ h > g => worker[t][h] = "none"
                                  /\ h < g => worker[t][h] = "settled"
<1>1. \A h \in 1..MaxWorkers : h < g => h \in 1..(g - 1)
  BY ServerAssumption
<1>2. \A h \in 1..MaxWorkers : h > g => g \in 1..(h - 1)
  BY ServerAssumption
<1>. QED  BY <1>1, <1>2 DEF OneByOne

LEMMA TaskInvUndisturbed ==
  ASSUME TaskInv, UNCHANGED taskVars
  PROVE  TaskInv'
BY DEF TaskInv, taskVars, Launched, OneByOne, Resting, Rests, ToldWasStarted, Assigned,
       ToldIsLast, StopReaches, Runs

(* A stop, of task.worker by a client or of a worker that Shutdown has      *)
(* collected: the worker runs, so it is the last one, and its task does not *)
(* rest.                                                                   *)
LEMMA StopKeeps ==
  ASSUME ServerTypeOK, TaskInv, NEW t \in Tasks, NEW g \in 0..MaxWorkers,
         StopWorker(t, g, main), UNCHANGED <<start, taskWorker, worker, restart>>,
         \/ UNCHANGED record
         \/ g = taskWorker[t] /\ record' = [record EXCEPT ![t] = "stopped"]
  PROVE  TaskInv'
<1>1. intentional' = intentional \/ (Runs(t, g) /\ intentional' = intentional \cup {<<t, g>>})
  BY DEF StopWorker
<1>2. Runs(t, g) => /\ g \in 1..MaxWorkers /\ ~Rests(t)
                    /\ \A h \in 1..MaxWorkers : h > g => worker[t][h] = "none"
  <2>1. Runs(t, g) => g \in 1..MaxWorkers
    BY DEF Runs
  <2>. QED  BY <2>1, OthersAreOver DEF Runs, TaskInv, Resting
<1>3. \A u \in Tasks : record'[u] \in {record[u], "stopped"}
  BY DEF ServerTypeOK
<1>4. Launched' /\ OneByOne'
  BY <1>3 DEF TaskInv, Launched, OneByOne
<1>5. Resting'
  BY <1>1, <1>2, <1>3 DEF TaskInv, Resting, Rests
<1>6. ToldWasStarted'
  BY <1>1 DEF TaskInv, ToldWasStarted, Runs
<1>7. Assigned'
  BY DEF TaskInv, Assigned, Runs
<1>8. ToldIsLast'
  <2>. SUFFICES ASSUME NEW u \in Tasks, NEW h \in 2..MaxWorkers, <<u, h - 1>> \in intentional'
                PROVE  worker'[u][h] = "none"
    BY DEF ToldIsLast
  <2>1. CASE <<u, h - 1>> \in intentional
    BY <2>1 DEF TaskInv, ToldIsLast
  <2>2. CASE Runs(t, g) /\ <<u, h - 1>> = <<t, g>>
    <3>1. u = t /\ h > g /\ h \in 1..MaxWorkers
      BY <2>2
    <3>. QED  BY <1>2, <2>2, <3>1
  <2>. QED  BY <1>1, <2>1, <2>2
<1>9. StopReaches'
  <2>. SUFFICES ASSUME NEW u \in Tasks, NEW h \in 1..MaxWorkers,
                       record'[u] = "stopped", Runs(u, h)
                PROVE  <<u, h>> \in intentional' \/ h = 1 \/ taskWorker[u] = 1
    BY DEF StopReaches, Runs
  <2>1. CASE record[u] = "stopped"
    BY <1>1, <2>1 DEF TaskInv, StopReaches
  <2>2. CASE u = t /\ g = taskWorker[t]
    <3>1. h # 1 => h \in 2..MaxWorkers
      OBVIOUS
    <3>2. h = 1 \/ taskWorker[u] \in {1, h}
      BY <3>1 DEF TaskInv, Assigned
    <3>3. g = h => <<u, h>> \in intentional'
      BY <2>2 DEF StopWorker
    <3>. QED  BY <2>2, <3>2, <3>3
  <2>. QED  BY <2>1, <2>2 DEF ServerTypeOK
<1>. QED  BY <1>4, <1>5, <1>6, <1>7, <1>8, <1>9 DEF TaskInv

(* doRestart and handleReset start a worker only for a task that rests.     *)
LEMMA ReplaceKeeps ==
  ASSUME ServerTypeOK, TaskInv, NEW t \in Tasks, NEW g \in 1..MaxWorkers, Replace(t, g),
         Rests(t), UNCHANGED <<start, intentional>>,
         record' = [record EXCEPT ![t] = "active"], restart' = [restart EXCEPT ![t] = "none"]
  PROVE  TaskInv'
<1>1. worker[t][1] # "none" /\ g # 1 /\ start[t] \in {"launched", "up"}
  <2>1. start[t] \in {"launched", "up"}
    BY DEF TaskInv, Launched, Rests, ServerTypeOK
  <2>. QED  BY <2>1 DEF TaskInv, Launched, Replace, NextWorker
<1>2. \A h \in 1..MaxWorkers : worker[t][h] \in {"none", "settled"} /\ <<t, h>> \notin intentional
  BY DEF TaskInv, Resting
<1>3. \A u \in Tasks, h \in 1..MaxWorkers :
        /\ worker'[u][h] = IF u = t /\ h = g THEN "running" ELSE worker[u][h]
        /\ taskWorker'[u] = IF u = t THEN g ELSE taskWorker[u]
  BY DEF ServerTypeOK, Replace
<1>4. \A u \in Tasks : /\ record'[u] = IF u = t THEN "active" ELSE record[u]
                       /\ restart'[u] = IF u = t THEN "none" ELSE restart[u]
  BY DEF ServerTypeOK
<1>5. Launched'
  BY <1>1, <1>3, <1>4 DEF TaskInv, Launched
<1>6. OneByOne'
  <2>. SUFFICES ASSUME NEW u \in Tasks, NEW h \in 1..MaxWorkers, worker'[u][h] # "none",
                       NEW i \in 1..(h - 1)
                PROVE  worker'[u][i] = "settled"
    BY DEF OneByOne
  <2>1. i \in 1..MaxWorkers /\ i < h
    BY ServerAssumption
  <2>2. CASE u = t /\ h = g
    <3>1. worker[t][i] # "none"
      BY <2>2 DEF Replace, NextWorker
    <3>2. worker[t][i] = "settled"
      BY <1>2, <2>1, <3>1
    <3>3. i # g
      BY <2>1, <2>2
    <3>. QED  BY <1>3, <2>1, <2>2, <3>2, <3>3
  <2>3. CASE u = t /\ h # g
    <3>1. worker[t][i] = "settled"
      BY <1>3, <2>3 DEF TaskInv, OneByOne
    <3>2. worker[t][g] = "none"
      BY DEF Replace, NextWorker
    <3>. QED  BY <1>3, <2>1, <2>3, <3>1, <3>2
  <2>4. CASE u # t
    BY <1>3, <2>1, <2>4 DEF TaskInv, OneByOne
  <2>. QED  BY <2>2, <2>3, <2>4
<1>7. Resting'
  BY <1>3, <1>4 DEF TaskInv, Resting, Rests
<1>8. ToldWasStarted'
  <2>1. \A x \in intentional : x = <<x[1], x[2]>> /\ x[1] \in Tasks /\ x[2] \in 1..MaxWorkers
    BY DEF ServerTypeOK, Workers
  <2>. QED  BY <1>3, <2>1 DEF TaskInv, ToldWasStarted
<1>9. Assigned'
  <2>. SUFFICES ASSUME NEW u \in Tasks, NEW h \in 2..MaxWorkers, Runs(u, h)'
                PROVE  taskWorker'[u] \in {1, h}
    BY DEF Assigned
  <2>1. h \in 1..MaxWorkers
    OBVIOUS
  <2>2. CASE u = t
    <3>1. worker'[t][h] = "running"
      BY <2>2 DEF Runs
    <3>2. h = g
      BY <1>2, <1>3, <2>1, <3>1
    <3>. QED  BY <1>3, <2>2, <3>2
  <2>3. CASE u # t
    BY <1>3, <2>1, <2>3 DEF TaskInv, Assigned, Runs
  <2>. QED  BY <2>2, <2>3
<1>10. ToldIsLast'
  <2>1. \A h \in 2..MaxWorkers : h \in 1..MaxWorkers /\ h - 1 \in 1..MaxWorkers
    BY ServerAssumption
  <2>. QED  BY <1>2, <1>3, <2>1 DEF TaskInv, ToldIsLast
<1>11. StopReaches'
  BY <1>3, <1>4 DEF TaskInv, StopReaches, Runs
<1>. QED  BY <1>5, <1>6, <1>7, <1>8, <1>9, <1>10, <1>11 DEF TaskInv

(* The steps of the tasks that neither stop nor replace a worker.           *)
LEMMA StartKeeps ==
  ASSUME ServerTypeOK, TaskInv, NEW t \in Tasks, StartStep(t)
  PROVE  TaskInv'
<1>1. CASE Register(t)
  <2>1. \A u \in Tasks : /\ start'[u] = IF u = t THEN "registered" ELSE start[u]
                         /\ record'[u] = IF u = t THEN "active" ELSE record[u]
    BY <1>1 DEF Register, ServerTypeOK
  <2>. QED  BY <1>1, <2>1 DEF Register, TaskInv, Launched, OneByOne, Resting, Rests,
                    ToldWasStarted, Assigned, ToldIsLast, StopReaches, Runs
<1>2. CASE LaunchFails(t)
  <2>1. \A u \in Tasks : start'[u] = IF u = t THEN "none" ELSE start[u]
    BY <1>2 DEF LaunchFails, ServerTypeOK
  <2>. QED  BY <1>2, <2>1 DEF LaunchFails, TaskInv, Launched, OneByOne, Resting, Rests,
                    ToldWasStarted, Assigned, ToldIsLast, StopReaches, Runs
<1>3. CASE Launch(t)
  <2>0. 1 \in 1..MaxWorkers
    BY ServerAssumption
  <2>1. \A u \in Tasks, h \in 1..MaxWorkers :
          /\ start'[u] = IF u = t THEN "launched" ELSE start[u]
          /\ worker'[u][h] = IF u = t /\ h = 1 THEN "running" ELSE worker[u][h]
    BY <1>3, <2>0 DEF Launch, ServerTypeOK
  <2>2. /\ \A h \in 1..MaxWorkers : worker[t][h] = "none" /\ <<t, h>> \notin intentional
        /\ ~Rests(t)
    BY <1>3 DEF Launch, TaskInv, Launched, ToldWasStarted, Rests
  <2>3. Launched'
    BY <1>3, <2>0, <2>1 DEF Launch, TaskInv, Launched, ServerTypeOK
  <2>4. OneByOne'
    <3>. SUFFICES ASSUME NEW u \in Tasks, NEW h \in 1..MaxWorkers, worker'[u][h] # "none",
                         NEW i \in 1..(h - 1)
                  PROVE  worker'[u][i] = "settled"
      BY DEF OneByOne
    <3>1. i \in 1..MaxWorkers /\ h # 1
      BY ServerAssumption
    <3>2. worker'[u][h] = IF u = t THEN worker[t][h] ELSE worker[u][h]
      BY <2>1, <3>1
    <3>3. u # t
      BY <2>2, <3>2
    <3>. QED  BY <2>1, <3>1, <3>3 DEF TaskInv, OneByOne
  <2>5. Resting'
    BY <1>3, <2>1, <2>2 DEF Launch, TaskInv, Resting, Rests
  <2>6. ToldWasStarted'
    <3>1. \A x \in intentional : x[1] \in Tasks /\ x[2] \in 1..MaxWorkers
      BY DEF ServerTypeOK, Workers
    <3>. QED  BY <1>3, <2>1, <3>1 DEF Launch, TaskInv, ToldWasStarted
  <2>7. \A h \in 2..MaxWorkers : h \in 1..MaxWorkers /\ h - 1 \in 1..MaxWorkers /\ h # 1
    BY ServerAssumption
  <2>8. Assigned' /\ ToldIsLast'
    BY <1>3, <2>1, <2>2, <2>7 DEF Launch, TaskInv, Assigned, ToldIsLast, Runs
  <2>9. StopReaches'
    BY <1>3, <2>1 DEF Launch, TaskInv, StopReaches, Runs
  <2>. QED  BY <2>3, <2>4, <2>5, <2>6, <2>8, <2>9 DEF TaskInv
<1>4. CASE Assign(t)
  <2>1. \A u \in Tasks : /\ start'[u] = IF u = t THEN "up" ELSE start[u]
                         /\ taskWorker'[u] = IF u = t THEN 1 ELSE taskWorker[u]
    BY <1>4 DEF Assign, ServerTypeOK
  <2>. QED  BY <1>4, <2>1 DEF Assign, TaskInv, Launched, OneByOne, Resting, Rests,
                    ToldWasStarted, Assigned, ToldIsLast, StopReaches, Runs
<1>. QED  BY <1>1, <1>2, <1>3, <1>4 DEF StartStep

LEMMA ExitKeeps ==
  ASSUME ServerTypeOK, TaskInv, NEW t \in Tasks, NEW g \in 1..MaxWorkers, Exit(t, g)
  PROVE  TaskInv'
<1>1. \A u \in Tasks, h \in 1..MaxWorkers :
        worker'[u][h] = IF u = t /\ h = g THEN "exited" ELSE worker[u][h]
  BY DEF Exit, ServerTypeOK
<1>2. worker[t][g] = "running"
  BY DEF Exit, Runs
<1>3. Launched'
  BY <1>1, <1>2 DEF Exit, TaskInv, Launched
<1>4. OneByOne'
  <2>. SUFFICES ASSUME NEW u \in Tasks, NEW h \in 1..MaxWorkers, worker'[u][h] # "none",
                       NEW i \in 1..(h - 1)
                PROVE  worker'[u][i] = "settled"
    BY DEF OneByOne
  <2>1. i \in 1..MaxWorkers /\ worker[u][h] # "none"
    BY <1>1, <1>2, ServerAssumption
  <2>. QED  BY <1>1, <1>2, <2>1 DEF TaskInv, OneByOne
<1>5. Resting'
  BY <1>1, <1>2 DEF Exit, TaskInv, Resting, Rests
<1>6. ToldWasStarted'
  <2>1. \A x \in intentional : x[1] \in Tasks /\ x[2] \in 1..MaxWorkers
    BY DEF ServerTypeOK, Workers
  <2>. QED  BY <1>1, <2>1 DEF Exit, TaskInv, ToldWasStarted
<1>7. \A h \in 2..MaxWorkers : h \in 1..MaxWorkers
  OBVIOUS
<1>8. Assigned' /\ ToldIsLast'
  BY <1>1, <1>2, <1>7 DEF Exit, TaskInv, Assigned, ToldIsLast, Runs
<1>9. StopReaches'
  BY <1>1 DEF Exit, TaskInv, StopReaches, Runs
<1>. QED  BY <1>3, <1>4, <1>5, <1>6, <1>8, <1>9 DEF TaskInv

(* The exit of the last worker; the task rests afterwards only if it was     *)
(* not told to stop.                                                       *)
LEMMA SettleKeeps ==
  ASSUME ServerTypeOK, TaskInv, NEW t \in Tasks, NEW g \in 1..MaxWorkers, Settle(t, g)
  PROVE  TaskInv'
<1>1. \A u \in Tasks, h \in 1..MaxWorkers :
        worker'[u][h] = IF u = t /\ h = g THEN "settled" ELSE worker[u][h]
  BY DEF Settle, ServerTypeOK
<1>2. worker[t][g] = "exited" /\ UNCHANGED <<start, taskWorker, intentional>>
  BY DEF Settle
<1>3. \A h \in 1..MaxWorkers : worker'[t][h] \in {"none", "settled"}
  <2>1. \A h \in 1..MaxWorkers : h > g \/ h < g \/ h = g
    BY ServerAssumption
  <2>2. \A h \in 1..MaxWorkers : h # g => worker[t][h] \in {"none", "settled"}
    BY <1>2, <2>1, OthersAreOver DEF TaskInv
  <2>. QED  BY <1>1, <2>2
<1>4. ~Rests(t)
  BY <1>2 DEF TaskInv, Resting
<1>5. \A u \in Tasks : u # t => record'[u] = record[u] /\ restart'[u] = restart[u]
  BY DEF Settle, ServerTypeOK
<1>6. record'[t] = record[t] \/ record'[t] = "errored"
  BY DEF Settle, ServerTypeOK
<1>7. Rests(t)' => <<t, g>> \notin intentional /\ (restart'[t] = "none" \/ record'[t] # "errored")
  BY <1>4 DEF Settle, Rests, ServerTypeOK
<1>8. start[t] \in {"launched", "up"}
  BY <1>2 DEF TaskInv, Launched, ServerTypeOK
<1>9. Launched'
  BY <1>1, <1>2, <1>5, <1>8 DEF TaskInv, Launched
<1>10. OneByOne'
  <2>. SUFFICES ASSUME NEW u \in Tasks, NEW h \in 1..MaxWorkers, worker'[u][h] # "none",
                       NEW i \in 1..(h - 1)
                PROVE  worker'[u][i] = "settled"
    BY DEF OneByOne
  <2>1. i \in 1..MaxWorkers /\ worker[u][h] # "none"
    BY <1>1, <1>2, ServerAssumption
  <2>. QED  BY <1>1, <2>1 DEF TaskInv, OneByOne
<1>11. Resting'
  <2>1. \A h \in 1..MaxWorkers : h # g => <<t, h>> \notin intentional
    <3>. SUFFICES ASSUME NEW h \in 1..MaxWorkers, h # g, <<t, h>> \in intentional PROVE FALSE
      OBVIOUS
    <3>1. CASE h > g
      BY <1>2, <3>1, OthersAreOver DEF TaskInv, ToldWasStarted
    <3>2. CASE h < g
      <4>1. h + 1 \in 2..MaxWorkers /\ h + 1 - 1 = h /\ h + 1 \in 1..MaxWorkers
        BY <3>2, ServerAssumption
      <4>2. worker[t][h + 1] = "none"
        BY <4>1 DEF TaskInv, ToldIsLast
      <4>3. h + 1 < g \/ h + 1 = g
        BY <3>2, ServerAssumption
      <4>. QED  BY <1>2, <4>1, <4>2, <4>3, OthersAreOver DEF TaskInv
    <3>. QED  BY <3>1, <3>2, ServerAssumption
  <2>2. CASE Rests(t)'
    BY <1>1, <1>2, <1>3, <1>5, <1>7, <2>1, <2>2 DEF TaskInv, Resting, Rests
  <2>3. CASE ~Rests(t)'
    BY <1>1, <1>2, <1>3, <1>5, <1>7, <2>3 DEF TaskInv, Resting, Rests
  <2>. QED  BY <2>2, <2>3
<1>12. ToldWasStarted'
  <2>1. \A x \in intentional : x[1] \in Tasks /\ x[2] \in 1..MaxWorkers
    BY DEF ServerTypeOK, Workers
  <2>. QED  BY <1>1, <1>2, <2>1 DEF TaskInv, ToldWasStarted
<1>13. \A h \in 2..MaxWorkers : h \in 1..MaxWorkers
  OBVIOUS
<1>14. Assigned' /\ ToldIsLast'
  BY <1>1, <1>2, <1>13 DEF TaskInv, Assigned, ToldIsLast, Runs
<1>15. StopReaches'
  BY <1>1, <1>2, <1>5, <1>6 DEF TaskInv, StopReaches, Runs
<1>. QED  BY <1>9, <1>10, <1>11, <1>12, <1>14, <1>15 DEF TaskInv

LEMMA TaskInvKept ==
  ASSUME ServerTypeOK, TaskInv, [ServerNext]_serverVars
  PROVE  TaskInv'
<1>1. CASE UNCHANGED serverVars
  BY <1>1, TaskInvUndisturbed DEF serverVars
<1>2. CASE \/ Signal \/ CloseChan \/ Tick \/ Timeout \/ Accept \/ DrainAll \/ BeginShutdown
           \/ CollectEnds \/ StopsEnd \/ PollEnds
           \/ \E k \in Conns : Request(k) \/ Upgrade(k) \/ Hand(k)
           \/ \E t \in Tasks : Collect(t) \/ Poll(t)
  <2>1. UNCHANGED taskVars
    BY <1>2 DEF Signal, CloseChan, Tick, Timeout, Accept, DrainAll, BeginShutdown, CollectEnds,
                StopsEnd, PollEnds, Request, Upgrade, Hand, Collect, Poll
  <2>. QED  BY <2>1, TaskInvUndisturbed
<1>3. ASSUME NEW t \in Tasks, NEW g \in 1..MaxWorkers, StopCollected(t, g) PROVE TaskInv'
  <2>1. g \in 0..MaxWorkers
    BY ServerAssumption
  <2>. QED  BY <1>3, <2>1, StopKeeps DEF StopCollected
<1>4. ASSUME NEW t \in Tasks, ClientStop(t) PROVE TaskInv'
  <2>1. taskWorker[t] \in 0..MaxWorkers
    BY DEF ServerTypeOK
  <2>. QED  BY <1>4, <2>1, StopKeeps DEF ClientStop
<1>5. ASSUME NEW t \in Tasks, TimerFires(t) \/ AbortRestart(t) PROVE TaskInv'
  <2>1. \A u \in Tasks : restart'[u] = restart[u] \/ (restart[u] # "none" /\ u = t)
    BY <1>5 DEF ServerTypeOK, TimerFires, AbortRestart
  <2>2. UNCHANGED <<start, record, taskWorker, worker, intentional>>
    BY <1>5 DEF TimerFires, AbortRestart
  <2>. QED  BY <2>1, <2>2 DEF TaskInv, Launched, OneByOne, Resting, Rests, ToldWasStarted,
                              Assigned, ToldIsLast, StopReaches, Runs
<1>6. ASSUME NEW t \in Tasks, DoRestart(t) PROVE TaskInv'
  <2>1. CASE UNCHANGED <<worker, taskWorker, late>>
    <3>1. \A u \in Tasks : restart'[u] = "none" \/ restart'[u] = restart[u]
      BY <1>6 DEF ServerTypeOK, DoRestart
    <3>2. UNCHANGED <<start, record, taskWorker, worker, intentional>>
      BY <1>6, <2>1 DEF DoRestart
    <3>. QED  BY <3>1, <3>2 DEF TaskInv, Launched, OneByOne, Resting, Rests, ToldWasStarted,
                                Assigned, ToldIsLast, StopReaches, Runs
  <2>2. ASSUME NEW g \in 1..MaxWorkers, record[t] = "active", Replace(t, g) PROVE TaskInv'
    <3>1. record' = [record EXCEPT ![t] = "active"]
      BY <1>6, <2>2 DEF DoRestart, ServerTypeOK
    <3>. QED  BY <1>6, <2>2, <3>1, ReplaceKeeps DEF DoRestart, Rests
  <2>. QED  BY <1>6, <2>1, <2>2 DEF DoRestart
<1>7. ASSUME NEW t \in Tasks, Reset(t) PROVE TaskInv'
  <2>1. restart[t] = "none"
    BY <1>7 DEF Reset, TaskInv, Resting
  <2>2. CASE UNCHANGED <<worker, taskWorker, late>>
    <3>1. \A u \in Tasks : record'[u] = IF u = t THEN "active" ELSE record[u]
      BY <1>7 DEF ServerTypeOK, Reset
    <3>2. UNCHANGED <<start, restart, taskWorker, worker, intentional>>
      BY <1>7, <2>2 DEF Reset
    <3>. QED  BY <3>1, <3>2 DEF TaskInv, Launched, OneByOne, Resting, Rests, ToldWasStarted,
                                Assigned, ToldIsLast, StopReaches, Runs
  <2>3. ASSUME NEW g \in 1..MaxWorkers, Replace(t, g) PROVE TaskInv'
    <3>1. restart' = [restart EXCEPT ![t] = "none"]
      BY <1>7, <2>1 DEF Reset, ServerTypeOK
    <3>. QED  BY <1>7, <2>3, <3>1, ReplaceKeeps DEF Reset, Rests
  <2>. QED  BY <1>7, <2>2, <2>3 DEF Reset
<1>8. ASSUME NEW t \in Tasks, Stall(t) PROVE TaskInv'
  BY <1>8 DEF Stall, TaskInv, Launched, OneByOne, Resting, Rests, ToldWasStarted, Assigned,
              ToldIsLast, StopReaches, Runs
<1>. QED  BY <1>1, <1>2, <1>3, <1>4, <1>5, <1>6, <1>7, <1>8, StartKeeps, ExitKeeps, SettleKeeps
          DEF ServerNext, MainStep, RestartStep, ExitStep
-----------------------------------------------------------------------------
(* The poll.                                                               *)

(* A worker that begins to run in the course of a poll is noted; the first   *)
(* one runs before it is task.worker.                                      *)
LEMMA RunsWithNote ==
  ASSUME ServerInv, NEW t \in Tasks,
         StartStep(t) \/ RestartStep(t) \/ ClientStop(t) \/ Reset(t)
         \/ \E g \in 1..MaxWorkers : ExitStep(t, g) \/ StopCollected(t, g)
  PROVE  /\ \A u \in Tasks : Runs(u, taskWorker[u])' =>
              Runs(u, taskWorker[u]) \/ main # "polling" \/ u \in late'
         /\ late \subseteq late' /\ UNCHANGED <<unseen, outcome>>
         /\ main' \in {main, "crashed"}
<1>1. CASE Register(t) \/ LaunchFails(t)
  BY <1>1 DEF Register, LaunchFails, Runs, mainVars
<1>2. CASE Launch(t)
  <2>1. taskWorker[t] = 0
    BY <1>2 DEF Launch, ServerInv, TaskInv, Launched
  <2>2. \A u \in Tasks : u # t => worker'[u] = worker[u]
    BY <1>2 DEF Launch, ServerInv, ServerTypeOK
  <2>. QED  BY <1>2, <2>1, <2>2 DEF Launch, Runs, mainVars
<1>3. CASE Assign(t)
  <2>1. \A u \in Tasks : u # t => taskWorker'[u] = taskWorker[u]
    BY <1>3 DEF Assign, ServerInv, ServerTypeOK
  <2>. QED  BY <1>3, <2>1 DEF Assign, NoteSet, Runs, mainVars
<1>4. CASE TimerFires(t) \/ AbortRestart(t) \/ Stall(t)
  BY <1>4 DEF TimerFires, AbortRestart, Stall, Runs, mainVars
<1>5. CASE DoRestart(t) \/ Reset(t)
  <2>1. UNCHANGED mainVars
    BY <1>5 DEF DoRestart, Reset
  <2>2. CASE UNCHANGED <<worker, taskWorker, late>>
    BY <2>1, <2>2 DEF Runs, mainVars
  <2>3. ASSUME NEW g \in 1..MaxWorkers, Replace(t, g)
        PROVE  /\ \A u \in Tasks : u # t => Runs(u, taskWorker[u])' = Runs(u, taskWorker[u])
               /\ late' = IF main = "polling" THEN late \cup {t} ELSE late
    <3>1. \A u \in Tasks : u # t => worker'[u] = worker[u] /\ taskWorker'[u] = taskWorker[u]
      BY <2>3 DEF Replace, ServerInv, ServerTypeOK
    <3>. QED  BY <2>3, <3>1 DEF Replace, NoteSet, Runs
  <2>4. CASE \E g \in 1..MaxWorkers : Replace(t, g)
    BY <2>1, <2>3, <2>4 DEF mainVars
  <2>. QED  BY <1>5, <2>2, <2>4 DEF DoRestart, Reset
<1>6. CASE ClientStop(t)
  BY <1>6 DEF ClientStop, StopWorker, Runs
<1>7. ASSUME NEW g \in 1..MaxWorkers, StopCollected(t, g)
      PROVE  /\ UNCHANGED <<worker, taskWorker, late, unseen, outcome>>
             /\ main' \in {main, "crashed"}
  BY <1>7 DEF StopCollected, StopWorker
<1>8. ASSUME NEW g \in 1..MaxWorkers, ExitStep(t, g)
      PROVE  /\ \A u \in Tasks : Runs(u, taskWorker[u])' => Runs(u, taskWorker[u])
             /\ UNCHANGED <<late, mainVars>>
  <2>1. \A u \in Tasks, h \in 1..MaxWorkers :
          worker'[u][h] = "running" => worker[u][h] = "running"
    <3>1. \/ worker' = [worker EXCEPT ![t][g] = "exited"]
          \/ worker' = [worker EXCEPT ![t][g] = "settled"]
      BY <1>8 DEF ExitStep, Exit, Settle
    <3>2. \A u \in Tasks : u # t => worker'[u] = worker[u]
      BY <3>1 DEF ServerInv, ServerTypeOK
    <3>3. \A h \in 1..MaxWorkers : worker'[t][h] = worker[t][h] \/ worker'[t][h] # "running"
      <4>. SUFFICES ASSUME NEW h \in 1..MaxWorkers
                    PROVE  worker'[t][h] = worker[t][h] \/ worker'[t][h] # "running"
        OBVIOUS
      <4>1. worker \in [Tasks -> [1..MaxWorkers -> {"none", "running", "exited", "settled"}]]
        BY DEF ServerInv, ServerTypeOK
      <4>2. h # g => worker'[t][h] = worker[t][h]
        BY <3>1, <4>1
      <4>3. worker'[t][g] \in {"exited", "settled"}
        BY <3>1, <4>1
      <4>. QED  BY <4>2, <4>3
    <3>. QED
      <4>. SUFFICES ASSUME NEW u \in Tasks, NEW h \in 1..MaxWorkers, worker'[u][h] = "running"
                    PROVE  worker[u][h] = "running"
        OBVIOUS
      <4>1. CASE u = t
        BY <3>3, <4>1
      <4>2. CASE u # t
        BY <3>2, <4>2
      <4>. QED  BY <4>1, <4>2
  <2>2. \A u \in Tasks : taskWorker'[u] = taskWorker[u] /\ taskWorker[u] \in 0..MaxWorkers
    BY <1>8 DEF ExitStep, Exit, Settle, ServerInv, ServerTypeOK
  <2>3. UNCHANGED <<late, mainVars>>
    BY <1>8 DEF ExitStep, Exit, Settle
  <2>4. \A u \in Tasks : taskWorker[u] > 0 => taskWorker[u] \in 1..MaxWorkers
    BY <2>2, ServerAssumption
  <2>. QED  BY <2>1, <2>2, <2>3, <2>4 DEF Runs
<1>. QED  BY <1>1, <1>2, <1>3, <1>4, <1>5, <1>6, <1>7, <1>8
          DEF StartStep, RestartStep, Runs, mainVars

LEMMA MainInvKept ==
  ASSUME ServerInv, [ServerNext]_serverVars
  PROVE  MainInv'
<1>1. CASE UNCHANGED serverVars
  BY <1>1 DEF serverVars, mainVars, taskVars, ServerInv, MainInv, Polled, DoneWhenClean,
              CleanShutdown, Runs
<1>. SUFFICES ASSUME ServerNext PROVE MainInv'
  BY <1>1
<1>2. outcome # "clean"
  BY DEF ServerNext, Ended, ServerInv, MainInv, DoneWhenClean
<1>3. CASE Signal \/ CloseChan \/ \E k \in Conns : Request(k) \/ Upgrade(k) \/ Hand(k)
  BY <1>3 DEF Signal, CloseChan, Request, Upgrade, Hand, mainVars, taskVars, ServerInv,
              MainInv, Polled, DoneWhenClean, CleanShutdown, Runs
<1>4. CASE Accept \/ DrainAll \/ BeginShutdown \/ CollectEnds \/ StopsEnd \/ Timeout
           \/ \E t \in Tasks : Collect(t)
  <2>1. main' # "polling" /\ outcome' # "clean"
    BY <1>2, <1>4 DEF Accept, DrainAll, BeginShutdown, CollectEnds, StopsEnd, Timeout, Collect
  <2>. QED  BY <2>1 DEF MainInv, Polled, DoneWhenClean, CleanShutdown
<1>5. CASE Tick
  <2>1. \A t \in Tasks \ Registered : taskWorker[t] = 0
    BY DEF Registered, ServerInv, TaskInv, Launched, ServerTypeOK
  <2>2. \A t \in Tasks : Runs(t, taskWorker[t])' = Runs(t, taskWorker[t])
    BY <1>5 DEF Tick, taskVars, Runs
  <2>3. \A t \in Tasks \ unseen' : ~Runs(t, taskWorker[t])
    BY <1>5, <2>1 DEF Tick, Runs
  <2>. QED  BY <1>2, <1>5, <2>2, <2>3 DEF Tick, MainInv, Polled, DoneWhenClean, CleanShutdown
<1>6. ASSUME NEW t \in Tasks, Poll(t) PROVE MainInv'
  <2>1. \A u \in Tasks : Runs(u, taskWorker[u])' = Runs(u, taskWorker[u])
    BY <1>6 DEF Poll, taskVars, Runs
  <2>. QED  BY <1>2, <1>6, <2>1
            DEF Poll, ServerInv, MainInv, Polled, DoneWhenClean, CleanShutdown
<1>7. CASE PollEnds
  <2>1. \A u \in Tasks : Runs(u, taskWorker[u])' = Runs(u, taskWorker[u])
    BY <1>7 DEF PollEnds, taskVars, Runs
  <2>. QED  BY <1>7, <2>1
            DEF PollEnds, ServerInv, MainInv, Polled, DoneWhenClean, CleanShutdown
<1>8. ASSUME NEW t \in Tasks,
             StartStep(t) \/ RestartStep(t) \/ ClientStop(t) \/ Reset(t)
             \/ \E g \in 1..MaxWorkers : ExitStep(t, g) \/ StopCollected(t, g)
      PROVE  MainInv'
  <2>1. /\ \A u \in Tasks : Runs(u, taskWorker[u])' =>
             Runs(u, taskWorker[u]) \/ main # "polling" \/ u \in late'
        /\ late \subseteq late' /\ UNCHANGED <<unseen, outcome>>
        /\ main' \in {main, "crashed"}
    BY <1>8, RunsWithNote
  <2>. QED  BY <1>2, <2>1 DEF ServerInv, MainInv, Polled, DoneWhenClean, CleanShutdown
<1>. QED  BY <1>3, <1>4, <1>5, <1>6, <1>7, <1>8 DEF ServerNext, MainStep
-----------------------------------------------------------------------------
LEMMA ServerInvariant == ServerSpec => []ServerInv
<1>1. ServerTypeOK /\ [ServerNext]_serverVars => ServerTypeOK'
  <2>. SUFFICES ASSUME ServerTypeOK, [ServerNext]_serverVars PROVE ServerTypeOK'
    OBVIOUS
  <2>1. CASE UNCHANGED serverVars
    BY <2>1 DEF serverVars, connVars, mainVars, taskVars, ServerTypeOK, Workers
  <2>. QED  BY <2>1, QuietStepTypes, TaskStepTypes DEF ServerNext, MainStep
<1>2. ServerInv /\ [ServerNext]_serverVars => ServerInv'
  BY <1>1, TaskInvKept, MainInvKept DEF ServerInv
<1>. QED  BY ServerInitInv, <1>2, PTL DEF ServerSpec

(* The variables keep their types; in particular connChan, whose capacity is *)
(* one, never holds more.                                                  *)
THEOREM ServerTypeCorrect == ServerSpec => []ServerTypeOK
<1>1. ServerInv => ServerTypeOK
  BY DEF ServerInv
<1>. QED  BY <1>1, ServerInvariant, PTL

(* When Shutdown returns without an error, task.worker runs only for tasks   *)
(* whose worker was set after hasRunningWorkers had looked at them.        *)
THEOREM CleanMeansStopped == ServerSpec => []CleanShutdown
<1>1. ServerInv => CleanShutdown
  BY DEF ServerInv, MainInv
<1>. QED  BY <1>1, ServerInvariant, PTL

(* A worker on which Stop was called, by a client or by Shutdown, gets no     *)
(* successor: no restart that is scheduled and no reset replaces it.       *)
THEOREM StoppedIsLast == ServerSpec => []ToldIsLast
<1>1. ServerInv => ToldIsLast
  BY DEF ServerInv, TaskInv
<1>. QED  BY <1>1, ServerInvariant, PTL

(* A stopped task has a worker that runs and was not told to stop only if   *)
(* the stop met the stretch between handler.Start and task.worker = w.     *)
THEOREM StopReachesWorker == ServerSpec => []StopReaches
<1>1. ServerInv => StopReaches
  BY DEF ServerInv, TaskInv
<1>. QED  BY <1>1, ServerInvariant, PTL
=============================================================================
