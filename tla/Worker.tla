-------------------------------- MODULE Worker --------------------------------
(***************************************************************************)
(* One OS-process worker of worker.go: its process, the two goroutines     *)
(* that scan stdout and stderr, the goroutine that waits for the exit, the *)
(* callers of Stop and the kill goroutines they spawn.                     *)
(*                                                                         *)
(* A step is a critical section of w.mu (or of task.mu, where OnOutput     *)
(* numbers a line), a system call, or a channel operation.                 *)
(***************************************************************************)
EXTENDS Naturals, Sequences, SequencesExt, FiniteSets

CONSTANTS
  Streams,     \* stdout and stderr
  Included,    \* the streams whose IncludeStdout / IncludeStderr is set
  Filtered,    \* the streams that the exec handler filters by a condition
  Stoppers,    \* calls of Stop
  MaxLines,    \* bound: lines the process writes to a stream
  RingSize     \* ringBufferSize

ASSUME WorkerAssumption ==
  /\ Included \subseteq Streams /\ Filtered \subseteq Streams /\ "exited" \notin Streams
  /\ MaxLines \in Nat /\ RingSize \in Nat \ {0}

VARIABLES
  alive,       \* the process runs
  written,     \* lines written to each stream
  pipe,        \* lines of a stream not yet scanned
  scan,        \* where the scanner of a stream is
  line,        \* the Seq of the line a scanner holds
  outputSeq,   \* task.outputSeq
  wstate,      \* w.State
  intentional, \* w.intentionalStop
  events,      \* w.events
  exit,        \* where the exit goroutine is
  reported,    \* the intentional flag it read, and passes to OnExited
  stopper,     \* where each call of Stop is
  killer,      \* where the kill goroutine of that call is
  stopCh,      \* w.stopCh is closed
  panicked     \* close of a closed channel: the program is gone

procVars == <<alive, written>>
scanVars == <<pipe, scan, line, outputSeq>>
stopVars == <<stopper, killer, stopCh, panicked>>
workerVars == <<procVars, scanVars, stopVars, wstate, intentional, events, exit, reported>>

ExitEvent == [stream |-> "exited", seq |-> 0]
Events == [stream: Streams, seq: Nat] \cup {ExitEvent}

WorkerTypeOK ==
  /\ alive \in BOOLEAN /\ intentional \in BOOLEAN /\ stopCh \in BOOLEAN /\ panicked \in BOOLEAN
  /\ written \in [Streams -> 0..MaxLines] /\ pipe \in [Streams -> 0..MaxLines]
  /\ scan \in [Streams -> {"reading", "number", "store", "done"}]
  /\ line \in [Streams -> Nat] /\ outputSeq \in Nat
  /\ wstate \in {"running", "exited"}
  /\ events \in Seq(Events) /\ Len(events) <= RingSize
  /\ exit \in {"waiting", "recorded", "reported"} /\ reported \in BOOLEAN
  /\ stopper \in [Stoppers -> {"idle", "signal", "close", "done"}]
  /\ killer \in [Stoppers -> {"none", "armed", "fired", "done"}]

(* StartWorker after cmd.Start.                                            *)
WorkerInit ==
  /\ alive = TRUE /\ wstate = "running" /\ intentional = FALSE
  /\ written = [s \in Streams |-> 0] /\ pipe = [s \in Streams |-> 0]
  /\ scan = [s \in Streams |-> "reading"] /\ line = [s \in Streams |-> 0]
  /\ outputSeq = 0 /\ events = <<>> /\ exit = "waiting" /\ reported = FALSE
  /\ stopper = [k \in Stoppers |-> "idle"] /\ killer = [k \in Stoppers |-> "none"]
  /\ stopCh = FALSE /\ panicked = FALSE
-----------------------------------------------------------------------------
(* The process: it writes lines and may exit, with or without a SIGTERM.   *)

Write(s) ==
  /\ alive /\ written[s] < MaxLines
  /\ written' = [written EXCEPT ![s] = @ + 1]
  /\ pipe' = [pipe EXCEPT ![s] = @ + 1]
  /\ UNCHANGED <<alive, scan, line, outputSeq, stopVars, wstate, intentional, events, exit, reported>>

Die ==
  /\ alive
  /\ alive' = FALSE
  /\ UNCHANGED <<written, scanVars, stopVars, wstate, intentional, events, exit, reported>>
-----------------------------------------------------------------------------
(* Mutation: the ring holds one event too many.                            *)
Stored_OffByOne(e) == IF Len(events) > RingSize THEN Append(Tail(events), e)
                      ELSE Append(events, e)

(* addEvent                                                                *)
Stored(e) == IF Len(events) >= RingSize THEN Append(Tail(events), e) ELSE Append(events, e)

(* The scanner of a stream: read a line, let OnOutput number it (and        *)
(* broadcast it), store it in the ring.                                    *)
Read(s) ==
  /\ scan[s] = "reading" /\ pipe[s] > 0
  /\ pipe' = [pipe EXCEPT ![s] = @ - 1]
  /\ scan' = IF s \in Included THEN [scan EXCEPT ![s] = "number"] ELSE scan
  /\ UNCHANGED <<procVars, line, outputSeq, stopVars, wstate, intentional, events, exit, reported>>

(* Mutation: each scanner counts for itself.                               *)
Number_PerStream(s) ==
  /\ scan[s] = "number"
  /\ line' = [line EXCEPT ![s] = @ + 1]
  /\ scan' = [scan EXCEPT ![s] = "store"]
  /\ UNCHANGED <<procVars, pipe, outputSeq, stopVars, wstate, intentional, events, exit, reported>>

Number(s) ==
  /\ scan[s] = "number"
  /\ outputSeq' = outputSeq + 1
  /\ line' = [line EXCEPT ![s] = outputSeq + 1]
  /\ scan' = [scan EXCEPT ![s] = "store"]
  /\ UNCHANGED <<procVars, pipe, stopVars, wstate, intentional, events, exit, reported>>

(* The condition of the exec handler holds the line back from OnOutput: it  *)
(* gets no number and is not broadcast, but the scanner stores it.         *)
Filter(s) ==
  /\ scan[s] = "number" /\ s \in Filtered
  /\ line' = [line EXCEPT ![s] = 0]
  /\ scan' = [scan EXCEPT ![s] = "store"]
  /\ UNCHANGED <<procVars, pipe, outputSeq, stopVars, wstate, intentional, events, exit, reported>>

Store(s) ==
  /\ scan[s] = "store"
  /\ events' = Stored([stream |-> s, seq |-> line[s]])
  /\ scan' = [scan EXCEPT ![s] = "reading"]
  /\ UNCHANGED <<procVars, pipe, line, outputSeq, stopVars, wstate, intentional, exit, reported>>

EndOfFile(s) ==
  /\ scan[s] = "reading" /\ pipe[s] = 0 /\ ~alive
  /\ scan' = [scan EXCEPT ![s] = "done"]
  /\ UNCHANGED <<procVars, pipe, line, outputSeq, stopVars, wstate, intentional, events, exit, reported>>

(* A line over scanMaxSize ends the scan and marks the worker exited,       *)
(* although its process lives.                                             *)
ScanError(s) ==
  /\ scan[s] = "reading" /\ pipe[s] > 0
  /\ scan' = [scan EXCEPT ![s] = "done"]
  /\ wstate' = "exited"
  /\ UNCHANGED <<procVars, pipe, line, outputSeq, stopVars, intentional, events, exit, reported>>

(* The exit goroutine: wg.Wait and cmd.Wait, then two sections of w.mu; the *)
(* intentional flag it reports is the one it saw in the first.             *)
(* Mutations: the exit is recorded without waiting for the scanners; only   *)
(* when the worker is still marked running; the state is set too late.     *)
RecordExit_NoWait ==
  /\ exit = "waiting" /\ ~alive
  /\ wstate' = "exited" /\ reported' = intentional /\ exit' = "recorded"
  /\ UNCHANGED <<procVars, scanVars, stopVars, intentional, events>>
RecordExit_OnlyIfRunning ==
  /\ exit = "waiting" /\ ~alive /\ wstate = "running"
  /\ \A s \in Streams : scan[s] = "done"
  /\ wstate' = "exited" /\ reported' = intentional /\ exit' = "recorded"
  /\ UNCHANGED <<procVars, scanVars, stopVars, intentional, events>>
RecordExit_StateLater ==
  /\ exit = "waiting" /\ ~alive
  /\ \A s \in Streams : scan[s] = "done"
  /\ reported' = intentional /\ exit' = "recorded"
  /\ UNCHANGED <<procVars, scanVars, stopVars, wstate, intentional, events>>

RecordExit ==
  /\ exit = "waiting" /\ ~alive
  /\ \A s \in Streams : scan[s] = "done"
  /\ wstate' = "exited"
  /\ reported' = intentional
  /\ exit' = "recorded"
  /\ UNCHANGED <<procVars, scanVars, stopVars, intentional, events>>

ReportExit ==
  /\ exit = "recorded"
  /\ events' = Stored(ExitEvent)
  /\ exit' = "reported"
  /\ UNCHANGED <<procVars, scanVars, stopVars, wstate, intentional, reported>>
-----------------------------------------------------------------------------
(* Stop: the check under w.mu, the SIGTERM and the kill goroutine, and the  *)
(* close of stopCh.                                                        *)

StopCheck(k) ==
  /\ stopper[k] = "idle"
  /\ IF wstate = "running"
     THEN stopper' = [stopper EXCEPT ![k] = "signal"] /\ intentional' = TRUE
     ELSE stopper' = [stopper EXCEPT ![k] = "done"] /\ UNCHANGED intentional
  /\ UNCHANGED <<procVars, scanVars, killer, stopCh, panicked, wstate, events, exit, reported>>

StopSignal(k) ==
  /\ stopper[k] = "signal"
  /\ stopper' = [stopper EXCEPT ![k] = "close"]
  /\ killer' = [killer EXCEPT ![k] = "armed"]
  /\ UNCHANGED <<procVars, scanVars, stopCh, panicked, wstate, intentional, events, exit, reported>>

StopClose(k) ==
  /\ stopper[k] = "close"
  /\ stopper' = [stopper EXCEPT ![k] = "done"]
  /\ stopCh' = TRUE
  /\ panicked' = stopCh
  /\ UNCHANGED <<procVars, scanVars, killer, wstate, intentional, events, exit, reported>>

(* The kill goroutine: select on the timer and stopCh, then SIGKILL if the  *)
(* worker still runs.                                                      *)
KillTimer(k) ==
  /\ killer[k] = "armed"
  /\ killer' = [killer EXCEPT ![k] = "fired"]
  /\ UNCHANGED <<procVars, scanVars, stopper, stopCh, panicked, wstate, intentional, events,
                 exit, reported>>

KillCancelled(k) ==
  /\ killer[k] = "armed" /\ stopCh
  /\ killer' = [killer EXCEPT ![k] = "done"]
  /\ UNCHANGED <<procVars, scanVars, stopper, stopCh, panicked, wstate, intentional, events,
                 exit, reported>>

Kill(k) ==
  /\ killer[k] = "fired"
  /\ killer' = [killer EXCEPT ![k] = "done"]
  /\ alive' = (alive /\ wstate # "running")
  /\ UNCHANGED <<written, scanVars, stopper, stopCh, panicked, wstate, intentional, events,
                 exit, reported>>

Scanner(s) == Read(s) \/ Number(s) \/ Filter(s) \/ Store(s) \/ EndOfFile(s) \/ ScanError(s)
Stop(k) == StopCheck(k) \/ StopSignal(k) \/ StopClose(k)
KillGoroutine(k) == KillTimer(k) \/ KillCancelled(k) \/ Kill(k)

WorkerNext ==
  /\ ~panicked
  /\ \/ Die \/ RecordExit \/ ReportExit
     \/ \E s \in Streams : Write(s) \/ Scanner(s)
     \/ \E k \in Stoppers : Stop(k) \/ KillGoroutine(k)

(* The goroutines run; the process owes nothing, and a Stop may never come. *)
WorkerFairness ==
  /\ WF_workerVars(~panicked /\ (RecordExit \/ ReportExit))
  /\ \A s \in Streams : WF_workerVars(~panicked /\ Scanner(s))
  /\ \A k \in Stoppers : /\ WF_workerVars(~panicked /\ (StopSignal(k) \/ StopClose(k)))
                         /\ WF_workerVars(~panicked /\ KillGoroutine(k))

WorkerSpec == WorkerInit /\ [][WorkerNext]_workerVars /\ WorkerFairness
-----------------------------------------------------------------------------
(* Properties.                                                             *)

(* A Stop that found the worker running makes its exit an intentional one,  *)
(* however the exit races it: the hub will not restart the task.           *)
StopIsIntentional ==
  \A k \in Stoppers : stopper[k] \in {"signal", "close"} \/ killer[k] # "none"
                      => exit = "waiting" \/ reported

(* The exited event closes the history: nothing is stored after it.        *)
ExitIsLast == [][events # <<>> /\ Last(events) = ExitEvent => events' = events]_workerVars

(* The stored lines of one stream are in the order of their numbers, and no *)
(* two lines have the same number, whatever the other scanner does and      *)
(* whichever lines in between a filter left without a number.              *)
Numbered == {i \in DOMAIN events : events[i].seq > 0}
StreamInOrder ==
  /\ \A i, j \in Numbered :
       i < j /\ events[i].stream = events[j].stream => events[i].seq < events[j].seq
  /\ \A i, j \in Numbered : events[i].seq = events[j].seq => i = j

(* The death of the process reaches OnExited, even after a scanner error.  *)
ExitIsReported == ~alive ~> exit = "reported" \/ panicked

(* A process that Stop found running dies: SIGTERM, then SIGKILL.          *)
StopEnds == \A k \in Stoppers : stopper[k] = "signal" ~> ~alive \/ panicked
==============================================================================
