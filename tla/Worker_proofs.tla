---------------------------- MODULE Worker_proofs ----------------------------
(* Theorems about Worker: for any number of streams, lines and calls of    *)
(* Stop and any size of the ring.                                          *)
EXTENDS Worker, SequenceTheorems, TLAPS
-----------------------------------------------------------------------------
(* The ring after addEvent: the newest event at the end, before it the old  *)
(* ones in their order, without the oldest when the ring was full.         *)
LEMMA StoredProperties ==
  ASSUME NEW e \in Events, events \in Seq(Events), Len(events) <= RingSize
  PROVE  \E d \in {0, 1} :
           /\ Stored(e) \in Seq(Events) /\ Len(Stored(e)) <= RingSize
           /\ DOMAIN Stored(e) = 1..(Len(events) - d + 1)
           /\ Stored(e)[Len(events) - d + 1] = e
           /\ d <= Len(events)
           /\ \A i \in 1..(Len(events) - d) : /\ i + d \in DOMAIN events
                                              /\ Stored(e)[i] = events[i + d]
<1>0. RingSize \in Nat \ {0} /\ Len(events) \in Nat /\ DOMAIN events = 1..Len(events)
  BY WorkerAssumption, LenProperties
<1>1. CASE Len(events) >= RingSize
  <2>1. events # <<>>
    BY <1>0, <1>1, EmptySeq
  <2>2. /\ Tail(events) \in Seq(Events) /\ Len(Tail(events)) = Len(events) - 1
        /\ \A i \in 1..Len(Tail(events)) : Tail(events)[i] = events[i + 1]
    BY <2>1, HeadTailProperties
  <2>. DEFINE t == Tail(events)
              n == Len(events)
              u == Append(t, e)
  <2>. HIDE DEF t, n
  <2>3. n \in Nat \ {0} /\ Len(t) = n - 1 /\ \A i \in 1..(n - 1) : t[i] = events[i + 1]
    BY <1>0, <1>1, <2>2 DEF t, n
  <2>4. t \in Seq(Events)
    BY <2>2 DEF t
  <2>5. /\ u \in Seq(Events) /\ Len(u) = Len(t) + 1
        /\ \A i \in 1..Len(t) : u[i] = t[i]
        /\ u[Len(t) + 1] = e
    BY <2>4, AppendProperties
  <2>6. Stored(e) = u
    BY <1>1 DEF Stored, t
  <2>. HIDE DEF u
  <2>7a. Len(t) + 1 = n
    BY <2>3
  <2>7b. Len(u) = n /\ u[n] = e
    BY <2>5, <2>7a
  <2>7. /\ u \in Seq(Events) /\ Len(u) <= RingSize /\ DOMAIN u = 1..n /\ u[n] = e
    BY <1>0, <2>5, <2>7b, LenProperties DEF n
  <2>8. \A i \in 1..(n - 1) : i + 1 \in DOMAIN events /\ u[i] = events[i + 1]
    BY <1>0, <2>3, <2>5 DEF n
  <2>9. n - 1 + 1 = n /\ 1 <= n
    BY <2>3
  <2>. WITNESS 1 \in {0, 1}
  <2>. QED  BY <2>6, <2>7, <2>8, <2>9 DEF n
<1>2. CASE ~(Len(events) >= RingSize)
  <2>1. /\ Append(events, e) \in Seq(Events) /\ Len(Append(events, e)) = Len(events) + 1
        /\ \A i \in 1..Len(events) : Append(events, e)[i] = events[i]
        /\ Append(events, e)[Len(events) + 1] = e
    BY AppendProperties
  <2>2. DOMAIN Append(events, e) = 1..(Len(events) + 1)
    BY <2>1, LenProperties
  <2>3. Stored(e) = Append(events, e)
    BY <1>2 DEF Stored
  <2>4. /\ Len(events) - 0 + 1 = Len(events) + 1 /\ Len(events) - 0 = Len(events)
        /\ \A i \in 1..Len(events) : i + 0 = i
    BY <1>0
  <2>. WITNESS 0 \in {0, 1}
  <2>. QED  BY <1>0, <1>2, <2>1, <2>2, <2>3, <2>4
<1>. QED  BY <1>1, <1>2
-----------------------------------------------------------------------------
(* The inductive invariant.  A scanner holds no more lines than were        *)
(* written; the exit goroutine comes after the process and the scanners;   *)
(* whoever has passed the check of Stop has set intentionalStop; and the   *)
(* numbers of the stored lines, and of the lines that the scanners hold,   *)
(* were all drawn from the one counter.                                    *)
PipeWritten == \A s \in Streams : pipe[s] <= written[s]

ExitAfterScan ==
  /\ exit # "waiting" => /\ wstate = "exited"
                         /\ \A s \in Streams : scan[s] = "done"
  /\ exit # "reported" => \A i \in DOMAIN events : events[i] # ExitEvent

StopMarked ==
  \A k \in Stoppers : stopper[k] \in {"signal", "close"} \/ killer[k] # "none"
                      => intentional

Held(s) == scan[s] = "store" /\ line[s] > 0
Drawn ==
  /\ \A i \in DOMAIN events : events[i].seq <= outputSeq
  /\ \A s \in Streams : line[s] <= outputSeq
  /\ \A s \in Streams : Held(s) =>
        \A i \in Numbered : /\ events[i].seq # line[s]
                            /\ events[i].stream = s => events[i].seq < line[s]
  /\ \A s, t \in Streams : Held(s) /\ Held(t) /\ line[s] = line[t] => s = t

WorkerInv == /\ WorkerTypeOK /\ PipeWritten /\ ExitAfterScan
             /\ StopMarked /\ StopIsIntentional /\ Drawn /\ StreamInOrder

LEMMA WorkerInitInv == WorkerInit => WorkerInv
<1>. SUFFICES ASSUME WorkerInit PROVE WorkerInv
  OBVIOUS
<1>0. MaxLines \in Nat /\ RingSize \in Nat \ {0}
  BY WorkerAssumption
<1>1. events \in Seq(Events) /\ Len(events) = 0 /\ DOMAIN events = {}
  BY EmptySeq DEF WorkerInit
<1>2. WorkerTypeOK
  <2>1. events \in Seq(Events) /\ Len(events) <= RingSize /\ 0 \in 0..MaxLines
    BY <1>0, <1>1
  <2>. QED  BY <2>1 DEF WorkerInit, WorkerTypeOK
<1>3. PipeWritten
  BY DEF WorkerInit, PipeWritten
<1>4. ExitAfterScan /\ StopMarked /\ StopIsIntentional
  BY <1>1 DEF WorkerInit, ExitAfterScan, StopMarked, StopIsIntentional
<1>5. Drawn /\ StreamInOrder
  BY <1>1 DEF WorkerInit, Drawn, Held, StreamInOrder, Numbered
<1>. QED  BY <1>2, <1>3, <1>4, <1>5 DEF WorkerInv
-----------------------------------------------------------------------------
(* The numbers.                                                            *)

LEMMA DrawnUndisturbed ==
  ASSUME Drawn, StreamInOrder, UNCHANGED <<events, outputSeq, line>>,
         \A s \in Streams : scan'[s] = "store" => scan[s] = "store"
  PROVE  Drawn' /\ StreamInOrder'
BY DEF Drawn, StreamInOrder, Held, Numbered

(* A new event that is numbered above the stored lines of its stream, and   *)
(* unlike any line that is stored or held, keeps the history in order.     *)
LEMMA DrawnStored ==
  ASSUME WorkerTypeOK, Drawn, StreamInOrder,
         NEW e \in Events, events' = Stored(e), UNCHANGED <<outputSeq, line>>,
         e.seq <= outputSeq,
         e.seq > 0 => \A i \in Numbered :
                        /\ events[i].seq # e.seq
                        /\ events[i].stream = e.stream => events[i].seq < e.seq,
         \A t \in Streams :
            scan'[t] = "store" => /\ scan[t] = "store"
                                  /\ e.seq > 0 => line[t] # e.seq /\ e.stream # t
  PROVE  Drawn' /\ StreamInOrder'
<1>1. /\ events \in Seq(Events) /\ Len(events) <= RingSize
      /\ Len(events) \in Nat /\ DOMAIN events = 1..Len(events)
      /\ \A i \in DOMAIN events : events[i] \in Events
  BY LenProperties, ElementOfSeq DEF WorkerTypeOK
<1>2. \A x \in Events : x.seq \in Nat
  BY DEF Events, ExitEvent
<1>3. PICK d \in {0, 1} :
        /\ DOMAIN events' = 1..(Len(events) - d + 1)
        /\ events'[Len(events) - d + 1] = e
        /\ d <= Len(events)
        /\ \A i \in 1..(Len(events) - d) : /\ i + d \in DOMAIN events
                                           /\ events'[i] = events[i + d]
  BY <1>1, StoredProperties
<1>. DEFINE n == Len(events) - d
<1>4. /\ n \in Nat /\ d \in Nat /\ DOMAIN events' = 1..(n + 1) /\ events'[n + 1] = e
      /\ \A i \in 1..n : /\ i + d \in DOMAIN events
                         /\ events'[i] = events[i + d]
  BY <1>1, <1>3
<1>. HIDE DEF n
<1>5. ASSUME NEW i \in Numbered', i # n + 1
      PROVE  i \in 1..n /\ i + d \in Numbered /\ events'[i] = events[i + d]
  BY <1>4, <1>5 DEF Numbered
<1>6. \A i \in Numbered' : i \in 1..(n + 1) /\ (i = n + 1 => e.seq > 0)
  BY <1>4 DEF Numbered
<1>7. \A i \in DOMAIN events' : events'[i].seq <= outputSeq
  <2>1. \A i \in 1..n : events'[i].seq <= outputSeq
    BY <1>4 DEF Drawn
  <2>. QED  BY <1>4, <2>1
<1>8. Drawn'
  <2>1. ASSUME NEW t \in Streams, Held(t)', NEW i \in Numbered'
        PROVE  /\ events'[i].seq # line[t]
               /\ events'[i].stream = t => events'[i].seq < line[t]
    <3>1. Held(t) /\ (e.seq > 0 => line[t] # e.seq /\ e.stream # t)
      BY <2>1 DEF Held
    <3>2. CASE i = n + 1
      BY <1>4, <1>6, <3>1, <3>2
    <3>3. CASE i # n + 1
      BY <1>5, <3>1, <3>3 DEF Drawn
    <3>. QED  BY <3>2, <3>3
  <2>2. \A t \in Streams : Held(t)' => Held(t)
    BY DEF Held
  <2>. QED  BY <1>7, <2>1, <2>2 DEF Drawn
<1>9. StreamInOrder'
  <2>1. ASSUME NEW i \in Numbered', NEW j \in Numbered', i < j,
               events'[i].stream = events'[j].stream
        PROVE  events'[i].seq < events'[j].seq
    <3>1. i # n + 1
      BY <1>4, <1>6, <2>1
    <3>2. i + d \in Numbered /\ events'[i] = events[i + d] /\ i \in 1..n
      BY <1>5, <3>1
    <3>3. CASE j = n + 1
      BY <1>4, <1>6, <2>1, <3>2, <3>3
    <3>4. CASE j # n + 1
      <4>1. j + d \in Numbered /\ events'[j] = events[j + d] /\ j \in 1..n
        BY <1>5, <3>4
      <4>2. i + d < j + d
        BY <1>4, <2>1, <3>2, <4>1
      <4>. QED  BY <2>1, <3>2, <4>1, <4>2 DEF StreamInOrder
    <3>. QED  BY <3>3, <3>4
  <2>2. ASSUME NEW i \in Numbered', NEW j \in Numbered',
               events'[i].seq = events'[j].seq, i # j
        PROVE  FALSE
    <3>1. CASE i = n + 1
      <4>1. j + d \in Numbered /\ events'[j] = events[j + d]
        BY <1>5, <2>2, <3>1
      <4>. QED  BY <1>4, <1>6, <2>2, <3>1, <4>1
    <3>2. CASE j = n + 1
      <4>1. i + d \in Numbered /\ events'[i] = events[i + d]
        BY <1>5, <2>2, <3>2
      <4>. QED  BY <1>4, <1>6, <2>2, <3>2, <4>1
    <3>3. CASE i # n + 1 /\ j # n + 1
      <4>1. /\ i + d \in Numbered /\ events'[i] = events[i + d] /\ i \in 1..n
            /\ j + d \in Numbered /\ events'[j] = events[j + d] /\ j \in 1..n
        BY <1>5, <3>3
      <4>2. i + d = j + d
        BY <2>2, <4>1 DEF StreamInOrder
      <4>. QED  BY <1>4, <2>2, <4>1, <4>2
    <3>. QED  BY <3>1, <3>2, <3>3
  <2>. QED  BY <2>1, <2>2 DEF StreamInOrder
<1>. QED  BY <1>8, <1>9
-----------------------------------------------------------------------------
(* What remains true of the ring when an event is stored.                  *)
LEMMA StoredFacts ==
  ASSUME WorkerTypeOK, NEW e \in Events, events' = Stored(e)
  PROVE  /\ events' \in Seq(Events) /\ Len(events') <= RingSize
         /\ e # ExitEvent /\ (\A i \in DOMAIN events : events[i] # ExitEvent)
            => \A i \in DOMAIN events' : events'[i] # ExitEvent
<1>1. /\ events \in Seq(Events) /\ Len(events) <= RingSize /\ Len(events) \in Nat
  BY LenProperties DEF WorkerTypeOK
<1>2. PICK d \in {0, 1} :
        /\ Stored(e) \in Seq(Events) /\ Len(Stored(e)) <= RingSize
        /\ DOMAIN Stored(e) = 1..(Len(events) - d + 1)
        /\ Stored(e)[Len(events) - d + 1] = e
        /\ d <= Len(events)
        /\ \A i \in 1..(Len(events) - d) : /\ i + d \in DOMAIN events
                                           /\ Stored(e)[i] = events[i + d]
  BY <1>1, StoredProperties
<1>3. ASSUME e # ExitEvent, \A i \in DOMAIN events : events[i] # ExitEvent,
             NEW i \in DOMAIN Stored(e)
      PROVE  Stored(e)[i] # ExitEvent
  <2>1. i = Len(events) - d + 1 \/ i \in 1..(Len(events) - d)
    BY <1>1, <1>2
  <2>. QED  BY <1>2, <1>3, <2>1
<1>. QED  BY <1>2, <1>3

(* The steps that leave the history and the numbers alone.                 *)
Quiet == \/ Die \/ RecordExit
         \/ \E s \in Streams : Write(s) \/ Read(s) \/ EndOfFile(s) \/ ScanError(s)
         \/ \E k \in Stoppers : Stop(k) \/ KillGoroutine(k)

LEMMA QuietDrawn ==
  ASSUME WorkerInv, Quiet
  PROVE  Drawn' /\ StreamInOrder'
<1>1. UNCHANGED <<events, outputSeq, line>>
  BY DEF Quiet, Die, RecordExit, Write, Read, EndOfFile, ScanError, Stop, StopCheck,
         StopSignal, StopClose, KillGoroutine, KillTimer, KillCancelled, Kill,
         procVars, scanVars, stopVars
<1>2. \A s \in Streams : scan'[s] = "store" => scan[s] = "store"
  BY DEF Quiet, Die, RecordExit, Write, Read, EndOfFile, ScanError, Stop, StopCheck,
         StopSignal, StopClose, KillGoroutine, KillTimer, KillCancelled, Kill,
         procVars, scanVars, stopVars, WorkerInv, WorkerTypeOK
<1>. QED  BY <1>1, <1>2, DrawnUndisturbed DEF WorkerInv

LEMMA NextDrawn ==
  ASSUME WorkerInv, [WorkerNext]_workerVars
  PROVE  Drawn' /\ StreamInOrder'
<1>. USE DEF WorkerInv
<1>1. CASE UNCHANGED workerVars
  BY <1>1, DrawnUndisturbed DEF workerVars, scanVars
<1>2. CASE ReportExit
  <2>1. ExitEvent \in Events /\ ExitEvent.seq = 0
    BY DEF Events, ExitEvent
  <2>2. events' = Stored(ExitEvent) /\ UNCHANGED <<scan, line, outputSeq>>
    BY <1>2 DEF ReportExit, scanVars
  <2>3. outputSeq \in Nat
    BY DEF WorkerTypeOK
  <2>. QED  BY <2>1, <2>2, <2>3, DrawnStored
<1>3. ASSUME NEW s \in Streams, Store(s) PROVE Drawn' /\ StreamInOrder'
  <2>. DEFINE e == [stream |-> s, seq |-> line[s]]
  <2>1. e \in Events /\ e.seq = line[s] /\ e.stream = s
    BY DEF Events, WorkerTypeOK
  <2>2. events' = Stored(e) /\ UNCHANGED <<line, outputSeq>> /\ scan[s] = "store"
    BY <1>3 DEF Store
  <2>3. \A t \in Streams : scan'[t] = "store" => scan[t] = "store" /\ t # s
    BY <1>3 DEF Store, WorkerTypeOK
  <2>4. line[s] <= outputSeq
    BY DEF Drawn
  <2>5. line[s] > 0 => \A i \in Numbered : /\ events[i].seq # line[s]
                                           /\ events[i].stream = s => events[i].seq < line[s]
    BY <2>2 DEF Drawn, Held
  <2>6. \A t \in Streams : scan'[t] = "store" /\ line[s] > 0 => line[t] # line[s]
    BY <2>2, <2>3 DEF Drawn, Held, WorkerTypeOK
  <2>. HIDE DEF e, WorkerInv
  <2>7. WorkerTypeOK /\ Drawn /\ StreamInOrder
    BY DEF WorkerInv
  <2>. QED  BY <2>1, <2>2, <2>3, <2>4, <2>5, <2>6, <2>7, DrawnStored
<1>4. ASSUME NEW s \in Streams, Number(s) \/ Filter(s) PROVE Drawn' /\ StreamInOrder'
  <2>1. events' = events /\ Numbered' = Numbered
    BY <1>4 DEF Number, Filter, Numbered
  <2>2. /\ outputSeq \in Nat /\ outputSeq' \in Nat /\ outputSeq <= outputSeq'
        /\ \A t \in Streams : line[t] \in Nat /\ line'[t] \in Nat
        /\ \A t \in Streams : t # s => line'[t] = line[t] /\ scan'[t] = scan[t]
        /\ line'[s] = 0 \/ (line'[s] = outputSeq + 1 /\ outputSeq' = outputSeq + 1)
    <3>1. outputSeq \in Nat /\ line \in [Streams -> Nat]
          /\ scan \in [Streams -> {"reading", "number", "store", "done"}]
      BY DEF WorkerTypeOK
    <3>. HIDE DEF WorkerInv
    <3>2. CASE Number(s)
      BY <3>1, <3>2 DEF Number
    <3>3. CASE Filter(s)
      BY <3>1, <3>3 DEF Filter
    <3>. QED  BY <1>4, <3>2, <3>3
  <2>3. \A i \in DOMAIN events : events[i].seq \in Nat
    <3>1. \A i \in DOMAIN events : events[i] \in Events
      BY ElementOfSeq, LenProperties DEF WorkerTypeOK
    <3>. QED  BY <3>1 DEF Events, ExitEvent
  <2>4. Numbered \subseteq DOMAIN events
    BY DEF Numbered
  <2>5. \A i \in DOMAIN events : events[i].seq <= outputSeq'
    BY <2>2, <2>3 DEF Drawn
  <2>6. \A t \in Streams : line'[t] <= outputSeq'
    BY <2>2 DEF Drawn
  <2>7. ASSUME NEW t \in Streams, Held(t)', NEW i \in Numbered
        PROVE  events[i].seq # line'[t] /\ (events[i].stream = t => events[i].seq < line'[t])
    <3>1. CASE t = s
      BY <2>2, <2>3, <2>4, <2>7, <3>1 DEF Drawn, Held
    <3>2. CASE t # s
      BY <2>2, <2>7, <3>2 DEF Drawn, Held
    <3>. QED  BY <3>1, <3>2
  <2>8. ASSUME NEW t \in Streams, NEW r \in Streams, Held(t)', Held(r)', line'[t] = line'[r]
        PROVE  t = r
    BY <2>2, <2>8 DEF Drawn, Held
  <2>9. Drawn'
    BY <2>1, <2>5, <2>6, <2>7, <2>8 DEF Drawn
  <2>. QED  BY <2>1, <2>9 DEF StreamInOrder
<1>5. CASE Quiet
  <2>. HIDE DEF WorkerInv
  <2>. QED  BY <1>5, QuietDrawn
<1>. QED  BY <1>1, <1>2, <1>3, <1>4, <1>5 DEF WorkerNext, Scanner, Quiet
-----------------------------------------------------------------------------
(* Types, and the lines in the pipe.                                       *)
LEMMA NextTyped ==
  ASSUME WorkerInv, [WorkerNext]_workerVars
  PROVE  WorkerTypeOK' /\ PipeWritten'
<1>0. MaxLines \in Nat /\ WorkerTypeOK /\ PipeWritten
  BY WorkerAssumption DEF WorkerInv
<1>1. CASE UNCHANGED workerVars
  BY <1>0, <1>1 DEF workerVars, procVars, scanVars, stopVars, WorkerTypeOK, PipeWritten
<1>2. CASE Die \/ RecordExit
  BY <1>0, <1>2 DEF Die, RecordExit, procVars, scanVars, stopVars, WorkerTypeOK, PipeWritten
<1>3. CASE ReportExit
  <2>1. ExitEvent \in Events
    BY DEF Events
  <2>2. events' \in Seq(Events) /\ Len(events') <= RingSize
    BY <1>0, <1>3, <2>1, StoredFacts DEF ReportExit
  <2>. QED
    BY <1>0, <1>3, <2>2 DEF ReportExit, procVars, scanVars, stopVars, WorkerTypeOK, PipeWritten
<1>4. ASSUME NEW s \in Streams, Write(s) PROVE WorkerTypeOK' /\ PipeWritten'
  <2>1. /\ written[s] \in 0..MaxLines /\ pipe[s] \in 0..MaxLines
        /\ pipe[s] <= written[s] /\ written[s] < MaxLines
    BY <1>0, <1>4 DEF Write, WorkerTypeOK, PipeWritten
  <2>2. written[s] + 1 \in 0..MaxLines /\ pipe[s] + 1 \in 0..MaxLines
        /\ pipe[s] + 1 <= written[s] + 1
    BY <1>0, <2>1
  <2>. QED  BY <1>0, <1>4, <2>2 DEF Write, stopVars, WorkerTypeOK, PipeWritten
<1>5. ASSUME NEW s \in Streams, Read(s) PROVE WorkerTypeOK' /\ PipeWritten'
  <2>1. /\ written[s] \in 0..MaxLines /\ pipe[s] \in 0..MaxLines
        /\ pipe[s] <= written[s] /\ pipe[s] > 0
    BY <1>0, <1>5 DEF Read, WorkerTypeOK, PipeWritten
  <2>2. pipe[s] - 1 \in 0..MaxLines /\ pipe[s] - 1 <= written[s]
    BY <1>0, <2>1
  <2>3. /\ scan' \in [Streams -> {"reading", "number", "store", "done"}]
        /\ pipe' \in [Streams -> 0..MaxLines]
    BY <1>0, <1>5, <2>2 DEF Read, WorkerTypeOK
  <2>4. PipeWritten'
    BY <1>0, <1>5, <2>2 DEF Read, procVars, WorkerTypeOK, PipeWritten
  <2>. QED  BY <1>0, <1>5, <2>3, <2>4 DEF Read, procVars, stopVars, WorkerTypeOK
<1>6. ASSUME NEW s \in Streams, Number(s) \/ Filter(s) PROVE WorkerTypeOK' /\ PipeWritten'
  <2>1. CASE Number(s)
    BY <1>0, <2>1 DEF Number, procVars, stopVars, WorkerTypeOK, PipeWritten
  <2>2. CASE Filter(s)
    BY <1>0, <2>2 DEF Filter, procVars, stopVars, WorkerTypeOK, PipeWritten
  <2>. QED  BY <1>6, <2>1, <2>2
<1>7. ASSUME NEW s \in Streams, Store(s) PROVE WorkerTypeOK' /\ PipeWritten'
  <2>1. [stream |-> s, seq |-> line[s]] \in Events
    BY <1>0 DEF Events, WorkerTypeOK
  <2>2. events' \in Seq(Events) /\ Len(events') <= RingSize
    BY <1>0, <1>7, <2>1, StoredFacts DEF Store
  <2>. QED  BY <1>0, <1>7, <2>2 DEF Store, procVars, stopVars, WorkerTypeOK, PipeWritten
<1>8. ASSUME NEW s \in Streams, EndOfFile(s) \/ ScanError(s)
      PROVE  WorkerTypeOK' /\ PipeWritten'
  BY <1>0, <1>8 DEF EndOfFile, ScanError, procVars, stopVars, WorkerTypeOK, PipeWritten
<1>9. ASSUME NEW k \in Stoppers, Stop(k) PROVE WorkerTypeOK' /\ PipeWritten'
  <2>1. CASE StopCheck(k)
    BY <1>0, <2>1 DEF StopCheck, procVars, scanVars, WorkerTypeOK, PipeWritten
  <2>2. CASE StopSignal(k)
    BY <1>0, <2>2 DEF StopSignal, procVars, scanVars, WorkerTypeOK, PipeWritten
  <2>3. CASE StopClose(k)
    BY <1>0, <2>3 DEF StopClose, procVars, scanVars, WorkerTypeOK, PipeWritten
  <2>. QED  BY <1>9, <2>1, <2>2, <2>3 DEF Stop
<1>10. ASSUME NEW k \in Stoppers, KillGoroutine(k) PROVE WorkerTypeOK' /\ PipeWritten'
  BY <1>0, <1>10
     DEF KillGoroutine, KillTimer, KillCancelled, Kill, procVars, scanVars, WorkerTypeOK, PipeWritten
<1>. QED  BY <1>1, <1>2, <1>3, <1>4, <1>5, <1>6, <1>7, <1>8, <1>9, <1>10 DEF WorkerNext, Scanner
-----------------------------------------------------------------------------
(* The exit and the calls of Stop.                                         *)

LEMMA NextExit ==
  ASSUME WorkerInv, [WorkerNext]_workerVars
  PROVE  /\ ExitAfterScan'
         /\ events # <<>> /\ Last(events) = ExitEvent => events' = events
<1>0. WorkerTypeOK /\ ExitAfterScan
  BY DEF WorkerInv
<1>1. events # <<>> => Last(events) = events[Len(events)] /\ Len(events) \in DOMAIN events
  <2>1. Len(events) \in Nat /\ DOMAIN events = 1..Len(events) /\ (events # <<>> => Len(events) # 0)
    BY <1>0, LenProperties, EmptySeq DEF WorkerTypeOK
  <2>. QED  BY <2>1 DEF Last
<1>2. exit # "reported" => ~(events # <<>> /\ Last(events) = ExitEvent)
  BY <1>0, <1>1 DEF ExitAfterScan
<1>3. CASE UNCHANGED <<events, exit, wstate, scan>>
  BY <1>0, <1>3 DEF ExitAfterScan
<1>4. CASE Die \/ (\E s \in Streams : Write(s)) \/ UNCHANGED workerVars
  BY <1>3, <1>4 DEF Die, Write, workerVars, procVars, scanVars, stopVars
<1>5. ASSUME NEW k \in Stoppers, Stop(k) \/ KillGoroutine(k)
      PROVE  /\ ExitAfterScan'
             /\ events # <<>> /\ Last(events) = ExitEvent => events' = events
  <2>1. UNCHANGED <<events, exit, wstate, scan>>
    BY <1>5 DEF Stop, StopCheck, StopSignal, StopClose, KillGoroutine, KillTimer,
                KillCancelled, Kill, scanVars
  <2>. QED  BY <1>3, <2>1
<1>6. ASSUME NEW s \in Streams, Read(s) \/ Number(s) \/ Filter(s) \/ EndOfFile(s) \/ ScanError(s)
      PROVE  /\ ExitAfterScan'
             /\ events # <<>> /\ Last(events) = ExitEvent => events' = events
  <2>1. exit = "waiting" /\ UNCHANGED <<events, exit>>
    BY <1>0, <1>6 DEF Read, Number, Filter, EndOfFile, ScanError, ExitAfterScan
  <2>. QED  BY <1>0, <2>1 DEF ExitAfterScan
<1>7. ASSUME NEW s \in Streams, Store(s)
      PROVE  /\ ExitAfterScan'
             /\ events # <<>> /\ Last(events) = ExitEvent => events' = events
  <2>. DEFINE e == [stream |-> s, seq |-> line[s]]
  <2>1. e \in Events /\ e # ExitEvent
    BY <1>0, WorkerAssumption DEF Events, ExitEvent, WorkerTypeOK
  <2>2. exit = "waiting" /\ exit' = exit /\ events' = Stored(e)
    BY <1>0, <1>7 DEF Store, ExitAfterScan
  <2>. HIDE DEF e
  <2>3. \A i \in DOMAIN events' : events'[i] # ExitEvent
    BY <1>0, <2>1, <2>2, StoredFacts DEF ExitAfterScan
  <2>. QED  BY <1>2, <2>2, <2>3 DEF ExitAfterScan
<1>8. CASE RecordExit
  BY <1>0, <1>2, <1>8 DEF RecordExit, scanVars, ExitAfterScan
<1>9. CASE ReportExit
  BY <1>0, <1>2, <1>9 DEF ReportExit, scanVars, ExitAfterScan
<1>. QED  BY <1>4, <1>5, <1>6, <1>7, <1>8, <1>9 DEF WorkerNext, Scanner

LEMMA NextStop ==
  ASSUME WorkerInv, [WorkerNext]_workerVars
  PROVE  StopMarked' /\ StopIsIntentional'
<1>0. WorkerTypeOK /\ ExitAfterScan /\ StopMarked /\ StopIsIntentional
  BY DEF WorkerInv
<1>1. CASE UNCHANGED <<stopper, killer, intentional, exit, reported>>
  BY <1>0, <1>1 DEF StopMarked, StopIsIntentional
<1>2. CASE Die \/ (\E s \in Streams : Write(s) \/ Scanner(s)) \/ UNCHANGED workerVars
  BY <1>1, <1>2 DEF Die, Write, Scanner, Read, Number, Filter, Store, EndOfFile, ScanError,
                    workerVars, stopVars
<1>3. CASE RecordExit
  BY <1>0, <1>3 DEF RecordExit, stopVars, StopMarked, StopIsIntentional
<1>4. CASE ReportExit
  BY <1>0, <1>4 DEF ReportExit, stopVars, StopMarked, StopIsIntentional
<1>5. ASSUME NEW k \in Stoppers, StopCheck(k) PROVE StopMarked' /\ StopIsIntentional'
  <2>1. CASE wstate = "running"
    <3>1. exit = "waiting" /\ exit' = exit /\ intentional' = TRUE
      BY <1>0, <1>5, <2>1 DEF StopCheck, ExitAfterScan
    <3>. QED  BY <3>1 DEF StopMarked, StopIsIntentional
  <2>2. CASE wstate # "running"
    BY <1>0, <1>5, <2>2 DEF StopCheck, StopMarked, StopIsIntentional, WorkerTypeOK
  <2>. QED  BY <2>1, <2>2
<1>6. ASSUME NEW k \in Stoppers, StopSignal(k) \/ StopClose(k) \/ KillGoroutine(k)
      PROVE  StopMarked' /\ StopIsIntentional'
  BY <1>0, <1>6 DEF StopSignal, StopClose, KillGoroutine, KillTimer, KillCancelled, Kill,
                    StopMarked, StopIsIntentional, WorkerTypeOK
<1>. QED  BY <1>2, <1>3, <1>4, <1>5, <1>6 DEF WorkerNext, Stop
-----------------------------------------------------------------------------
LEMMA WorkerInvariant == WorkerSpec => []WorkerInv
<1>1. WorkerInv /\ [WorkerNext]_workerVars => WorkerInv'
  BY NextTyped, NextExit, NextStop, NextDrawn DEF WorkerInv
<1>. QED  BY WorkerInitInv, <1>1, PTL DEF WorkerSpec

(* The variables keep their types, and the ring its bound (worker.go's      *)
(* addEvent), for any number of streams and of calls of Stop.              *)
THEOREM WorkerTypeCorrect == WorkerSpec => []WorkerTypeOK
<1>1. WorkerInv => WorkerTypeOK
  BY DEF WorkerInv
<1>. QED  BY <1>1, WorkerInvariant, PTL

(* A stop that found the worker running is reported as an intentional exit: *)
(* whatever the interleaving of Stop, the exit goroutine and the kill      *)
(* goroutines, and however often Stop is called.                           *)
THEOREM StopsAreIntentional == WorkerSpec => []StopIsIntentional
<1>1. WorkerInv => StopIsIntentional
  BY DEF WorkerInv
<1>. QED  BY <1>1, WorkerInvariant, PTL

(* The history of every stream is in the order of the numbers that OnOutput *)
(* gave out, and no number appears twice, for any interleaving of the      *)
(* scanners, any filter and any size of the ring.                          *)
THEOREM HistoryInOrder == WorkerSpec => []StreamInOrder
<1>1. WorkerInv => StreamInOrder
  BY DEF WorkerInv
<1>. QED  BY <1>1, WorkerInvariant, PTL

(* Nothing is stored behind the exited event: the exit goroutine waits for  *)
(* the scanners.                                                           *)
THEOREM ExitClosesHistory == WorkerSpec => ExitIsLast
<1>1. WorkerInv /\ [WorkerNext]_workerVars
      => [events # <<>> /\ Last(events) = ExitEvent => events' = events]_workerVars
  BY NextExit
<1>. QED  BY <1>1, WorkerInvariant, PTL DEF WorkerSpec, ExitIsLast
=============================================================================
