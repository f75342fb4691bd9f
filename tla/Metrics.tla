------------------------------- MODULE Metrics -------------------------------
(***************************************************************************)
(* The metrics registry of metrics.go: global, per-action and per-task     *)
(* counters; the table of tasks has at most MaxTaskEntries entries.  One   *)
(* call of a Record method is one step.  Runtime and exit code are left    *)
(* out, and an action without an entry is one with zero counters.          *)
(***************************************************************************)
EXTENDS Naturals, FiniteSets, SequencesExt

CONSTANTS
  Tasks, Actions,    \* task IDs and action names that are recorded
  MaxTaskEntries     \* maxTaskEntries, the cap on the table of tasks

ASSUME MetricsAssumption == MaxTaskEntries \in Nat \ {0}

VARIABLES
  total,      \* the global counters
  byAction,
  byTask,
  taskOrder   \* task IDs in the order of their insertion

metricsVars == <<total, byAction, byTask, taskOrder>>

Counters == {"started", "completed", "errored", "restarted", "output"}
TaskCounters == {"restarted", "output"}

MetricsInit ==
  /\ total = [k \in Counters |-> 0]
  /\ byAction = [a \in Actions |-> [k \in Counters |-> 0]]
  /\ byTask = <<>>
  /\ taskOrder = <<>>

Bump(counters, K) == [k \in DOMAIN counters |-> IF k \in K THEN counters[k] + 1
                                                ELSE counters[k]]
(* Mutation: nothing is evicted.                                           *)
TaskOrderWith_NoEviction(t) ==
  IF t \in DOMAIN byTask THEN taskOrder ELSE Append(taskOrder, t)

(* taskEntry: a new entry at the end, the oldest go beyond the cap.        *)
TaskOrderWith(t) ==
  IF t \in DOMAIN byTask THEN taskOrder
  ELSE IF Len(taskOrder) >= MaxTaskEntries THEN Append(Tail(taskOrder), t)
  ELSE Append(taskOrder, t)

TaskEntry(t) == IF t \in DOMAIN byTask THEN byTask[t] ELSE [k \in TaskCounters |-> 0]

(* A Record method that adds one to each of the counters K: globally, for   *)
(* the action and, those it has, for the task.                             *)
Record(t, a, K) ==
  /\ total' = Bump(total, K)
  /\ byAction' = [byAction EXCEPT ![a] = Bump(@, K)]
  /\ taskOrder' = TaskOrderWith(t)
  /\ byTask' = [u \in ToSet(taskOrder') |-> IF u = t THEN Bump(TaskEntry(t), K)
                                            ELSE byTask[u]]

RecordStart(t, a) == Record(t, a, {"started"})
RecordOutput(t, a) == Record(t, a, {"output"})
RecordRestart(t, a) == Record(t, a, {"restarted"})
RecordExit(t, a, erroredNow) ==
  Record(t, a, IF erroredNow THEN {"completed", "errored"} ELSE {"completed"})

MetricsTypeOK ==
  /\ total \in [Counters -> Nat]
  /\ byAction \in [Actions -> [Counters -> Nat]]
  /\ DOMAIN byTask \subseteq Tasks
  /\ \A t \in DOMAIN byTask : byTask[t] \in [TaskCounters -> Nat]
  /\ taskOrder \in Seq(Tasks)

(* The table of tasks stays within its cap, and the order of insertion lists *)
(* each of its entries once: what is evicted leaves both.                  *)
TableSound ==
  /\ Cardinality(DOMAIN byTask) <= MaxTaskEntries
  /\ ToSet(taskOrder) = DOMAIN byTask
  /\ Len(taskOrder) = Cardinality(DOMAIN byTask)
=============================================================================
