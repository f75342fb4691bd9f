------------------------------- MODULE TaskLife -------------------------------
(***************************************************************************)
(* What the hub promises those who use a task ID, without requests, slots, *)
(* retry policies or goroutines: an ID is free, reserved or taken; who has  *)
(* it taken has one process at a time; only the exit of a process brings   *)
(* the next one, unless the task was stopped or has failed too often; and  *)
(* an errored task comes back only by a reset.                             *)
(***************************************************************************)
CONSTANT Ids

VARIABLES
  life,      \* [Ids -> {"free", "reserved", "active", "stopped", "errored"}]
  process    \* [Ids -> {"first", "up", "over", "down"}]: to be launched for the
             \* first time, live, exited and not yet settled, none

lifeVars == <<life, process>>

Taken(t) == life[t] \in {"active", "stopped", "errored"}

TaskLifeInit ==
  /\ life = [t \in Ids |-> "free"]
  /\ process = [t \in Ids |-> "down"]

(* An ID moves to a place of life, and its process to one of process.      *)
Moves(t, l, p) ==
  /\ life' = [life EXCEPT ![t] = l]
  /\ process' = [process EXCEPT ![t] = p]

Reserve(t) == life[t] = "free" /\ Moves(t, "reserved", "down")

(* Reservations, perhaps of several IDs at once, are given up.             *)
Reservations == {t \in Ids : life[t] = "reserved"}
Freed(l, S) == [t \in Ids |-> IF t \in S THEN "free" ELSE l[t]]

Withdraw ==
  /\ UNCHANGED process
  /\ \E S \in SUBSET Reservations : life' = Freed(life, S)

Create(t) == life[t] = "reserved" /\ Moves(t, "active", "first")
Launch(t) == process[t] = "first" /\ Moves(t, life[t], "up")
LaunchFails(t) == process[t] = "first" /\ Moves(t, "free", "down")

(* Others may lose their reservation on the occasion of an exit or a stop.  *)
Exit(t) ==
  /\ process[t] = "up"
  /\ process' = [process EXCEPT ![t] = "over"]
  /\ \E S \in SUBSET Reservations : life' = Freed(life, S)

Stop(t) ==
  /\ Taken(t)
  /\ UNCHANGED process
  /\ \E S \in SUBSET Reservations : life' = Freed([life EXCEPT ![t] = "stopped"], S)

(* What becomes of an exit.                                                *)
Settle(t) ==
  /\ process[t] = "over"
  /\ \/ Moves(t, life[t], "down")
     \/ life[t] = "active" /\ (Moves(t, "active", "up") \/ Moves(t, "errored", "down"))

(* A reset whose launch fails leaves an active task without a process.     *)
Reset(t) ==
  /\ life[t] = "errored"
  /\ \E p \in {"up", "down"} : Moves(t, "active", p)

TaskLifeNext ==
  \/ Withdraw
  \/ \E t \in Ids : \/ Reserve(t) \/ Create(t) \/ Launch(t) \/ LaunchFails(t)
                    \/ Exit(t) \/ Settle(t) \/ Reset(t) \/ Stop(t)

TaskLifeSpec == TaskLifeInit /\ [][TaskLifeNext]_lifeVars
=============================================================================
