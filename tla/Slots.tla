-------------------------------- MODULE Slots --------------------------------
(***************************************************************************)
(* What the pool promises to those who ask it for a slot, without queues,  *)
(* configurations, entries or closures: a client asks once; it is given a  *)
(* slot, made to wait, or turned away; a slot that is given back may pass   *)
(* straight on to one of those who wait; who waits may be sent away at any *)
(* time; and while the pool is open no more than Limit clients hold a slot. *)
(***************************************************************************)
EXTENDS Naturals, FiniteSets

CONSTANTS
  Clients,
  Limit      \* slots; 0 is no limit

VARIABLES
  stage,     \* [Clients -> {"outside", "waiting", "holding", "gone"}]
  open       \* the pool has not been drained

slotVars == <<stage, open>>

At(s) == {c \in Clients : stage[c] = s}
Room == ~open \/ Limit = 0 \/ Cardinality(At("holding")) < Limit

(* The clients in S move to stage s, the others to where f says.           *)
Moved(f, S, s) == [c \in Clients |-> IF c \in S THEN s ELSE f[c]]

SlotsInit == stage = [c \in Clients |-> "outside"] /\ open = TRUE

Enter(c) ==
  /\ stage[c] = "outside" /\ Room
  /\ stage' = Moved(stage, {c}, "holding")
  /\ UNCHANGED open

(* A newcomer waits, perhaps in the place of others.                       *)
Wait(c) ==
  /\ stage[c] = "outside"
  /\ \E S \in SUBSET At("waiting") : stage' = Moved(Moved(stage, S, "gone"), {c}, "waiting")
  /\ UNCHANGED open

TurnAway(c) ==
  /\ stage[c] = "outside"
  /\ stage' = Moved(stage, {c}, "gone")
  /\ UNCHANGED open

(* The holder leaves; at most one of those who wait gets its slot, and some *)
(* may be sent away on this occasion.                                      *)
Leave(c) ==
  /\ stage[c] = "holding"
  /\ \E S \in SUBSET At("waiting"), W \in SUBSET At("waiting") :
       /\ Cardinality(W) <= 1
       /\ stage' = Moved(Moved(stage, S \cup {c}, "gone"), W, "holding")
  /\ UNCHANGED open

SendAway ==
  /\ \E S \in SUBSET At("waiting") : stage' = Moved(stage, S, "gone")
  /\ UNCHANGED open

(* A closed pool forgets the holders, and its limit with them.             *)
Close ==
  /\ open
  /\ open' = FALSE
  /\ \E S \in SUBSET At("waiting") : stage' = Moved(stage, S, "gone")

SlotsNext == \/ \E c \in Clients : Enter(c) \/ Wait(c) \/ TurnAway(c) \/ Leave(c)
             \/ SendAway
             \/ Close

SlotsSpec == SlotsInit /\ [][SlotsNext]_slotVars
==============================================================================
