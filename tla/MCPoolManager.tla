---------------------------- MODULE MCPoolManager ----------------------------
(* Instances of PoolManager for TLC.                                       *)
EXTENDS PoolManager

CONSTANTS c1, c2, c3, c4, c5, A, B

(* c1 and c2 are two requests for the same task ID; c3 is forced; c4 and c5 *)
(* are of the other action.                                                *)
MCTaskOf == c1 :> 1 @@ c2 :> 1 @@ c3 :> 3 @@ c4 :> 4 @@ c5 :> 5
MCActionOf == c1 :> A @@ c2 :> A @@ c3 :> A @@ c4 :> B @@ c5 :> B

Queue(size, lifo, expires, displace) ==
  [enabled |-> TRUE, size |-> size, lifo |-> lifo, expires |-> expires,
   displace |-> displace]
Inherit == [limit |-> 0, queue |-> NoQueue]

(* One slot for two actions: A has a FIFO queue of its own whose items      *)
(* expire and may be displaced, B takes the global LIFO queue settings.    *)
SharedSlot == Global :> [limit |-> 1, queue |-> Queue(0, TRUE, FALSE, "prohibit")]
           @@ A :> [limit |-> 0, queue |-> Queue(1, FALSE, TRUE, "false")]
           @@ B :> Inherit

(* Queues of one item that let their items be displaced for any newcomer.  *)
Displacing == Global :> [limit |-> 1, queue |-> Queue(1, FALSE, FALSE, "true")]
           @@ A :> Inherit @@ B :> Inherit
=============================================================================
