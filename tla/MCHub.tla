-------------------------------- MODULE MCHub --------------------------------
(* Instances of Hub for TLC.                                               *)
EXTENDS Hub

CONSTANTS c1, c2, c3, c4, c5, A, B, K

(* c1 and c2 are two requests for the same task ID.                        *)
MCTaskOf == c1 :> 1 @@ c2 :> 1 @@ c3 :> 3 @@ c4 :> 4
(* Three requests for one ID, and two others that occupy the slots.        *)
SameTaskOf == c1 :> 1 @@ c2 :> 1 @@ c3 :> 3 @@ c4 :> 1 @@ c5 :> 5
(* c1 and c3 are of one kind, as far as the DedupeKey tells.               *)
MCFingerprint == [c \in Calls |-> IF c \in {c1, c3} THEN K ELSE NoKey]
AllDiffer == [c \in Calls |-> NoKey]
MCActionOf == [c \in Calls |-> A]
TwoActions == c1 :> A @@ c2 :> B @@ c3 :> A

(* A limit, and a short FIFO queue whose items expire; B has a limit of its *)
(* own.                                                                    *)
Pool(limit) ==
  Global :> [limit |-> limit,
             queue |-> [enabled |-> TRUE, size |-> 1, lifo |-> FALSE,
                        expires |-> TRUE, displace |-> "prohibit"]]
  @@ A :> [limit |-> 0, queue |-> NoQueue]
  @@ B :> [limit |-> 1, queue |-> NoQueue]
OneSlot == Pool(1)
TwoSlots == Pool(2)
=============================================================================
