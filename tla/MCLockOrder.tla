----------------------------- MODULE MCLockOrder -----------------------------
(* Instances of LockOrder for TLC: goroutines that do the same work are     *)
(* interchangeable.                                                        *)
EXTENDS LockOrder, TLC

Interchangeable == Permutations(Goroutines)
=============================================================================
