---------------------------- MODULE MCReplayLock ----------------------------
(* Instances of ReplayLock for TLC: a few interchangeable process ids.     *)
EXTENDS ReplayLock, TLC

(* Process ids are only compared, so any permutation of them is a symmetry *)
(* (used where no temporal property is checked).                           *)
Symmetry == Permutations(Pid)
=============================================================================
