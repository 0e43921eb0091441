----------------------------- MODULE MCHostStack -----------------------------
(* Instances of HostStack for TLC.                                         *)
EXTENDS HostStack, TLC

(* Process ids are only compared.                                          *)
Symmetry == Permutations(Pid)
=============================================================================
