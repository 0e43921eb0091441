---------------------------- MODULE MCEarnedTrust ----------------------------
(* Instances of EarnedTrust for TLC.                                       *)
EXTENDS EarnedTrust, TLC

(* Keywords are interchangeable.                                           *)
Symmetry == Permutations(Keyword)
=============================================================================
