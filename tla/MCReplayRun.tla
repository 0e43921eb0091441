----------------------------- MODULE MCReplayRun -----------------------------
(* Instances of ReplayRun for TLC.                                         *)
EXTENDS ReplayRun

(* Seeds are interchangeable, but a liveness property is checked: no       *)
(* symmetry is declared.                                                   *)
=============================================================================
