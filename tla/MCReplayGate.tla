---------------------------- MODULE MCReplayGate -----------------------------
(* Instances of ReplayGate for TLC.                                        *)
EXTENDS ReplayGate

(* One regime, its seed given twice; and one cell alone.                   *)
MCRepeatedCells == << <<"steady", 42>>, <<"steady", 42>> >>
MCOneCell == << <<"steady", 42>> >>
=============================================================================
