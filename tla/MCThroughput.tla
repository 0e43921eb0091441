----------------------------- MODULE MCThroughput -----------------------------
(* Instances of SurvivalMonitor and Throughput for TLC.                    *)
EXTENDS Throughput

(* Three good memories around a bad one.                                   *)
MCGood == {1, 3, 4}

(* A power of two each, so that a sum tells which blocks it is made of.    *)
MCTxs == [h \in 1 .. MaxHeight |-> 2 ^ h]
=============================================================================
