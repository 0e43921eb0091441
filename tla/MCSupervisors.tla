---------------------------- MODULE MCSupervisors ----------------------------
(* Instances of Supervisors for TLC.                                       *)
EXTENDS Supervisors
=============================================================================
