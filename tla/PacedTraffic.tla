---------------------------- MODULE PacedTraffic ----------------------------
(***************************************************************************)
(* What the comments of the replay harness promise about the relay from    *)
(* the hub to the chain ("bounds relay lag to ~one epoch",                 *)
(* scripts/empirical_replay/main.go): traffic is produced in rounds, lands *)
(* on the chain in any order, and no round begins before all traffic of    *)
(* the round before it has landed.                                         *)
(***************************************************************************)
EXTENDS Naturals

CONSTANT RoundOf(_)   (* The round a serve or denial belongs to.           *)

VARIABLES
  round,              (* The current round.                                *)
  outstanding         (* What was produced and has not landed.             *)

Init ==
  /\ round = 0
  /\ outstanding = {}

Produce ==
  /\ outstanding \subseteq outstanding'
  /\ \A x \in outstanding' \ outstanding : RoundOf(x) = round
  /\ UNCHANGED round

Land ==
  /\ outstanding' \subseteq outstanding
  /\ UNCHANGED round

NextRound ==
  /\ outstanding = {}
  /\ round' = round + 1
  /\ UNCHANGED outstanding

Next == Produce \/ Land \/ NextRound

Spec == Init /\ [][Next]_<<round, outstanding>>
=============================================================================
