------------------------------ MODULE MCSeeding ------------------------------
(* Instances of Seeding for TLC.  Seeds are interchangeable, but a         *)
(* liveness property is checked: no symmetry is declared.                  *)
EXTENDS Seeding
=============================================================================
