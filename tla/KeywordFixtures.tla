--------------------------- MODULE KeywordFixtures ---------------------------
(***************************************************************************)
(* The keywords and weights of the replay's fixtures                       *)
(* (generateFixtureMemory, generateFixtureKeywordWeights, pickDistinct in  *)
(* scripts/empirical_replay/main.go and validateKeywordFixture in          *)
(* lifecycle.go).  Weights are counted in units of 1/10000.                *)
(***************************************************************************)
EXTENDS Integers, FiniteSets, Functions

CONSTANTS
  QSize, MaxKw,  (* A fixture has QSize to MaxKw keywords.                 *)
  RawWeights,    (* The raw weights drawn: 5 to 100 in the code.           *)
  VocabularySize (* len(fixtureVocabulary).                                *)

ASSUME FixtureAssumption ==
  /\ QSize \in Nat \ {0} /\ MaxKw \in Nat /\ QSize <= MaxKw
  /\ RawWeights \subseteq 5 .. 100
  /\ VocabularySize \in Nat /\ MaxKw <= VocabularySize
  /\ MaxKw <= 500  (* With more of them a share may round down to zero.   *)

Whole == 10000
Total(f) == FoldFunction(LAMBDA x, y : x + y, 0, f)
AtLeastOne(x) == IF x < 1 THEN 1 ELSE x

(* pickDistinct: n different indexes below max, or all there are.          *)
PickDistinct(n, max) ==
  IF n >= max THEN {0 .. max - 1}
  ELSE {S \in SUBSET (0 .. max - 1) : Cardinality(S) = n}

(* Faulty variant: the division comes before the multiplication.           *)
UnitsOfShare(raw, i) == AtLeastOne((raw[i] \div Total(raw)) * Whole)

(* A keyword's share of the raw weights, rounded down but never to zero.   *)
Units(raw, i) == AtLeastOne((raw[i] * Whole) \div Total(raw))

(* All but the last keyword get their units, the last one what is left.    *)
WeightUnits(raw) ==
  LET n == Cardinality(DOMAIN raw)
      assigned == Total([i \in 1 .. n - 1 |-> Units(raw, i)])
  IN [i \in 1 .. n |-> IF i < n THEN Units(raw, i) ELSE Whole - assigned]

(* "unable to normalize keyword weights"                                   *)
Normalises(raw) == WeightUnits(raw)[Cardinality(DOMAIN raw)] >= 1

(* validateKeywordFixture: as many weights as different keywords, all      *)
(* positive, and together 1.0 give or take 0.02.                           *)
ValidFixture(keywords, units) ==
  /\ Cardinality(keywords) = Cardinality(DOMAIN units)
  /\ keywords # {}
  /\ \A i \in DOMAIN units : units[i] > 0
  /\ Total(units) \in Whole - 200 .. Whole + 200

-----------------------------------------------------------------------------
(* Properties.                                                             *)

Draws == UNION {[1 .. n -> RawWeights] : n \in QSize .. MaxKw}

(* A drawn fixture never fails the run: its weights can be normalised, add *)
(* up to one and are valid, and no keyword's weight is further from its    *)
(* share of the raw weights than the roundings of all others together.     *)
FixturesAreValid ==
  \A raw \in Draws :
    LET n == Cardinality(DOMAIN raw)
        units == WeightUnits(raw)
    IN /\ Normalises(raw)
       /\ Total(units) = Whole
       /\ \A kws \in PickDistinct(n, VocabularySize) : ValidFixture(kws, units)
       /\ \A i \in 1 .. n :
            LET error == units[i] * Total(raw) - raw[i] * Whole
            IN -Total(raw) < error /\ error < n * Total(raw)
=============================================================================
