------------------------ MODULE SurvivalMonitorProofs ------------------------
(***************************************************************************)
(* Proofs about SurvivalMonitor: what a survey counts, what the gap a run  *)
(* reports is worth, and that a run stops early only for a gap that was    *)
(* measured, for every cohort and every setting.  Then about Throughput:   *)
(* sampling does not disturb the survey, no block is counted twice, and    *)
(* the totals that are reported are those of the blocks counted.           *)
(***************************************************************************)
EXTENDS Throughput, Lemmas

(* The part of the types that the argument needs.                          *)
SurveyTypes ==
  /\ pc \in Phases
  /\ i \in 1 .. Count + 1
  /\ present \subseteq Memory
  /\ archived \subseteq Memory
  /\ before \subseteq Memory

(* What SurveyBounded says of a survey in progress holds at all times; it  *)
(* is kept because a survey looks at the chain after it has begun.         *)
SurveyInv ==
  /\ SurveyTypes
  /\ before \subseteq archived
  /\ present \subseteq Shown(before)
  /\ Shown(archived) \cap 1 .. i - 1 \subseteq present
  /\ pc = "done" => i = Count + 1

LEMMA BeginSurveyKeeps ==
  ASSUME SurveyInv, BeginSurvey, archived' = archived, pc' \in Phases \ {"done"}
  PROVE  SurveyInv'
  BY CohortAssumption DEF SurveyInv, SurveyTypes, BeginSurvey, Shown, Memory

(* The invariant holds at first and every step keeps it.                   *)
LEMMA SurveyInvInit == Init => SurveyInv
  BY CohortAssumption DEF Init, SurveyInv, SurveyTypes, Shown, Memory, Phases

LEMMA SurveyInvStep == SurveyInv /\ [Next]_vars => SurveyInv'
<1> SUFFICES ASSUME SurveyInv, [Next]_vars PROVE SurveyInv'
  OBVIOUS
<1>1. CASE EpochEnds
  <2>1. CASE pc' = "epochs" /\ UNCHANGED <<i, present, before, archived>>
    BY <2>1, CohortAssumption DEF SurveyInv, SurveyTypes, Shown, Memory, Phases
  <2>2. CASE BeginSurvey /\ archived' = archived /\ pc' \in {"checkpoint", "measure"}
    BY <2>2, BeginSurveyKeeps DEF Phases
  <2> QED
    BY <1>1, <2>1, <2>2 DEF EpochEnds
<1>2. CASE QueryArchived
  <2>1. /\ i \in Memory /\ i' = i + 1
        /\ UNCHANGED <<pc, archived, before>>
        /\ pc # "done"
    BY <1>2, CohortAssumption DEF QueryArchived, SurveyInv, SurveyTypes, Memory
  <2>2. 1 .. i' - 1 = (1 .. i - 1) \cup {i}
    BY <2>1, CohortAssumption DEF Memory
  <2>3. CASE i \in archived \ Lost
    BY <1>2, <2>1, <2>2, <2>3, CohortAssumption
       DEF QueryArchived, SurveyInv, SurveyTypes, Shown, Memory
  <2>4. CASE i \notin archived \ Lost
    BY <1>2, <2>1, <2>2, <2>4, CohortAssumption
       DEF QueryArchived, SurveyInv, SurveyTypes, Shown, Memory
  <2> QED
    BY <2>3, <2>4
<1>3. CASE CheckpointEnds
  <2>1. CASE pc' = "epochs" /\ UNCHANGED <<i, present, before, archived>>
    BY <2>1, CohortAssumption DEF SurveyInv, SurveyTypes, Shown, Memory, Phases
  <2>2. CASE BeginSurvey /\ archived' = archived /\ pc' = "measure"
    BY <2>2, BeginSurveyKeeps DEF Phases
  <2> QED
    BY <1>3, <2>1, <2>2 DEF CheckpointEnds
<1>4. CASE MeasureEnds
  BY <1>4, CohortAssumption DEF MeasureEnds, SurveyInv, SurveyTypes, Shown, Memory, Phases
<1>5. CASE Fail
  BY <1>5 DEF Fail, SurveyInv, SurveyTypes, Shown, Phases
<1>6. CASE \E m \in Memory : Archive(m)
  BY <1>6 DEF Archive, runVars, SurveyInv, SurveyTypes, Shown
<1>7. CASE UNCHANGED vars
  BY <1>7 DEF vars, runVars, SurveyInv, SurveyTypes, Shown
<1> QED
  BY <1>1, <1>2, <1>3, <1>4, <1>5, <1>6, <1>7 DEF Next, RunStep

LEMMA SurveyInvAlways == Spec => []SurveyInv
  BY SurveyInvInit, SurveyInvStep, PTL DEF Spec

(* A survey misses no survivor and counts nothing that was archived before *)
(* it began (measureSurvivalQuick, measureSurvival), however the chain     *)
(* archives while it asks.                                                 *)
THEOREM SurveysAreBounded == Spec => []SurveyBounded
<1>1. SurveyInv => SurveyBounded
  BY DEF SurveyInv, SurveyBounded
<1> QED
  BY <1>1, SurveyInvAlways, PTL

-----------------------------------------------------------------------------
(* More survivors never make a rate smaller.                               *)
LEMMA WeightNat == Weight(Good) \in Nat /\ Weight(Bad) \in Nat
<1>1. IsFiniteSet(Good) /\ IsFiniteSet(Bad)
  <2>1. IsFiniteSet(Memory)
    BY FS_Interval, CohortAssumption DEF Memory
  <2> QED
    BY <2>1, FS_Subset, CohortAssumption DEF Bad
<1> QED
  BY <1>1, FS_CardinalityType DEF Weight

LEMMA ProductMonotone ==
  ASSUME NEW a \in Nat, NEW b \in Nat, NEW c \in Nat, a <= b
  PROVE  a * c \in Nat /\ b * c \in Nat /\ a * c <= b * c
<1>1. PICK d \in Nat : b = a + d
  <2>1. b - a \in Nat /\ b = a + (b - a)
    OBVIOUS
  <2> QED
    BY <2>1
<1>2. b * c = a * c + d * c /\ a * c \in Nat /\ d * c \in Nat
  BY <1>1
<1> QED
  BY <1>2

LEMMA ScaledMonotone ==
  ASSUME NEW a \in Nat, NEW b \in Nat, NEW w \in Nat, a <= b
  PROVE  100 * a * w \in Nat /\ 100 * b * w \in Nat /\ 100 * a * w <= 100 * b * w
<1>1. a * w \in Nat /\ b * w \in Nat /\ a * w <= b * w
  BY ProductMonotone
<1>2. 100 * a * w = 100 * (a * w) /\ 100 * b * w = 100 * (b * w)
  OBVIOUS
<1> QED
  BY <1>1, <1>2

LEMMA RatesMonotone ==
  ASSUME NEW P, NEW Q, P \subseteq Q, Q \subseteq Memory
  PROVE  /\ GoodPP(P) \in Nat /\ GoodPP(Q) \in Nat /\ GoodPP(P) <= GoodPP(Q)
         /\ BadPP(P) \in Nat /\ BadPP(Q) \in Nat /\ BadPP(P) <= BadPP(Q)
<1>1. IsFiniteSet(Q)
  <2>1. IsFiniteSet(Memory)
    BY FS_Interval, CohortAssumption DEF Memory
  <2> QED
    BY <2>1, FS_Subset
<1>2. ASSUME NEW S
      PROVE  /\ Cardinality(P \cap S) \in Nat /\ Cardinality(Q \cap S) \in Nat
             /\ Cardinality(P \cap S) <= Cardinality(Q \cap S)
  <2>1. P \cap S \subseteq Q \cap S /\ Q \cap S \subseteq Q
    OBVIOUS
  <2>2. IsFiniteSet(Q \cap S)
    BY <1>1, <2>1, FS_Subset
  <2>3. IsFiniteSet(P \cap S)
    BY <2>1, <2>2, FS_Subset
  <2> QED
    BY <2>1, <2>2, <2>3, FS_Subset, FS_CardinalityType
<1>3. GoodPP(P) \in Nat /\ GoodPP(Q) \in Nat /\ GoodPP(P) <= GoodPP(Q)
  BY <1>2, WeightNat, ScaledMonotone DEF GoodPP
<1>4. BadPP(P) \in Nat /\ BadPP(Q) \in Nat /\ BadPP(P) <= BadPP(Q)
  BY <1>2, WeightNat, ScaledMonotone DEF BadPP
<1> QED
  BY <1>3, <1>4

(* When the run is over the gap is that of the survey just made.           *)
GapInv == pc = "done" => gap = GapPP(present)

LEMMA GapInvStep == GapInv /\ [Next]_vars => GapInv'
  BY DEF GapInv, Next, RunStep, EpochEnds, BeginSurvey, QueryArchived, CheckpointEnds,
         MeasureEnds, Fail, Archive, runVars, vars, GapPP, GoodPP, BadPP, Over

(* The reported gap lies between the worst and the best one that can be    *)
(* made of the chain's states at the beginning and the end of the last     *)
(* survey ("Decoupling gap", harness.run): it is never a checkpoint's.     *)
THEOREM ReportedGapIsBounded == Spec => []GapBounded
<1>1. SurveyInv /\ GapInv => GapBounded
  <2> SUFFICES ASSUME SurveyInv, GapInv, pc = "done" PROVE GapBounded
    BY DEF GapBounded
  <2>1. /\ Shown(archived) \subseteq present /\ present \subseteq Shown(before)
        /\ present \subseteq Memory /\ Shown(before) \subseteq Memory
    BY CohortAssumption DEF SurveyInv, SurveyTypes, Shown, Memory
  <2>2. /\ GoodPP(Shown(archived)) <= GoodPP(present) /\ GoodPP(Shown(archived)) \in Nat
        /\ BadPP(Shown(archived)) <= BadPP(present) /\ BadPP(Shown(archived)) \in Nat
    BY <2>1, RatesMonotone
  <2>3. /\ GoodPP(present) <= GoodPP(Shown(before)) /\ GoodPP(present) \in Nat
        /\ BadPP(present) <= BadPP(Shown(before)) /\ BadPP(present) \in Nat
        /\ GoodPP(Shown(before)) \in Nat /\ BadPP(Shown(before)) \in Nat
    BY <2>1, RatesMonotone
  <2>4. gap = GoodPP(present) - BadPP(present)
    BY DEF GapInv, GapPP
  <2> HIDE DEF GoodPP, BadPP, Shown
  <2> QED
    BY <2>2, <2>3, <2>4 DEF GapBounded
<1>2. Init => GapInv
  BY DEF Init, GapInv
<1> QED
  BY <1>1, <1>2, GapInvStep, SurveyInvAlways, PTL DEF Spec

-----------------------------------------------------------------------------
(* Stopping early.  The window of gaps is the end of the list of all       *)
(* checkpoints, ...                                                        *)
CheckRecord == [epoch : Nat, gap : Int, bad : Nat]

WindowInv ==
  /\ checks \in Seq(CheckRecord)
  /\ gaps \in Seq(Int)
  /\ Len(checks) < 3 => Len(gaps) = Len(checks)
  /\ Len(checks) >= 3 => Len(gaps) = 3
  /\ \A k \in 1 .. Len(gaps) : gaps[k] = checks[Len(checks) - Len(gaps) + k].gap

(* ... no epoch a checkpoint is due after goes by without one, ...         *)
CadenceInv ==
  /\ e \in 0 .. TotalEpochs
  /\ \A k \in 1 .. Len(checks) : checks[k].epoch = k * CheckpointEvery
  /\ pc = "epochs" =>
       /\ e < TotalEpochs
       /\ CheckpointEvery > 0 =>
            /\ Len(checks) * CheckpointEvery <= e
            /\ e < (Len(checks) + 1) * CheckpointEvery
  /\ pc = "checkpoint" =>
       /\ e < TotalEpochs
       /\ e = (Len(checks) + 1) * CheckpointEvery

(* ... and a run that stops early has just had the checkpoint that allowed *)
(* it, and nothing has come back since that was not among the survivors P  *)
(* it had found.                                                           *)
StopInv ==
  StoppedEarly =>
    /\ Len(checks) >= 3
    /\ checks[Len(checks)].epoch = e
    /\ e >= MinEarlyStop
    /\ checks[Len(checks)].bad <= BadFloor * Scale
    /\ \A j, k \in Len(checks) - 2 .. Len(checks) :
         checks[j].gap - checks[k].gap <= Tolerance * Scale
    /\ \E P \in SUBSET Memory :
         /\ Shown(before) \subseteq P
         /\ checks[Len(checks)].gap = GapPP(P)
         /\ checks[Len(checks)].bad = BadPP(P)

(* The first multiple of c after n of them is the next one.                *)
LEMMA NextMultiple ==
  ASSUME NEW c \in Nat, c > 0, NEW n \in Nat, NEW t \in Nat,
         n * c < t, t <= (n + 1) * c, t % c = 0
  PROVE  t = (n + 1) * c
<1>1. PICK q \in Nat : t = q * c
  <2>1. t = c * (t \div c) + (t % c) /\ t \div c \in Nat
    OBVIOUS
  <2>2. t = (t \div c) * c
    BY <2>1
  <2> QED
    BY <2>1, <2>2
<1>2. CASE q <= n
  <2>1. q * c <= n * c /\ n * c \in Nat
    BY <1>2, ProductMonotone
  <2> QED
    BY <2>1, <1>1
<1>3. CASE q > n + 1
  <2>1. (n + 2) * c <= q * c
    BY <1>3, ProductMonotone
  <2>2. (n + 2) * c = (n + 1) * c + c /\ (n + 1) * c \in Nat
    OBVIOUS
  <2> QED
    BY <2>1, <2>2, <1>1
<1>4. CASE q = n + 1
  BY <1>1, <1>4
<1> QED
  BY <1>2, <1>3, <1>4

(* LastThree keeps the end of a list.                                      *)
LEMMA LastThreeIsEnd ==
  ASSUME NEW s \in Seq(Int)
  PROVE  /\ LastThree(s) \in Seq(Int)
         /\ Len(s) <= 3 => Len(LastThree(s)) = Len(s)
         /\ Len(s) >= 3 => Len(LastThree(s)) = 3
         /\ \A k \in 1 .. Len(LastThree(s)) :
              LastThree(s)[k] = s[Len(s) - Len(LastThree(s)) + k]
<1>0. Len(s) \in Nat
  OBVIOUS
<1>1. CASE Len(s) > 3
  <2>1. LastThree(s) = SubSeq(s, Len(s) - 2, Len(s))
    BY <1>1 DEF LastThree
  <2>2. /\ SubSeq(s, Len(s) - 2, Len(s)) \in Seq(Int)
        /\ Len(SubSeq(s, Len(s) - 2, Len(s))) = 3
        /\ \A k \in 1 .. 3 :
             SubSeq(s, Len(s) - 2, Len(s))[k] = s[Len(s) - 3 + k]
    BY <1>0, <1>1
  <2> QED
    BY <2>1, <2>2, <1>0, <1>1
<1>2. CASE ~(Len(s) > 3)
  <2>1. LastThree(s) = s
    BY <1>2 DEF LastThree
  <2>2. \A k \in 1 .. Len(s) : s[k] = s[Len(s) - Len(s) + k]
    BY <1>0
  <2> QED
    <3>1. \A k \in 1 .. Len(LastThree(s)) :
            LastThree(s)[k] = s[Len(s) - Len(LastThree(s)) + k]
      BY <2>1, <2>2
    <3>2. Len(s) >= 3 => Len(s) = 3
      <4>1. \A n \in Nat : ~(n > 3) /\ n >= 3 => n = 3
        OBVIOUS
      <4> QED
        BY <4>1, <1>0, <1>2
    <3> QED
      BY <2>1, <3>1, <3>2
<1> QED
  BY <1>1, <1>2

(* Append leaves what was there, and adds its element.                     *)
LEMMA AppendFacts ==
  ASSUME NEW S, NEW s \in Seq(S), NEW x \in S
  PROVE  /\ Append(s, x) \in Seq(S)
         /\ Len(s) \in Nat
         /\ Len(Append(s, x)) = Len(s) + 1
         /\ Append(s, x)[Len(s) + 1] = x
         /\ \A k \in 1 .. Len(s) : Append(s, x)[k] = s[k]
  OBVIOUS

(* A checkpoint's record has its type.                                     *)
LEMMA RecordTyped ==
  ASSUME SurveyTypes, e \in Nat
  PROVE  [epoch |-> e, gap |-> GapPP(present), bad |-> BadPP(present)] \in CheckRecord
<1>1. GoodPP(present) \in Nat /\ BadPP(present) \in Nat
  BY RatesMonotone DEF SurveyTypes
<1> HIDE DEF GoodPP, BadPP
<1> QED
  BY <1>1 DEF CheckRecord, GapPP

LEMMA WindowInvStep ==
  ASSUME SurveyTypes, CadenceInv, WindowInv, [Next]_vars
  PROVE  WindowInv'
<1>1. CASE CheckpointEnds
  <2> DEFINE g == GapPP(present)
             r == [epoch |-> e, gap |-> g, bad |-> BadPP(present)]
  <2>1. /\ gaps' = LastThree(Append(gaps, g)) /\ checks' = Append(checks, r)
        /\ r \in CheckRecord /\ r.gap = g
    BY <1>1, RecordTyped, EpochAssumption DEF CheckpointEnds, CadenceInv
  <2>2. g \in Int
    BY <2>1 DEF CheckRecord
  <2> HIDE DEF g, r
  <2>3. /\ checks \in Seq(CheckRecord) /\ gaps \in Seq(Int)
        /\ Len(checks) < 3 => Len(gaps) = Len(checks)
        /\ Len(checks) >= 3 => Len(gaps) = 3
        /\ \A k \in 1 .. Len(gaps) : gaps[k] = checks[Len(checks) - Len(gaps) + k].gap
    BY DEF WindowInv
  <2>4. /\ checks' \in Seq(CheckRecord)
        /\ Len(checks) \in Nat
        /\ Len(checks') = Len(checks) + 1
        /\ checks'[Len(checks) + 1] = r
        /\ \A k \in 1 .. Len(checks) : checks'[k] = checks[k]
    BY <2>1, <2>3, AppendFacts
  <2> DEFINE s == Append(gaps, g)
  <2>5. /\ s \in Seq(Int) /\ Len(s) = Len(gaps) + 1 /\ s[Len(gaps) + 1] = g
        /\ Len(gaps) \in Nat
        /\ \A k \in 1 .. Len(gaps) : s[k] = gaps[k]
    <3>1. gaps \in Seq(Int)
      BY <2>3
    <3> QED
      BY <2>2, <3>1, AppendFacts
  <2> HIDE DEF s
  <2>6. /\ gaps' \in Seq(Int)
        /\ Len(s) <= 3 => Len(gaps') = Len(s)
        /\ Len(s) >= 3 => Len(gaps') = 3
        /\ \A k \in 1 .. Len(gaps') : gaps'[k] = s[Len(s) - Len(gaps') + k]
    BY <2>1, <2>5, LastThreeIsEnd DEF s
  <2>7. /\ Len(gaps') \in 1 .. 3
        /\ Len(checks') < 3 => Len(gaps') = Len(checks')
        /\ Len(checks') >= 3 => Len(gaps') = 3
        /\ Len(gaps') <= Len(s)
        /\ Len(checks) - Len(gaps) \in Nat
        /\ Len(checks) - Len(gaps) + Len(s) = Len(checks')
    <3>1. CASE Len(checks) < 3
      <4>1. Len(gaps) = Len(checks)
        BY <2>3, <3>1
      <4>2. Len(s) = Len(checks) + 1 /\ Len(s) <= 3
        BY <4>1, <3>1, <2>4, <2>5
      <4>3. Len(gaps') = Len(s)
        BY <4>2, <2>6
      <4> QED
        BY <4>1, <4>2, <4>3, <3>1, <2>4
    <3>2. CASE Len(checks) >= 3
      <4>1. Len(gaps) = 3
        BY <2>3, <3>2
      <4>2. Len(s) = 4
        BY <4>1, <2>5
      <4>3. Len(gaps') = 3
        BY <4>2, <2>6
      <4> QED
        BY <4>1, <4>2, <4>3, <3>2, <2>4
    <3> QED
      BY <3>1, <3>2, <2>4
  <2>8. ASSUME NEW k \in 1 .. Len(gaps')
        PROVE  gaps'[k] = checks'[Len(checks') - Len(gaps') + k].gap
    <3>1. CASE k = Len(gaps')
      <4>1. gaps'[k] = g
        <5>1. gaps'[k] = s[Len(s) - Len(gaps') + k]
          BY <2>6
        <5>2. Len(s) - Len(gaps') + k = Len(gaps) + 1
          BY <3>1, <2>5, <2>7
        <5> QED
          BY <5>1, <5>2, <2>5
      <4>2. checks'[Len(checks') - Len(gaps') + k] = r
        <5>1. Len(checks') - Len(gaps') + k = Len(checks) + 1
          BY <3>1, <2>4, <2>7
        <5> QED
          BY <5>1, <2>4
      <4> QED
        BY <4>1, <4>2, <2>1
    <3>2. CASE k < Len(gaps')
      <4> DEFINE m == Len(s) - Len(gaps') + k
      <4>1. m \in 1 .. Len(gaps) /\ gaps'[k] = s[m]
        <5>1. m \in 1 .. Len(gaps)
          BY <3>2, <2>5, <2>7
        <5> QED
          BY <5>1, <2>6
      <4>2. gaps'[k] = checks[Len(checks) - Len(gaps) + m].gap
        BY <4>1, <2>3, <2>5
      <4>3. Len(checks) - Len(gaps) + m \in 1 .. Len(checks)
        <5>1. \A a, b \in Nat : \A k1 \in 1 .. b : a - b \in Nat => a - b + k1 \in 1 .. a
          OBVIOUS
        <5> QED
          BY <5>1, <4>1, <2>4, <2>5, <2>7
      <4>4. Len(checks) - Len(gaps) + m = Len(checks') - Len(gaps') + k
        BY <2>3, <2>4, <2>5, <2>6, <2>7
      <4> QED
        BY <4>2, <4>3, <4>4, <2>4
    <3> QED
      BY <3>1, <3>2, <2>7
  <2> QED
    BY <2>4, <2>6, <2>7, <2>8 DEF WindowInv
<1>2. CASE UNCHANGED <<gaps, checks>>
  BY <1>2 DEF WindowInv
<1> QED
  BY <1>1, <1>2 DEF Next, RunStep, EpochEnds, QueryArchived, MeasureEnds, Fail, Archive,
                    runVars, vars

LEMMA CadenceInvStep ==
  ASSUME SurveyTypes, WindowInv, CadenceInv, [Next]_vars
  PROVE  CadenceInv'
<1>0. Len(checks) \in Nat /\ checks \in Seq(CheckRecord)
  BY DEF WindowInv
<1>1. CASE EpochEnds
  <2>1. pc = "epochs" /\ e' = e + 1 /\ checks' = checks /\ e \in Nat /\ e < TotalEpochs
    BY <1>1, EpochAssumption DEF EpochEnds, CadenceInv
  <2>2. CASE pc' = "measure"
    BY <2>1, <2>2, EpochAssumption DEF CadenceInv
  <2>3. CASE pc' = "checkpoint"
    <3>1. CheckpointEvery > 0 /\ e' % CheckpointEvery = 0 /\ e' < TotalEpochs
      BY <1>1, <2>3 DEF EpochEnds
    <3>2. /\ Len(checks) * CheckpointEvery < e'
          /\ e' <= (Len(checks) + 1) * CheckpointEvery
      BY <3>1, <2>1, <1>0, EpochAssumption DEF CadenceInv
    <3>3. e' = (Len(checks) + 1) * CheckpointEvery
      <4>1. e' \in Nat
        BY <2>1
      <4> QED
        BY <4>1, <3>1, <3>2, <2>1, <1>0, EpochAssumption, NextMultiple
    <3> QED
      BY <3>1, <3>3, <2>1, <2>3, EpochAssumption DEF CadenceInv
  <2>4. CASE pc' = "epochs"
    <3>1. e' < TotalEpochs /\ ~(CheckpointEvery > 0 /\ e' % CheckpointEvery = 0)
      BY <1>1, <2>1, <2>4 DEF EpochEnds
    <3>2. ASSUME CheckpointEvery > 0
          PROVE  /\ Len(checks) * CheckpointEvery <= e'
                 /\ e' < (Len(checks) + 1) * CheckpointEvery
      <4>1. /\ Len(checks) * CheckpointEvery <= e
            /\ e < (Len(checks) + 1) * CheckpointEvery
        BY <3>2, <2>1 DEF CadenceInv
      <4>2. e' # (Len(checks) + 1) * CheckpointEvery
        <5>1. ((Len(checks) + 1) * CheckpointEvery) % CheckpointEvery = 0
          <6>1. \A n \in Nat : (n * CheckpointEvery + 0) % CheckpointEvery = 0
            BY <3>2, EpochAssumption
          <6> QED
            BY <6>1, <1>0, EpochAssumption
        <5> QED
          BY <5>1, <3>1, <3>2
      <4>3. /\ Len(checks) * CheckpointEvery \in Nat
            /\ (Len(checks) + 1) * CheckpointEvery \in Nat
        BY <1>0, EpochAssumption
      <4> QED
        BY <4>1, <4>2, <4>3, <2>1
    <3> QED
      BY <3>1, <3>2, <2>1, <2>4, EpochAssumption DEF CadenceInv
  <2> QED
    BY <2>2, <2>3, <2>4, <1>1, <2>1 DEF EpochEnds
<1>2. CASE CheckpointEnds
  <2> DEFINE n == Len(checks)
             r == [epoch |-> e, gap |-> GapPP(present), bad |-> BadPP(present)]
  <2>1. pc = "checkpoint" /\ checks' = Append(checks, r) /\ r.epoch = e /\ e' = e
    BY <1>2 DEF CheckpointEnds
  <2>2. e = (n + 1) * CheckpointEvery /\ e < TotalEpochs /\ e \in 0 .. TotalEpochs
    BY <2>1 DEF CadenceInv
  <2>3. pc' \in {"epochs", "measure"}
    BY <1>2 DEF CheckpointEnds
  <2>4. r \in CheckRecord
    BY <2>2, RecordTyped, EpochAssumption
  <2> HIDE DEF r
  <2>5. Len(checks') = n + 1 /\ checks'[n + 1] = r /\ \A k \in 1 .. n : checks'[k] = checks[k]
    BY <2>1, <2>4, <1>0
  <2>6. \A k \in 1 .. n + 1 : checks'[k].epoch = k * CheckpointEvery
    BY <2>1, <2>2, <2>5, <1>0 DEF CadenceInv
  <2>7. CheckpointEvery > 0 =>
          (n + 1) * CheckpointEvery < (n + 2) * CheckpointEvery
    BY <1>0, EpochAssumption
  <2>8. (n + 1) + 1 = n + 2
    BY <1>0
  <2> QED
    BY <2>1, <2>2, <2>3, <2>5, <2>6, <2>7, <2>8 DEF CadenceInv
<1>3. CASE UNCHANGED <<e, checks>> /\ pc' \in {pc, "done", "failed"}
  BY <1>3 DEF CadenceInv
<1> QED
  BY <1>1, <1>2, <1>3 DEF Next, RunStep, QueryArchived, MeasureEnds, Fail, Archive,
                          runVars, vars

LEMMA StopInvStep ==
  ASSUME SurveyInv, WindowInv, WindowInv', CadenceInv, StopInv, [Next]_vars
  PROVE  StopInv'
<1>1. CASE EpochEnds
  BY <1>1 DEF EpochEnds, StopInv, StoppedEarly
<1>2. CASE CheckpointEnds
  <2> SUFFICES ASSUME StoppedEarly' PROVE StopInv'
    BY DEF StopInv
  <2> DEFINE g == GapPP(present)
             r == [epoch |-> e, gap |-> g, bad |-> BadPP(present)]
             n == Len(checks')
  <2>1. /\ MayStop(gaps') /\ pc' = "measure" /\ BeginSurvey
        /\ checks' = Append(checks, r) /\ UNCHANGED <<e, archived>>
        /\ i > Count
    BY <1>2 DEF CheckpointEnds, StoppedEarly
  <2>2. r \in CheckRecord /\ r.epoch = e /\ r.gap = g /\ r.bad = BadPP(present)
    BY RecordTyped, EpochAssumption DEF CadenceInv, SurveyInv
  <2> HIDE DEF r
  <2>3. checks'[n] = r /\ n \in Nat
    BY <2>1, <2>2 DEF WindowInv
  <2>4. n >= 3 /\ Len(gaps') = 3 /\ \A k \in 1 .. 3 : gaps'[k] = checks'[n - 3 + k].gap
    <3>1. Len(gaps') >= 3 /\ (n < 3 => Len(gaps') = n) /\ (n >= 3 => Len(gaps') = 3)
      BY <2>1 DEF MayStop, Plateau, WindowInv
    <3>2. n >= 3 /\ Len(gaps') = 3
      BY <3>1, <2>3
    <3> QED
      BY <3>2 DEF WindowInv
  <2>5. ASSUME NEW j \in n - 2 .. n, NEW k \in n - 2 .. n
        PROVE  checks'[j].gap - checks'[k].gap <= Tolerance * Scale
    <3>1. /\ j - n + 3 \in 1 .. 3 /\ n - 3 + (j - n + 3) = j
          /\ k - n + 3 \in 1 .. 3 /\ n - 3 + (k - n + 3) = k
      BY <2>3
    <3>2. DOMAIN gaps' = 1 .. 3
      BY <2>4 DEF WindowInv
    <3>3. gaps'[j - n + 3] - gaps'[k - n + 3] <= Tolerance * Scale
      BY <3>1, <3>2, <2>1 DEF MayStop, Plateau
    <3> QED
      BY <3>1, <3>3, <2>4
  <2>6. e' >= MinEarlyStop /\ checks'[n].bad <= BadFloor * Scale
    BY <2>1, <2>2, <2>3 DEF MayStop
  <2>7. Shown(before') \subseteq present /\ present \in SUBSET Memory
    BY <2>1, CohortAssumption DEF SurveyInv, SurveyTypes, BeginSurvey, Shown, Memory
  <2>8. checks'[n].epoch = e'
    BY <2>1, <2>2, <2>3
  <2> HIDE DEF n
  <2>9. /\ Shown(before)' \subseteq present
        /\ checks'[n].gap = GapPP(present)
        /\ checks'[n].bad = BadPP(present)
    BY <2>2, <2>3, <2>7 DEF g, Shown
  <2> QED
    BY <2>4, <2>5, <2>6, <2>7, <2>8, <2>9 DEF StopInv, n
<1>3. CASE UNCHANGED <<e, checks, before>> /\ pc' \in {pc, "failed"}
  BY <1>3 DEF StopInv, StoppedEarly, Shown
<1>4. CASE MeasureEnds
  BY <1>4 DEF MeasureEnds, StopInv, StoppedEarly, Shown
<1> QED
  BY <1>1, <1>2, <1>3, <1>4 DEF Next, RunStep, QueryArchived, Fail, Archive,
                                runVars, vars

(* The three together, with the survey's own invariant.                    *)
LEMMA StopInvAlways == Spec => [](SurveyInv /\ WindowInv /\ CadenceInv /\ StopInv)
<1>1. Init => WindowInv /\ CadenceInv /\ StopInv
  BY EpochAssumption DEF Init, WindowInv, CadenceInv, StopInv, StoppedEarly
<1>2. SurveyInv /\ WindowInv /\ CadenceInv /\ StopInv /\ [Next]_vars
        => (WindowInv /\ CadenceInv /\ StopInv)'
  BY WindowInvStep, CadenceInvStep, StopInvStep DEF SurveyInv
<1> QED
  BY <1>1, <1>2, SurveyInvAlways, PTL DEF Spec

(* A run that ends before its last epoch does so at a checkpoint late      *)
(* enough, with the bad memories at their floor, and the last of three     *)
(* successive ones whose gaps are within the tolerance of each other       *)
(* ("gap plateaued AND bad-persistence at floor"): no checkpoint that was  *)
(* due between them was missed.                                            *)
THEOREM EarlyStopsAreJustified == Spec => []EarlyStopJustified
<1>1. WindowInv /\ CadenceInv /\ StopInv => EarlyStopJustified
  <2> SUFFICES ASSUME WindowInv, CadenceInv, StopInv, StoppedEarly
               PROVE  EarlyStopJustified
    BY DEF EarlyStopJustified
  <2> DEFINE n == Len(checks)
  <2>1. n \in Nat /\ n >= 3
    BY DEF WindowInv, StopInv
  <2>2. ASSUME NEW j \in n - 2 .. n
        PROVE  checks[n].epoch - checks[j].epoch = (n - j) * CheckpointEvery
    <3>1. checks[n].epoch = n * CheckpointEvery /\ checks[j].epoch = j * CheckpointEvery
      BY <2>1 DEF CadenceInv
    <3>2. n * CheckpointEvery - j * CheckpointEvery = (n - j) * CheckpointEvery
      BY <2>1, EpochAssumption
    <3> QED
      BY <3>1, <3>2
  <2> QED
    BY <2>1, <2>2 DEF EarlyStopJustified, StopInv
<1> QED
  BY <1>1, StopInvAlways, PTL

(* The survey a run that stopped early reports finds no more bad memories  *)
(* and no better gap than the checkpoint that let it stop, whatever the    *)
(* chain archived in between.                                              *)
THEOREM EarlyStopsAreConservative == Spec => []EarlyStopConservative
<1>1. SurveyInv /\ GapInv /\ WindowInv /\ StopInv => EarlyStopConservative
  <2> SUFFICES ASSUME SurveyInv, GapInv, WindowInv, StopInv,
                      StoppedEarly, pc = "done", BadFloor = 0
               PROVE  EarlyStopConservative
    BY DEF EarlyStopConservative
  <2> DEFINE c == checks[Len(checks)]
  <2>1. PICK P \in SUBSET Memory :
               Shown(before) \subseteq P /\ c.gap = GapPP(P) /\ c.bad = BadPP(P)
    BY DEF StopInv
  <2>2. present \subseteq P /\ P \subseteq Memory
    BY <2>1 DEF SurveyInv
  <2>3. /\ GoodPP(present) \in Nat /\ GoodPP(P) \in Nat /\ GoodPP(present) <= GoodPP(P)
        /\ BadPP(present) \in Nat /\ BadPP(P) \in Nat /\ BadPP(present) <= BadPP(P)
    BY <2>2, RatesMonotone
  <2>4. BadPP(P) <= 0
    <3>1. Scale \in Int
      BY WeightNat DEF Scale
    <3>2. BadFloor * Scale = 0
      BY <3>1
    <3> QED
      BY <2>1, <3>2 DEF StopInv
  <2>5. gap = GoodPP(present) - BadPP(present) /\ c.gap = GoodPP(P) - BadPP(P)
    BY <2>1 DEF GapInv, GapPP
  <2> HIDE DEF c, GoodPP, BadPP
  <2>6. BadPP(present) = 0 /\ gap <= c.gap
    BY <2>3, <2>4, <2>5
  <2> QED
    BY <2>6 DEF EarlyStopConservative, c
<1>2. Init => GapInv
  BY DEF Init, GapInv
<1> QED
  BY <1>1, <1>2, GapInvStep, StopInvAlways, PTL DEF Spec

(* Every variable of the survey has its type.                              *)
THEOREM SurveyTypesCorrect == Spec => []TypeOK
<1> DEFINE GapTyped == gap \in Int
<1>1. Init => GapTyped
  <2>1. Scale \in Int
    BY WeightNat DEF Scale
  <2> QED
    BY <2>1 DEF Init, NoGap
<1>2. SurveyInv /\ GapTyped /\ [Next]_vars => GapTyped'
  <2> SUFFICES ASSUME SurveyInv, GapTyped, [Next]_vars PROVE GapTyped'
    OBVIOUS
  <2>1. CASE MeasureEnds
    <3>1. GoodPP(present) \in Nat /\ BadPP(present) \in Nat
      BY RatesMonotone DEF SurveyInv, SurveyTypes
    <3> HIDE DEF GoodPP, BadPP
    <3> QED
      BY <2>1, <3>1 DEF MeasureEnds, GapPP
  <2>2. CASE UNCHANGED gap
    BY <2>2
  <2> QED
    BY <2>1, <2>2 DEF Next, RunStep, EpochEnds, QueryArchived, CheckpointEnds, Fail, Archive,
                      runVars, vars
<1>3. SurveyInv /\ WindowInv /\ CadenceInv /\ GapTyped => TypeOK
  <2> SUFFICES ASSUME SurveyInv, WindowInv, CadenceInv, GapTyped PROVE TypeOK
    OBVIOUS
  <2>1. Len(gaps) <= 3
    <3>1. Len(checks) \in Nat
      BY DEF WindowInv
    <3> QED
      BY <3>1 DEF WindowInv
  <2> QED
    BY <2>1 DEF SurveyInv, SurveyTypes, WindowInv, CadenceInv, CheckRecord, TypeOK
<1> QED
  BY <1>1, <1>2, <1>3, StopInvAlways, PTL DEF Spec

-----------------------------------------------------------------------------
(* A step of the loop is one of SurvivalMonitor or leaves it alone.        *)
LEMMA StepIsMonitoring == [ThroughputNext]_throughputVars => [Next]_vars
<1>1. ASSUME ReadStart \/ ReadEnd \/ CountTxsInBlock \/ TakeSample \/ Block
      PROVE  UNCHANGED vars
  BY <1>1 DEF ReadStart, ReadEnd, CountTxsInBlock, TakeSample, Block
<1>2. ASSUME EndOfEpoch \/ Elsewhere
      PROVE  Next
  BY <1>2 DEF EndOfEpoch, Elsewhere, Next, RunStep
<1> QED
  BY <1>1, <1>2 DEF ThroughputNext, throughputVars

(* The loop implements SurvivalMonitor: a figure that cannot be sampled    *)
(* changes neither the checkpoints nor the result.                         *)
THEOREM ThroughputIsMonitoring == ThroughputSpec => Spec
<1>1. ThroughputInit => Init
  BY DEF ThroughputInit
<1> QED
  BY <1>1, StepIsMonitoring, PTL DEF ThroughputSpec, Spec

(* Surveys are bounded also in the loop that samples throughput.           *)
THEOREM SampledSurveysAreBounded == ThroughputSpec => []SurveyBounded
  BY ThroughputIsMonitoring, SurveysAreBounded, PTL

(* So is the gap it reports.                                               *)
THEOREM SampledGapIsBounded == ThroughputSpec => []GapBounded
  BY ThroughputIsMonitoring, ReportedGapIsBounded, PTL

(* And a run that stops early is as justified, and as conservative, when   *)
(* it samples its throughput.                                              *)
THEOREM SampledEarlyStops ==
  ThroughputSpec => []EarlyStopJustified /\ []EarlyStopConservative
  BY ThroughputIsMonitoring, EarlyStopsAreJustified, EarlyStopsAreConservative, PTL

-----------------------------------------------------------------------------
(* What has been counted lies at or below the height the epoch began at.   *)
SampleInv ==
  /\ height \in Nat
  /\ counted \subseteq 1 .. height
  /\ place \in {"traffic", "count"} /\ start # Unread =>
       start \in 0 .. height /\ counted \subseteq 1 .. start
  /\ place = "count" => start # Unread /\ end \in start .. height

LEMMA SampleInvInit == ThroughputInit => SampleInv
  BY DEF ThroughputInit, SampleInv, Unread

LEMMA SampleInvStep == SampleInv /\ [ThroughputNext]_throughputVars => SampleInv'
<1> SUFFICES ASSUME SampleInv, [ThroughputNext]_throughputVars PROVE SampleInv'
  OBVIOUS
<1> USE DEF SampleInv, Unread
<1>1. CASE ReadStart
  BY <1>1 DEF ReadStart
<1>2. CASE ReadEnd
  BY <1>2 DEF ReadEnd
<1>3. CASE CountTxsInBlock
  BY <1>3 DEF CountTxsInBlock
<1>4. CASE TakeSample
  <2>1. start \in 0 .. height /\ end \in start .. height /\ height' = height
    BY <1>4 DEF TakeSample
  <2>2. start + 1 .. end \subseteq 1 .. height
    BY <2>1
  <2>3. counted' = counted \cup (start + 1 .. end) /\ place' = "sampled"
    BY <1>4 DEF TakeSample
  <2> QED
    BY <2>1, <2>2, <2>3
<1>5. CASE EndOfEpoch
  BY <1>5 DEF EndOfEpoch
<1>6. CASE Elsewhere \/ UNCHANGED throughputVars
  BY <1>6 DEF Elsewhere, throughputVars, sampleVars
<1>7. CASE Block
  BY <1>7 DEF Block, sampleVars
<1> QED
  BY <1>1, <1>2, <1>3, <1>4, <1>5, <1>6, <1>7 DEF ThroughputNext

LEMMA SampleInvAlways == ThroughputSpec => []SampleInv
  BY SampleInvInit, SampleInvStep, PTL DEF ThroughputSpec

(* A sample that joins the totals is of blocks none of which is in them:   *)
(* the two heights of an epoch never reach back into the one before.       *)
FreshSample == TakeSample => (start + 1 .. end) \cap counted = {}

(* No sample of any epoch counts a block a second time, however the chain  *)
(* goes on between the reads of its height.                                *)
THEOREM NoBlockTwice == ThroughputSpec => [][FreshSample]_throughputVars
<1>1. SampleInv => FreshSample
  BY DEF SampleInv, FreshSample, TakeSample, Unread
<1> QED
  BY <1>1, SampleInvAlways, PTL

-----------------------------------------------------------------------------
(* The figures themselves: where the count is, and what it has added up    *)
(* since the epoch's sample began.                                         *)
FigureTypes ==
  /\ height \in 0 .. MaxHeight
  /\ place \in Places
  /\ start \in 0 .. MaxHeight \cup {Unread}
  /\ end \in 0 .. MaxHeight \cup {Unread}
  /\ next \in 0 .. MaxHeight + 1
  /\ epochTxs \in Nat
  /\ totalTxs \in Nat
  /\ totalBlocks \in Nat
  /\ counted \in SUBSET (1 .. MaxHeight)
  /\ place = "count" => next \in start + 1 .. end + 1

TotalsInv ==
  /\ totalBlocks = Cardinality(counted)
  /\ totalTxs = SumOf(Txs, counted)
  /\ place = "count" =>
       totalTxs + epochTxs = SumOf(Txs, counted \cup (start + 1 .. next - 1))

LEMMA FigureTypesStep ==
  ASSUME FigureTypes, SampleInv, [ThroughputNext]_throughputVars
  PROVE  FigureTypes'
<1> USE BlockAssumption DEF FigureTypes, SampleInv, Unread, Places
<1>1. CASE ReadStart
  BY <1>1 DEF ReadStart
<1>2. CASE ReadEnd
  BY <1>2 DEF ReadEnd
<1>3. CASE CountTxsInBlock
  <2>1. /\ place = "count" /\ next \in 1 .. MaxHeight /\ next <= end
        /\ next \in start + 1 .. end + 1 /\ end \in 0 .. MaxHeight
        /\ start \in 0 .. MaxHeight
    BY <1>3 DEF CountTxsInBlock
  <2>2. Txs[next] \in Nat
    BY <2>1
  <2>3. CASE epochTxs' = epochTxs + Txs[next] /\ next' = next + 1 /\ UNCHANGED place
    <3>1. epochTxs' \in Nat
      BY <2>2, <2>3
    <3> QED
      BY <1>3, <2>1, <2>3, <3>1 DEF CountTxsInBlock
  <2>4. CASE place' = "sampled" /\ UNCHANGED <<next, epochTxs>>
    BY <1>3, <2>4 DEF CountTxsInBlock
  <2> QED
    BY <1>3, <2>3, <2>4 DEF CountTxsInBlock
<1>4. CASE TakeSample
  <2>1. /\ start \in 0 .. MaxHeight /\ end \in start .. MaxHeight
        /\ counted' = counted \cup (start + 1 .. end)
        /\ totalBlocks' = totalBlocks + (end - start)
        /\ totalTxs' = totalTxs + epochTxs /\ place' = "sampled"
        /\ UNCHANGED <<height, start, end, next, epochTxs>>
    BY <1>4 DEF TakeSample
  <2>2. start + 1 .. end \subseteq 1 .. MaxHeight /\ end - start \in Nat
    BY <2>1
  <2> QED
    BY <2>1, <2>2
<1>5. CASE EndOfEpoch
  BY <1>5 DEF EndOfEpoch
<1>6. CASE Elsewhere \/ UNCHANGED throughputVars
  BY <1>6 DEF Elsewhere, throughputVars, sampleVars
<1>7. CASE Block
  BY <1>7 DEF Block, sampleVars
<1> QED
  BY <1>1, <1>2, <1>3, <1>4, <1>5, <1>6, <1>7 DEF ThroughputNext

LEMMA TotalsInvStep ==
  ASSUME FigureTypes, SampleInv, TotalsInv, [ThroughputNext]_throughputVars
  PROVE  TotalsInv'
<1>1. CASE ReadEnd
  <2>1. /\ UNCHANGED <<start, totalTxs, totalBlocks, counted>>
        /\ place' # "count" \/ (place' = "count" /\ start # Unread /\ next' = start + 1 /\ epochTxs' = 0)
    BY <1>1 DEF ReadEnd
  <2>2. CASE place' # "count"
    BY <2>1, <2>2 DEF TotalsInv
  <2>3. CASE place' = "count"
    <3>1. next' - 1 = start /\ totalTxs + epochTxs' = totalTxs
      BY <2>1, <2>3 DEF FigureTypes, Unread
    <3>2. start + 1 .. start = {}
      BY <2>1, <2>3 DEF FigureTypes, Unread
    <3>3. counted' \cup (start' + 1 .. next' - 1) = counted
      BY <2>1, <3>1, <3>2
    <3> QED
      BY <2>1, <3>1, <3>3 DEF TotalsInv
  <2> QED
    BY <2>2, <2>3
<1>2. CASE CountTxsInBlock
  <2>1. /\ place = "count" /\ next <= end
        /\ UNCHANGED <<start, end, totalTxs, totalBlocks, counted>>
    BY <1>2 DEF CountTxsInBlock
  <2>2. CASE place' = "sampled"
    BY <2>1, <2>2 DEF TotalsInv
  <2>3. CASE place' # "sampled"
    <3>1. epochTxs' = epochTxs + Txs[next] /\ next' = next + 1
      BY <1>2, <2>3 DEF CountTxsInBlock
    <3>2. /\ next \in 1 .. MaxHeight /\ start \in 0 .. MaxHeight
          /\ next >= start + 1 /\ end \in 0 .. MaxHeight
      BY <2>1, BlockAssumption DEF FigureTypes, SampleInv, Unread
    <3> DEFINE S == counted \cup (start + 1 .. next - 1)
    <3>3. counted \subseteq 1 .. start
      BY <2>1 DEF SampleInv
    <3>4. S \in SUBSET (1 .. MaxHeight) /\ next \notin S
      BY <3>2, <3>3, BlockAssumption
    <3>5. counted' \cup (start' + 1 .. next' - 1) = S \cup {next}
      <4>1. start + 1 .. next = (start + 1 .. next - 1) \cup {next}
        BY <3>2
      <4>2. next' - 1 = next
        BY <3>1, <3>2
      <4> QED
        BY <4>1, <4>2, <2>1
    <3> HIDE DEF S
    <3>6. SumOf(Txs, S \cup {next}) = Txs[next] + SumOf(Txs, S)
      <4>1. Txs \in [1 .. MaxHeight -> Int]
        BY BlockAssumption
      <4> QED
        BY <4>1, <3>2, <3>4, SumGrows, BlockAssumption
    <3>7. totalTxs + epochTxs = SumOf(Txs, S)
      BY <2>1 DEF TotalsInv, S
    <3>8. totalTxs \in Nat /\ epochTxs \in Nat /\ Txs[next] \in Nat
      BY <3>2, BlockAssumption DEF FigureTypes
    <3>9. totalTxs' + epochTxs' = SumOf(Txs, S \cup {next})
      BY <2>1, <3>1, <3>6, <3>7, <3>8
    <3> QED
      BY <2>1, <3>5, <3>9 DEF TotalsInv
  <2> QED
    BY <2>2, <2>3
<1>3. CASE TakeSample
  <2>1. /\ place = "count" /\ next > end /\ place' = "sampled"
        /\ counted' = counted \cup (start + 1 .. end)
        /\ totalBlocks' = totalBlocks + (end - start)
        /\ totalTxs' = totalTxs + epochTxs
    BY <1>3 DEF TakeSample
  <2>2. /\ start \in 0 .. MaxHeight /\ end \in start .. MaxHeight
        /\ counted \subseteq 1 .. start /\ next - 1 = end
    BY <2>1, BlockAssumption DEF FigureTypes, SampleInv, Unread
  <2>3. totalTxs' = SumOf(Txs, counted')
    BY <2>1, <2>2 DEF TotalsInv
  <2>4. Cardinality(counted') = Cardinality(counted) + (end - start)
    <3>1. IsFiniteSet(start + 1 .. end) /\ Cardinality(start + 1 .. end) = end - start
      <4>1. start + 1 \in Int /\ end \in Int /\ start <= end
        BY <2>2, BlockAssumption
      <4>2. /\ IsFiniteSet(start + 1 .. end)
            /\ Cardinality(start + 1 .. end) =
                 IF start + 1 > end THEN 0 ELSE end - (start + 1) + 1
        BY <4>1, FS_Interval
      <4>3. (IF start + 1 > end THEN 0 ELSE end - (start + 1) + 1) = end - start
        BY <2>2, BlockAssumption
      <4> QED
        BY <4>2, <4>3
    <3>2. IsFiniteSet(counted)
      <4>1. IsFiniteSet(1 .. start)
        BY <2>2, FS_Interval
      <4> QED
        BY <4>1, <2>2, FS_Subset
    <3>3. counted \cap (start + 1 .. end) = {}
      BY <2>2
    <3>4. Cardinality(counted) \in Nat
      BY <3>2, FS_CardinalityType
    <3>5. Cardinality(counted \cup (start + 1 .. end)) =
            Cardinality(counted) + Cardinality(start + 1 .. end)
            - Cardinality(counted \cap (start + 1 .. end))
      BY <3>1, <3>2, FS_Union
    <3>6. Cardinality(counted \cap (start + 1 .. end)) = 0
      BY <3>3, FS_EmptySet
    <3>7. end - start \in Nat
      BY <2>2, BlockAssumption
    <3> QED
      BY <2>1, <3>1, <3>4, <3>5, <3>6, <3>7
  <2> QED
    BY <2>1, <2>3, <2>4 DEF TotalsInv
<1>4. CASE ReadStart \/ EndOfEpoch
  BY <1>4 DEF ReadStart, EndOfEpoch, TotalsInv
<1>5. CASE Elsewhere \/ Block \/ UNCHANGED throughputVars
  BY <1>5 DEF Elsewhere, Block, throughputVars, sampleVars, TotalsInv
<1> QED
  BY <1>1, <1>2, <1>3, <1>4, <1>5 DEF ThroughputNext

LEMMA FiguresAlways == ThroughputSpec => [](FigureTypes /\ TotalsInv)
<1>1. ThroughputInit => FigureTypes /\ TotalsInv
  <2> SUFFICES ASSUME ThroughputInit PROVE FigureTypes /\ TotalsInv
    OBVIOUS
  <2>1. Txs \in [1 .. MaxHeight -> Int]
    BY BlockAssumption
  <2>2. SumOf(Txs, {}) = 0 /\ Cardinality({}) = 0
    BY <2>1, SumGrows, FS_EmptySet, BlockAssumption
  <2> QED
    BY <2>2, BlockAssumption DEF ThroughputInit, FigureTypes, TotalsInv, Places, Unread
<1>2. FigureTypes /\ TotalsInv /\ SampleInv /\ [ThroughputNext]_throughputVars
        => (FigureTypes /\ TotalsInv)'
  BY FigureTypesStep, TotalsInvStep
<1> QED
  BY <1>1, <1>2, SampleInvAlways, PTL DEF ThroughputSpec

(* Every variable of the loop has its type.                                *)
THEOREM ThroughputTypesCorrect == ThroughputSpec => []ThroughputTypeOK
<1>1. TypeOK /\ FigureTypes => ThroughputTypeOK
  BY DEF FigureTypes, ThroughputTypeOK
<1> QED
  BY <1>1, ThroughputIsMonitoring, SurveyTypesCorrect, FiguresAlways, PTL

(* The totals a run prints are those of a set of blocks, each counted once *)
(* with all its transactions: for every chain, however it grows between    *)
(* the reads of its height, and whichever reads fail.                      *)
THEOREM TotalsCountBlocksOnce == ThroughputSpec => []BlocksCountedOnce
<1>1. FoldSet(LAMBDA h, sum : Txs[h] + sum, 0, counted) = SumOf(Txs, counted)
  BY DEF FoldSet, MapThenFoldSet, SumOf, Recursion, Pick
<1>2. TotalsInv => BlocksCountedOnce
  BY <1>1 DEF TotalsInv, BlocksCountedOnce
<1> QED
  BY <1>2, FiguresAlways, PTL
=============================================================================
