--------------------------- MODULE SurvivalMonitor ---------------------------
(***************************************************************************)
(* How a replay run measures survival (harness.run, runCheckpoint,         *)
(* measureSurvivalQuick and measureSurvival in                             *)
(* scripts/empirical_replay/main.go): after every few epochs, and when the *)
(* run is over, it asks the hub for each memory of the initial cohort, one *)
(* request at a time, whether the chain has archived it.  The gap between  *)
(* the share of good and of bad memories that survive decides whether the  *)
(* run may stop early, and is what it reports at its end.                  *)
(*                                                                         *)
(* The chain archives memories while a survey is going on.  ReplayRun has  *)
(* what happens within an epoch.                                           *)
(***************************************************************************)
EXTENDS Integers, Sequences, FiniteSets

CONSTANTS
  Count,           (* The memories are 1 .. Count, in h.memories' order.   *)
  Good,            (* Those of them that are good.                         *)
  Lost,            (* Those the hub answers 404 for.                       *)
  TotalEpochs,     (* REPLAY_TOTAL_EPOCHS.                                 *)
  CheckpointEvery, (* REPLAY_CHECKPOINT_EPOCHS; 0: no checkpoints.         *)
  MinEarlyStop,    (* minEpochsBeforeEarlyStop.                            *)
  Tolerance,       (* earlyStopGapTolerancePP.                             *)
  BadFloor         (* earlyStopBadFloorPP.                                 *)

Memory == 1 .. Count
Bad == Memory \ Good

ASSUME CohortAssumption ==
  /\ Count \in Nat
  /\ Good \subseteq Memory
  /\ Lost \subseteq Memory
ASSUME EpochAssumption ==
  /\ TotalEpochs \in Nat \ {0}
  /\ CheckpointEvery \in Nat
  /\ MinEarlyStop \in Nat
ASSUME ThresholdAssumption == Tolerance \in Nat /\ BadFloor \in Nat

VARIABLES
  pc,        (* What the run is doing.                                     *)
  e,         (* The epochs the run has completed.                          *)
  i,         (* The survey's position in h.memories.                       *)
  present,   (* The memories this survey has counted as surviving.         *)
  gaps,      (* checkpointGapsPP.                                          *)
  gap,       (* The gap reported at the end of the run.                    *)
  archived,  (* The memories the chain has archived.                       *)
  before,    (* History: those archived when the survey began.             *)
  checks     (* History: every checkpoint, as [epoch, gap, bad].           *)

runVars == <<pc, e, i, present, gaps, gap, before, checks>>
vars == <<runVars, archived>>

Phases == {"epochs", "checkpoint", "measure", "done", "failed"}
Over == {"done", "failed"}

(* Rates and gaps are kept as numerators: a gap of 1pp is Scale, and the   *)
(* rate of an empty half of the cohort is 0.                               *)
Weight(S) == IF S = {} THEN 1 ELSE Cardinality(S)
Scale == Weight(Good) * Weight(Bad)
GoodPP(P) == 100 * Cardinality(P \cap Good) * Weight(Bad)
BadPP(P) == 100 * Cardinality(P \cap Bad) * Weight(Good)
GapPP(P) == GoodPP(P) - BadPP(P)

NoGap == -101 * Scale

Init ==
  /\ pc = "epochs"
  /\ e = 0
  /\ i = 1
  /\ present = {}
  /\ gaps = <<>>
  /\ gap = NoGap
  /\ archived = {}
  /\ before = {}
  /\ checks = <<>>

-----------------------------------------------------------------------------
(* The run.                                                                *)

(* Faulty variant: the counters of the survey before are kept.             *)
BeginSurveyKeepCounts ==
  /\ i' = 1
  /\ UNCHANGED present
  /\ before' = archived

(* A survey goes through h.memories from the start, with fresh counters.   *)
BeginSurvey ==
  /\ i' = 1
  /\ present' = {}
  /\ before' = archived

(* An epoch's traffic is done: there is a checkpoint if one is due, but    *)
(* none after the last epoch.                                              *)
EpochEnds ==
  /\ pc = "epochs"
  /\ e' = e + 1
  /\ \/ /\ CheckpointEvery > 0 /\ e' % CheckpointEvery = 0 /\ e' < TotalEpochs
        /\ pc' = "checkpoint"
        /\ BeginSurvey
     \/ /\ ~(CheckpointEvery > 0 /\ e' % CheckpointEvery = 0) /\ e' < TotalEpochs
        /\ UNCHANGED <<pc, i, present, before>>
     \/ /\ e' = TotalEpochs
        /\ pc' = "measure"
        /\ BeginSurvey
  /\ UNCHANGED <<gaps, gap, archived, checks>>

(* queryArchivedFromChain: one memory is asked for; a 404 is no error and  *)
(* counts as surviving.                                                    *)
QueryArchived ==
  /\ pc \in {"checkpoint", "measure"}
  /\ i <= Count
  /\ present' = IF i \in archived \ Lost THEN present ELSE present \cup {i}
  /\ i' = i + 1
  /\ UNCHANGED <<pc, e, gaps, gap, archived, before, checks>>

(* Faulty variant: the window of gaps never moves.                         *)
FirstThree(s) == IF Len(s) > 3 THEN SubSeq(s, 1, 3) ELSE s

LastThree(s) == IF Len(s) > 3 THEN SubSeq(s, Len(s) - 2, Len(s)) ELSE s

(* The last three gaps are within the tolerance of each other.             *)
Plateau(s) ==
  /\ Len(s) >= 3
  /\ \A j, k \in DOMAIN s : s[j] - s[k] <= Tolerance * Scale

(* Faulty variant: a plateau is enough, whatever the bad memories do.      *)
MayStopOnPlateau(s) == e >= MinEarlyStop /\ Plateau(s)

(* Late enough, the gap has levelled off and the bad memories are at their *)
(* floor.                                                                  *)
MayStop(s) ==
  /\ e >= MinEarlyStop
  /\ Plateau(s)
  /\ BadPP(present) <= BadFloor * Scale

(* The checkpoint's gap is compared with those of the two before.          *)
CheckpointEnds ==
  /\ pc = "checkpoint"
  /\ i > Count
  /\ gaps' = LastThree(Append(gaps, GapPP(present)))
  /\ checks' = Append(checks, [epoch |-> e, gap |-> GapPP(present), bad |-> BadPP(present)])
  /\ \/ MayStop(gaps') /\ pc' = "measure" /\ BeginSurvey
     \/ ~MayStop(gaps') /\ pc' = "epochs" /\ UNCHANGED <<i, present, before>>
  /\ UNCHANGED <<e, gap, archived>>

(* Faulty variant: the last checkpoint's survey is reported.               *)
MeasureEndsStale ==
  /\ pc = "measure"
  /\ i > Count
  /\ gap' = IF gaps = <<>> THEN GapPP(present) ELSE gaps[Len(gaps)]
  /\ pc' = "done"
  /\ UNCHANGED <<e, i, present, gaps, archived, before, checks>>

(* measureSurvival is over: the result is reported.                        *)
MeasureEnds ==
  /\ pc = "measure"
  /\ i > Count
  /\ gap' = GapPP(present)
  /\ pc' = "done"
  /\ UNCHANGED <<e, i, present, gaps, archived, before, checks>>

(* Any other error of a request, a missing state, or the watchdog.         *)
Fail ==
  /\ pc \notin Over
  /\ pc' = "failed"
  /\ UNCHANGED <<e, i, present, gaps, gap, archived, before, checks>>

-----------------------------------------------------------------------------
(* The chain archives a memory, for good.                                  *)
Archive(m) ==
  /\ pc \notin Over
  /\ m \notin archived
  /\ archived' = archived \cup {m}
  /\ UNCHANGED runVars

RunStep == EpochEnds \/ QueryArchived \/ CheckpointEnds \/ MeasureEnds \/ Fail

Next == RunStep \/ \E m \in Memory : Archive(m)

Spec == Init /\ [][Next]_vars

-----------------------------------------------------------------------------
(* Properties.                                                             *)

(* Every variable has its type.                                            *)
TypeOK ==
  /\ pc \in Phases
  /\ e \in 0 .. TotalEpochs
  /\ i \in 1 .. Count + 1
  /\ present \in SUBSET Memory
  /\ gaps \in Seq(Int) /\ Len(gaps) <= 3
  /\ gap \in Int
  /\ archived \in SUBSET Memory
  /\ before \in SUBSET Memory
  /\ checks \in Seq([epoch : Nat, gap : Int, bad : Nat])

(* What the hub shows as surviving when the chain has archived A.          *)
Shown(A) == (Memory \ A) \cup Lost

(* The requests of a survey are spread over time, yet what it counts lies  *)
(* between what survived when it began and what survives now: no survivor  *)
(* is missed, and nothing is counted that was archived before it began.    *)
SurveyBounded ==
  pc \in {"checkpoint", "measure", "done"} =>
    /\ present \subseteq Shown(before)
    /\ Shown(archived) \cap 1 .. i - 1 \subseteq present

(* The gap a run reports need not have been the gap at any one moment, but *)
(* it is that of a survey of its own after the last epoch: it lies between *)
(* the worst and the best that can be made of the states of the chain when *)
(* that survey began and when it ended.                                    *)
GapBounded ==
  pc = "done" =>
    /\ gap <= GoodPP(Shown(before)) - BadPP(Shown(archived))
    /\ gap >= GoodPP(Shown(archived)) - BadPP(Shown(before))

StoppedEarly == pc \in {"measure", "done"} /\ e < TotalEpochs

(* "gap plateaued AND bad-persistence at floor": a run that stops early    *)
(* does so at a checkpoint late enough, the last of three successive ones  *)
(* whose gaps differ by no more than the tolerance, with the bad memories  *)
(* at their floor.                                                         *)
EarlyStopJustified ==
  StoppedEarly =>
    LET n == Len(checks)
    IN /\ n >= 3
       /\ checks[n].epoch = e
       /\ e >= MinEarlyStop
       /\ checks[n].bad <= BadFloor * Scale
       /\ \A j, k \in n - 2 .. n :
            /\ checks[j].gap - checks[k].gap <= Tolerance * Scale
            /\ checks[n].epoch - checks[j].epoch = (n - j) * CheckpointEvery

(* Stopping early costs nothing: the survey that decides is made anew, and *)
(* finds no more bad memories and no better gap than the checkpoint did.   *)
EarlyStopConservative ==
  StoppedEarly /\ pc = "done" /\ BadFloor = 0 =>
    /\ BadPP(present) = 0
    /\ gap <= checks[Len(checks)].gap
=============================================================================
