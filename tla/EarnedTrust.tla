----------------------------- MODULE EarnedTrust -----------------------------
(***************************************************************************)
(* The canonical Earned-Trust model that the replay is compared with       *)
(* (scripts/sim-baseline-perseed.js; sim-trajectory.js and the mode        *)
(* "none" of sim-calibration.js compute the same).                         *)
(*                                                                         *)
(* Every memory has keywords with a weight each.  In an epoch queries are  *)
(* made, each serves the memories that match it best, and some of what is  *)
(* served is denied.  At the end of the epoch the weights of every memory  *)
(* that is not archived change with how it was served and denied, and a    *)
(* memory all of whose weights have fallen to the threshold is archived.   *)
(*                                                                         *)
(* The draws of the random generator are any draws.  Weights are counted   *)
(* in fractions of 1/Unit of the code's, so that they are integers.        *)
(***************************************************************************)
EXTENDS Integers, FiniteSets, FiniteSetsExt

CONSTANTS
  InitMem,     (* Memories of the initial cohort: 1 .. InitMem.            *)
  ContRate,    (* Memories contributed at the start of each epoch.         *)
  Epochs,      (* Epochs simulated: epochs * EPOCH_MULTIPLIER.             *)
  Keyword,     (* 0 .. KW_SPACE - 1.                                       *)
  MinKw,       (* The fewest keywords of a memory.                         *)
  QPerEpoch,   (* Queries of an epoch.                                     *)
  QSize,       (* Keywords of a query.                                     *)
  ServePer,    (* Memories a query serves at most.                         *)
  MaxWeight,   (* MAX_W, the weight every keyword starts with.             *)
  Threshold,   (* RETRIEVAL_THRESHOLD.                                     *)
  Grace,       (* Epochs during which a new memory does not change.        *)
  Unit,        (* Fractions the code's unit of weight is divided into.     *)
  MaxEvents    (* Bound of the model: serves and denials of one memory.    *)

ASSUME ScenarioAssumption ==
  /\ InitMem \in Nat /\ ContRate \in Nat /\ Epochs \in Nat
  /\ QPerEpoch \in Nat /\ QSize \in Nat /\ ServePer \in Nat /\ MinKw \in Nat \ {0}
  /\ IsFiniteSet(Keyword)
ASSUME ModelAssumption ==
  /\ MaxWeight \in Nat /\ Threshold \in Nat /\ Threshold < MaxWeight
  /\ Grace \in Nat /\ MaxEvents \in Nat
  /\ Unit \in Nat \ {0}

(* ET_BASE.  Its fractions are in the formulas below: serveFloor 0.4,      *)
(* denialFloor 0.3, idleProtect 0.05, idleUntrusted 1, trustMaxRate 0.30.  *)
ServeD == 220
DenialD == 900
IdleD == 600
TrustMinServes == 1

Mem == 1 .. InitMem + ContRate * Epochs
Full == MaxWeight * Unit

VARIABLES
  epoch,       (* Epochs completed; the code's e during the next one.      *)
  queries,     (* Queries made in this epoch; -1: contributions are due.   *)
  made,        (* How many memories there are: mems.length.                *)
  created,     (* createdEpoch.                                            *)
  kws,         (* The keywords of each memory.                             *)
  weight,      (* Their weights.                                           *)
  serves,      (* Serves of each memory, over all epochs, ...              *)
  denials,     (* ... and denials.                                         *)
  served,      (* Those of this epoch: eventCounts, ...                    *)
  denied,      (* ...                                                      *)
  matched,     (* ... with the keywords its queries matched.               *)
  archived     (* The archived memories.                                   *)

countVars == <<serves, denials, served, denied, matched>>
memVars == <<made, created, kws>>
vars == <<epoch, queries, memVars, weight, countVars, archived>>

KwSets == {S \in SUBSET Keyword : Cardinality(S) >= MinKw}

Init ==
  /\ epoch = 0
  /\ queries = -1
  /\ made = InitMem
  /\ created = [m \in Mem |-> 0]
  /\ kws \in [Mem -> KwSets]
  /\ weight = [m \in Mem |-> [k \in Keyword |-> Full]]
  /\ serves = [m \in Mem |-> 0]
  /\ denials = [m \in Mem |-> 0]
  /\ served = [m \in Mem |-> 0]
  /\ denied = [m \in Mem |-> 0]
  /\ matched = [m \in Mem |-> {}]
  /\ archived = {}

Made == 1 .. made

(* Faulty variant: archived memories are ranked and decayed too.           *)
ActiveAll == Made

(* mems.filter((m) => !m.archived), which changes between epochs only.     *)
Active == Made \ archived

-----------------------------------------------------------------------------
(* ContRate memories are pushed before the epoch's queries.  (The keywords *)
(* each of them gets are those drawn for it in Init.)                      *)
Contribute ==
  /\ queries = -1
  /\ epoch < Epochs
  /\ queries' = 0
  /\ made' = made + ContRate
  /\ created' = [m \in Mem |-> IF m > made THEN epoch ELSE created[m]]
  /\ UNCHANGED <<epoch, kws, weight, countVars, archived>>

-----------------------------------------------------------------------------
(* A query.                                                                *)

Score(m, Q) == MapThenSumSet(LAMBDA k : weight[m][k], kws[m] \cap Q)

Candidates(Q) == {m \in Active : Score(m, Q) > 0}

(* The order of the sort, which is stable.                                 *)
Before(x, m, Q) ==
  \/ Score(x, Q) > Score(m, Q)
  \/ Score(x, Q) = Score(m, Q) /\ x < m

Ranked(Q) ==
  {m \in Candidates(Q) :
     Cardinality({x \in Candidates(Q) : Before(x, m, Q)}) < ServePer}

Plus(f, S) == [m \in Mem |-> IF m \in S THEN f[m] + 1 ELSE f[m]]

(* Faulty variant: what is denied is not counted as served.                *)
QueryDeniedUnserved ==
  /\ queries >= 0
  /\ queries < QPerEpoch
  /\ queries' = queries + 1
  /\ \E Q \in kSubset(QSize, Keyword) :
       \E D \in SUBSET Ranked(Q) :
         /\ \A m \in Ranked(Q) : serves[m] + denials[m] + 2 <= MaxEvents
         /\ served' = Plus(served, Ranked(Q) \ D)
         /\ serves' = Plus(serves, Ranked(Q) \ D)
         /\ denied' = Plus(denied, D)
         /\ denials' = Plus(denials, D)
         /\ matched' = [m \in Mem |-> IF m \in Ranked(Q) THEN matched[m] \cup (kws[m] \cap Q)
                                                         ELSE matched[m]]
  /\ UNCHANGED <<epoch, memVars, weight, archived>>

(* The memories that match best are served, and any of them is denied.     *)
Query ==
  /\ queries >= 0
  /\ queries < QPerEpoch
  /\ queries' = queries + 1
  /\ \E Q \in kSubset(QSize, Keyword) :
       \E D \in SUBSET Ranked(Q) :
         /\ \A m \in Ranked(Q) : serves[m] + denials[m] + 2 <= MaxEvents
         /\ served' = Plus(served, Ranked(Q))
         /\ serves' = Plus(serves, Ranked(Q))
         /\ denied' = Plus(denied, D)
         /\ denials' = Plus(denials, D)
         /\ matched' = [m \in Mem |-> IF m \in Ranked(Q) THEN matched[m] \cup (kws[m] \cap Q)
                                                         ELSE matched[m]]
  /\ UNCHANGED <<epoch, memVars, weight, archived>>

-----------------------------------------------------------------------------
(* applyDecay.  With n events the denial rate is denials/n and the trust   *)
(* serves/n.                                                               *)

Total(m) == serves[m] + denials[m]

(* Faulty variant: a memory nobody was served is trusted as well.          *)
TrustEarnedByRate(m) == 10 * denials[m] < 3 * Total(m) \/ Total(m) = 0

TrustEarned(m) == serves[m] >= TrustMinServes /\ 10 * denials[m] < 3 * Total(m)

(* A tenth of 1/n^2, in units.                                             *)
Share(n) == Unit \div (10 * n * n)

(* Faulty variant: the rates of serves and denials are mixed up.           *)
GainMixedUp(m) ==
  LET n == Total(m) s == serves[m]
  IN DenialD * served[m] * (4 * (n * n) + 6 * (s * s)) * Share(n)

(* serveD * servesThisEpoch * (0.4 + 0.6 * trust^2)                        *)
Gain(m) ==
  LET n == Total(m) s == serves[m]
  IN ServeD * served[m] * (4 * (n * n) + 6 * (s * s)) * Share(n)

(* denialD * denialsThisEpoch * (0.3 + 0.7 * denialRate)                   *)
Loss(m) ==
  LET n == Total(m) d == denials[m]
  IN DenialD * denied[m] * (3 * (n * n) + 7 * (d * n)) * Share(n)

Idle(m) == IF TrustEarned(m) THEN (IdleD * Unit) \div 20 ELSE IdleD * Unit

Clamp(w) == IF w > Full THEN Full ELSE IF w < 0 THEN 0 ELSE w

Change(m, k) ==
  IF k \in matched[m]
  THEN (IF served[m] > 0 THEN Gain(m) ELSE 0) - (IF denied[m] > 0 THEN Loss(m) ELSE 0)
  ELSE 0 - Idle(m)

(* Faulty variant: the grace is that of the first memories.                *)
InGraceOfRun(m) == epoch < Grace

InGrace(m) == epoch - created[m] < Grace

Decayed(m) ==
  [k \in Keyword |-> IF k \in kws[m] /\ ~InGrace(m)
                     THEN Clamp(weight[m][k] + Change(m, k)) ELSE weight[m][k]]

(* The queries are done: decay and archival of every active memory.        *)
EpochEnds ==
  /\ queries = QPerEpoch
  /\ queries' = -1
  /\ epoch' = epoch + 1
  /\ weight' = [m \in Mem |-> IF m \in Active THEN Decayed(m) ELSE weight[m]]
  /\ archived' = archived \cup
       {m \in Active : \A k \in kws[m] : weight'[m][k] <= Threshold * Unit}
  /\ served' = [m \in Mem |-> 0]
  /\ denied' = [m \in Mem |-> 0]
  /\ matched' = [m \in Mem |-> {}]
  /\ UNCHANGED <<memVars, serves, denials>>

Next == Contribute \/ Query \/ EpochEnds

Spec == Init /\ [][Next]_vars

(* The memories survival is measured over: createdEpoch === 0.             *)
Cohort == {m \in Made : created[m] = 0}

-----------------------------------------------------------------------------
(* Properties.                                                             *)

(* Every variable has its type.                                            *)
TypeOK ==
  /\ epoch \in 0 .. Epochs
  /\ queries \in -1 .. QPerEpoch /\ (queries >= 0 => epoch < Epochs)
  /\ made = InitMem + ContRate * (IF queries = -1 THEN epoch ELSE epoch + 1)
  /\ created \in [Mem -> Nat]
  /\ kws \in [Mem -> SUBSET Keyword]
  /\ weight \in [Mem -> [Keyword -> 0 .. Full]]
  /\ serves \in [Mem -> Nat]
  /\ denials \in [Mem -> Nat]
  /\ served \in [Mem -> Nat]
  /\ denied \in [Mem -> Nat]
  /\ matched \in [Mem -> SUBSET Keyword]
  /\ archived \in SUBSET Made

(* Nobody's reputation can fall below one half: what is denied has been    *)
(* served, in the epoch and over all.  The formulas' trust never gets near *)
(* the zero that applyDecay guards against.                                *)
DenialsAreServes ==
  \A m \in Mem :
    /\ denied[m] <= served[m] /\ served[m] <= serves[m]
    /\ denials[m] <= serves[m]

(* A memory, also one contributed late, has Grace epochs of its own in     *)
(* which nothing that happens to it costs it weight.                       *)
GraceHolds ==
  \A m \in Made : epoch - created[m] <= Grace =>
    m \notin archived /\ \A k \in kws[m] : weight[m][k] = Full

(* The weight of a memory that is never served, so many epochs after its   *)
(* grace.                                                                  *)
ScheduleAt(aged) ==
  LET left == Full - IdleD * Unit * aged
  IN IF aged <= 0 THEN Full ELSE IF left < 0 THEN 0 ELSE left

Schedule(m) == ScheduleAt(epoch - created[m] - Grace)

(* Retrieval protects and neglect does not: a memory that is never served  *)
(* is archived in one particular epoch of its life; one that is served     *)
(* and never denied has, whatever else it goes through, no less weight     *)
(* than that and is never archived before.                                 *)
ArchivalSchedule ==
  \A m \in Made :
    /\ denials[m] = 0 /\ m \notin archived =>
         \A k \in kws[m] : weight[m][k] >= Schedule(m)
    /\ denials[m] = 0 /\ m \in archived => Schedule(m) <= Threshold * Unit
    /\ serves[m] = 0 /\ Schedule(m) <= Threshold * Unit => m \in archived

(* Archival is for good: an archived memory is not served any more and     *)
(* never regains weight.                                                   *)
ArchivedStays ==
  [][\A m \in archived :
       /\ m \in archived'
       /\ weight'[m] = weight[m] /\ serves'[m] = serves[m]]_vars

(* A serve that is denied costs a memory weight, however good its          *)
(* reputation: in an epoch all of whose serves were denied it gains none.  *)
DeniedNeverGains ==
  [][\A m \in Mem : denied[m] = served[m] =>
       \A k \in Keyword : weight'[m][k] <= weight[m][k]]_vars

(* "Survival measured over the INITIAL cohort only" (sim-trajectory.js).   *)
CohortIsInitial == Cohort = 1 .. InitMem

-----------------------------------------------------------------------------
(* Inductive strengthening, for the proofs of EarnedTrustProofs.           *)

(* A memory is not served before it is made or after it is archived, what  *)
(* its queries matched was served, and ages are not negative.              *)
CountsConsistent ==
  \A m \in Mem :
    /\ created[m] <= epoch
    /\ kws[m] # {}
    /\ denied[m] <= denials[m]
    /\ matched[m] # {} => served[m] > 0
    /\ m \notin Active => served[m] = 0 /\ denied[m] = 0
    /\ m \notin Made => serves[m] = 0 /\ denials[m] = 0 /\ weight[m] = [k \in Keyword |-> Full]

(* An active memory that was never served follows the schedule.            *)
NeglectedOnSchedule ==
  \A m \in Active : serves[m] = 0 => \A k \in kws[m] : weight[m][k] <= Schedule(m)

TrustInv ==
  /\ TypeOK
  /\ DenialsAreServes
  /\ CountsConsistent
  /\ GraceHolds
  /\ ArchivalSchedule
  /\ NeglectedOnSchedule
=============================================================================
