---------------------------- MODULE HarnessProofs ----------------------------
(***************************************************************************)
(* Proofs about the replay harness: MemoryLifecycle for every initial      *)
(* cohort, every set of contributions, every rate and every number of      *)
(* organisation epochs; Seeding, the lifecycle after the setup, and        *)
(* ReplayRun, the lifecycle in the loop of epochs, which inherit what is   *)
(* shown of it because each of their steps is one of the lifecycle or      *)
(* leaves it alone; and the fixtures, for every draw.                      *)
(***************************************************************************)
EXTENDS ReplayRun, Seeding, Lemmas

-----------------------------------------------------------------------------
(* MemoryLifecycle.  While a lifecycle works, each memory of its batch has *)
(* been asked exactly up to the target of the stage, or, when its request  *)
(* is still to be posted, up to the one before, and is there (InStage);    *)
(* only the submission to the chain may leave some of the batch out.       *)
(* The waits look for exactly that, so a stage ends with the whole batch   *)
(* where the next begins.  The rest follows the two kinds of memories.     *)

Working == stage \notin {"idle", "failed"}

(* The hub does not move a memory without a request, and the harness does  *)
(* not ask for more than the next state.                                   *)
Ordered == \A m \in Mem : at[m] <= asked[m] /\ asked[m] <= at[m] + 1

(* Before the seeding nothing has happened.                                *)
Unbegun ==
  seedEpoch = NoEpoch =>
    /\ stage = "idle"
    /\ pool = {}
    /\ \A m \in Mem : asked[m] = Missing

(* Where the batch is in each stage.                                       *)
InStage ==
  /\ Working => \A m \in batch :
       IF m \in todo
       THEN asked[m] = Target(stage) - 1 /\ at[m] = asked[m]
       ELSE asked[m] = Target(stage) \/ stage = "commit"
  /\ stage = "batch" => todo = batch

(* What traffic may be served from is committed or in the batch.           *)
PoolDone ==
  stage # "failed" => \A m \in pool : at[m] = Committed \/ (Working /\ m \in batch)

(* The two kinds of memories keep apart.                                   *)
Tagged ==
  /\ \A m \in Seed : asked[m] # Missing =>
       ~meta[m].contributor /\ meta[m].created = seedEpoch
  /\ \A m \in Contrib : asked[m] # Missing => meta[m].contributor
OneKind ==
  /\ Working /\ influx => batch \subseteq Contrib
  /\ Working /\ ~influx => batch = Seed /\ epochID = seedEpoch
PoolHasSeed ==
  /\ \A m \in pool : asked[m] # Missing
  /\ seedEpoch # NoEpoch /\ (influx \/ stage = "idle") => Seed \subseteq pool

LifecycleInv ==
  /\ LifecycleTypeOK
  /\ Ordered
  /\ Unbegun
  /\ InStage
  /\ PoolDone
  /\ Tagged
  /\ OneKind
  /\ PoolHasSeed

-----------------------------------------------------------------------------
LEMMA Targets ==
  /\ Target("submit") = 1 /\ Target("approve") = 2 /\ Target("verify") = 3
  /\ Target("batch") = 4 /\ Target("commit") = 4
  BY DEF Target, Pending, PendingKeyword, PendingChain, Committed

LEMMA LifecycleInvInit == LifecycleInit => LifecycleInv
<1> SUFFICES ASSUME LifecycleInit PROVE LifecycleInv
  OBVIOUS
<1> USE DEF LifecycleInit, Missing
<1>1. LifecycleTypeOK
  <2>1. at \in [Mem -> HubState] /\ asked \in [Mem -> HubState]
    BY DEF HubState, Committed
  <2>2. meta \in [Mem -> Meta]
    BY DEF Meta
  <2> QED
    BY <2>1, <2>2 DEF LifecycleTypeOK, Stages
<1>2. Ordered /\ Unbegun /\ InStage /\ PoolDone
  BY DEF Ordered, Unbegun, InStage, PoolDone, Working
<1>3. Tagged /\ OneKind /\ PoolHasSeed
  BY DEF Tagged, OneKind, PoolHasSeed, Working, Mem
<1> QED
  BY <1>1, <1>2, <1>3 DEF LifecycleInv

(* The beginning of a lifecycle, of either kind.                           *)
LEMMA BeginKeepsInv ==
  ASSUME LifecycleInv, NEW B \in SUBSET Mem, NEW isInflux \in BOOLEAN,
         Begin(B, isInflux),
         \A m \in B : asked[m] = Missing,
         seedEpoch' # NoEpoch, seedEpoch' \in OrgEpoch,
         IF isInflux THEN B \subseteq Contrib /\ seedEpoch' = seedEpoch
                     ELSE B = Seed /\ seedEpoch' = orgEpoch /\ seedEpoch = NoEpoch
  PROVE  LifecycleInv'
<1> USE DEF LifecycleInv, Begin
<1>1. LifecycleTypeOK'
  BY DEF LifecycleTypeOK, Stages
<1>2. Ordered' /\ Unbegun'
  BY DEF Ordered, Unbegun
<1>3. InStage'
  <2>1. \A m \in B : at[m] = Missing
    BY DEF Ordered, LifecycleTypeOK, HubState, Missing, Committed
  <2> QED
    BY <2>1, Targets DEF InStage, Working, Missing
<1>4. PoolDone'
  BY DEF PoolDone, Working
<1>5. Tagged'
  BY DEF Tagged, Unbegun, Mem
<1>6. OneKind' /\ PoolHasSeed'
  BY DEF OneKind, PoolHasSeed, Unbegun, Working
<1> QED
  BY <1>1, <1>2, <1>3, <1>4, <1>5, <1>6

LEMMA BeginSeedKeepsInv == LifecycleInv /\ BeginSeed => LifecycleInv'
<1> SUFFICES ASSUME LifecycleInv, BeginSeed PROVE LifecycleInv'
  OBVIOUS
<1>1. /\ seedEpoch = NoEpoch /\ Begin(Seed, FALSE) /\ seedEpoch' = orgEpoch
      /\ orgEpoch \in OrgEpoch /\ orgEpoch # NoEpoch
  <2>1. seedEpoch = NoEpoch /\ Begin(Seed, FALSE) /\ seedEpoch' = orgEpoch
    BY DEF BeginSeed
  <2>2. orgEpoch \in OrgEpoch
    BY DEF LifecycleInv, LifecycleTypeOK
  <2>3. NoEpoch \notin OrgEpoch
    BY OrgEpochAssumption DEF NoEpoch, OrgEpoch
  <2> QED
    BY <2>1, <2>2, <2>3
<1>2. Seed \in SUBSET Mem /\ \A m \in Seed : asked[m] = Missing
  BY <1>1 DEF LifecycleInv, Unbegun, Mem
<1> QED
  BY <1>1, <1>2, BeginKeepsInv

LEMMA BeginInfluxKeepsInv == LifecycleInv /\ BeginInflux => LifecycleInv'
<1> SUFFICES ASSUME LifecycleInv, BeginInflux PROVE LifecycleInv'
  OBVIOUS
<1>1. PICK B \in SUBSET {m \in Contrib : asked[m] = Missing} : Begin(B, TRUE)
  BY DEF BeginInflux
<1>2. /\ seedEpoch # NoEpoch /\ seedEpoch' = seedEpoch
      /\ seedEpoch \in OrgEpoch
  BY DEF BeginInflux, LifecycleInv, LifecycleTypeOK
<1>3. B \in SUBSET Mem /\ B \subseteq Contrib /\ \A m \in B : asked[m] = Missing
  BY DEF Mem
<1> QED
  BY <1>1, <1>2, <1>3, BeginKeepsInv

(* A request of any stage, except for what it does to pool and meta.       *)
LEMMA PostKeepsOrder ==
  ASSUME LifecycleInv, NEW s \in {"submit", "approve", "verify"}, NEW m \in Mem,
         Post(s, m)
  PROVE  /\ asked' \in [Mem -> HubState] /\ todo' \in SUBSET batch'
         /\ Ordered' /\ InStage' /\ OneKind' /\ Working /\ Working'
         /\ m \in batch /\ seedEpoch # NoEpoch
         /\ asked' = [asked EXCEPT ![m] = Target(s)] /\ Target(s) \in {1, 2, 3}
         /\ UNCHANGED <<at, stage, batch, influx, epochID, seedEpoch, orgEpoch>>
<1> USE DEF LifecycleInv, Post
<1>1. /\ Target(s) \in {1, 2, 3} /\ stage = s /\ m \in todo /\ m \in batch
      /\ Working /\ seedEpoch # NoEpoch
      /\ asked' = [asked EXCEPT ![m] = Target(s)] /\ todo' = todo \ {m}
      /\ UNCHANGED <<at, stage, batch, influx, epochID, seedEpoch, orgEpoch>>
  BY Targets DEF Working, LifecycleTypeOK, Unbegun, epochVars
<1>2. asked[m] = Target(s) - 1 /\ at[m] = asked[m]
  BY <1>1 DEF InStage
<1>3. asked' \in [Mem -> HubState] /\ todo' \in SUBSET batch'
  BY <1>1 DEF LifecycleTypeOK, HubState, Missing, Committed
<1>4. Ordered'
  BY <1>1, <1>2, <1>3 DEF Ordered, LifecycleTypeOK
<1>5. InStage'
  BY <1>1, <1>2 DEF InStage, Working, LifecycleTypeOK
<1>6. OneKind' /\ Working'
  BY <1>1 DEF OneKind, Working
<1> QED
  BY <1>1, <1>3, <1>4, <1>5, <1>6

LEMMA SeedOneMemoryKeepsInv ==
  ASSUME LifecycleInv, NEW m \in Mem, SeedOneMemory(m)
  PROVE  LifecycleInv'
<1> USE DEF LifecycleInv
<1>1. /\ asked' \in [Mem -> HubState] /\ todo' \in SUBSET batch'
      /\ Ordered' /\ InStage' /\ OneKind' /\ Working /\ Working'
      /\ m \in batch /\ seedEpoch # NoEpoch
      /\ asked' = [asked EXCEPT ![m] = 1]
      /\ UNCHANGED <<at, stage, batch, influx, epochID, seedEpoch, orgEpoch>>
  BY PostKeepsOrder, Targets DEF SeedOneMemory
<1>2. /\ meta' = [meta EXCEPT ![m] = [created |-> epochID, contributor |-> influx]]
      /\ pool' = IF influx THEN pool ELSE pool \cup {m}
  BY DEF SeedOneMemory
<1>3. LifecycleTypeOK'
  BY <1>1, <1>2 DEF LifecycleTypeOK, Meta
<1>4. Unbegun'
  BY <1>1 DEF Unbegun
<1>5. PoolDone'
  BY <1>1, <1>2 DEF PoolDone, Working
<1>6. Tagged'
  <2>1. IF influx THEN m \in Contrib ELSE m \in Seed /\ epochID = seedEpoch
    BY <1>1 DEF OneKind, LifecycleTypeOK
  <2>2. \A x \in Seed : asked'[x] # Missing =>
          ~meta'[x].contributor /\ meta'[x].created = seedEpoch'
    BY <1>1, <1>2, <2>1, CohortAssumption DEF Tagged, LifecycleTypeOK, Mem
  <2>3. \A x \in Contrib : asked'[x] # Missing => meta'[x].contributor
    BY <1>1, <1>2, <2>1, CohortAssumption DEF Tagged, LifecycleTypeOK, Mem
  <2> QED
    BY <2>2, <2>3 DEF Tagged
<1>7. PoolHasSeed'
  BY <1>1, <1>2 DEF PoolHasSeed, LifecycleTypeOK, Working, Missing
<1> QED
  BY <1>1, <1>3, <1>4, <1>5, <1>6, <1>7

LEMMA LaterPostKeepsInv ==
  ASSUME LifecycleInv, NEW m \in Mem, ApproveMemory(m) \/ VerifyKeywords(m)
  PROVE  LifecycleInv'
<1> USE DEF LifecycleInv
<1>1. PICK s \in {"approve", "verify"} : Post(s, m) /\ UNCHANGED <<pool, meta>>
  BY DEF ApproveMemory, VerifyKeywords
<1>2. /\ asked' \in [Mem -> HubState] /\ todo' \in SUBSET batch'
      /\ Ordered' /\ InStage' /\ OneKind' /\ Working /\ Working'
      /\ m \in batch /\ seedEpoch # NoEpoch
      /\ asked' = [asked EXCEPT ![m] = Target(s)]
      /\ UNCHANGED <<at, stage, batch, influx, epochID, seedEpoch, orgEpoch>>
  BY <1>1, PostKeepsOrder
<1>3. asked[m] # Missing /\ Target(s) # Missing
  BY <1>1, Targets DEF Post, InStage, Working, LifecycleTypeOK, Missing
<1>4. \A x \in Mem : asked'[x] = Missing <=> asked[x] = Missing
  BY <1>2, <1>3 DEF LifecycleTypeOK
<1>5. LifecycleTypeOK' /\ Unbegun' /\ PoolDone'
  BY <1>1, <1>2 DEF LifecycleTypeOK, Unbegun, PoolDone, Working
<1>6. Tagged' /\ PoolHasSeed'
  BY <1>1, <1>2, <1>4 DEF Tagged, PoolHasSeed, LifecycleTypeOK, Mem
<1> QED
  BY <1>2, <1>5, <1>6

(* A wait that ends leaves the batch where the next stage begins.          *)
LEMMA WaitKeepsInv ==
  LifecycleInv /\ (WaitPending \/ WaitPendingKeyword \/ WaitPendingChain)
    => LifecycleInv'
<1> SUFFICES ASSUME LifecycleInv, WaitPending \/ WaitPendingKeyword \/ WaitPendingChain
             PROVE  LifecycleInv'
  OBVIOUS
<1> USE DEF LifecycleInv
<1>1. PICK s \in {"submit", "approve", "verify"}, t \in {"approve", "verify", "batch"} :
        /\ WaitForLifecycleState(s, t)
        /\ Target(t) = Target(s) + 1
        /\ UNCHANGED pool
  BY Targets DEF WaitPending, WaitPendingKeyword, WaitPendingChain
<1>2. /\ stage = s /\ stage' = t /\ todo = {} /\ todo' = batch
      /\ \A m \in batch : at[m] = Target(s)
      /\ UNCHANGED <<at, asked, batch, pool, meta, influx, epochID, seedEpoch, orgEpoch>>
  BY <1>1 DEF WaitForLifecycleState, epochVars
<1>3. Working /\ Working'
  BY <1>2 DEF Working
<1>4. LifecycleTypeOK' /\ Ordered' /\ Unbegun'
  BY <1>2 DEF LifecycleTypeOK, Ordered, Unbegun, Stages
<1>5. InStage'
  <2>1. \A m \in batch : asked[m] = Target(s)
    BY <1>2, <1>3 DEF InStage
  <2> QED
    BY <1>1, <1>2, <2>1, Targets DEF InStage
<1>6. PoolDone' /\ Tagged' /\ OneKind' /\ PoolHasSeed'
  BY <1>2, <1>3 DEF PoolDone, Tagged, OneKind, PoolHasSeed, Working
<1> QED
  BY <1>4, <1>5, <1>6

LEMMA SubmitChainBatchKeepsInv == LifecycleInv /\ SubmitChainBatch => LifecycleInv'
<1> SUFFICES ASSUME LifecycleInv, SubmitChainBatch PROVE LifecycleInv'
  OBVIOUS
<1> USE DEF LifecycleInv
<1> DEFINE ready == {m \in Mem : at[m] = PendingChain}
<1>1. PICK submitted \in SUBSET ready :
        /\ asked' = [m \in Mem |-> IF m \in submitted THEN Committed ELSE asked[m]]
        /\ stage' \in {"commit", "failed"}
  BY DEF SubmitChainBatch
<1>2. /\ stage = "batch" /\ todo' = {}
      /\ UNCHANGED <<at, batch, pool, meta, influx, epochID, seedEpoch, orgEpoch>>
  BY DEF SubmitChainBatch, epochVars
<1>3. \A m \in Mem : asked'[m] = Missing => asked[m] = Missing
  BY <1>1 DEF Missing, Committed
<1>4. \A m \in submitted : m \in Mem /\ at[m] = 3 /\ asked[m] # Missing
  BY DEF PendingChain, Ordered, Missing, LifecycleTypeOK, HubState, Committed
<1>5. LifecycleTypeOK'
  BY <1>1, <1>2 DEF LifecycleTypeOK, HubState, Stages, Missing, Committed
<1>6. Ordered'
  BY <1>1, <1>2, <1>4 DEF Ordered, LifecycleTypeOK, Committed
<1>7. Unbegun'
  BY <1>2 DEF Unbegun
<1>8. InStage'
  BY <1>1, <1>2 DEF InStage, Working
<1>9. PoolDone'
  BY <1>1, <1>2 DEF PoolDone, Working
<1>10. Tagged'
  BY <1>1, <1>2, <1>4 DEF Tagged, Mem
<1>11. OneKind' /\ PoolHasSeed'
  <2>1. \A m \in pool : asked'[m] # Missing
    BY <1>3 DEF PoolHasSeed, LifecycleTypeOK
  <2> QED
    BY <1>1, <1>2, <2>1 DEF OneKind, PoolHasSeed, Working
<1> QED
  BY <1>5, <1>6, <1>7, <1>8, <1>9, <1>10, <1>11

LEMMA WaitCommittedKeepsInv == LifecycleInv /\ WaitCommitted => LifecycleInv'
<1> SUFFICES ASSUME LifecycleInv, WaitCommitted PROVE LifecycleInv'
  OBVIOUS
<1> USE DEF LifecycleInv
<1>1. /\ stage = "commit" /\ stage' = "idle" /\ todo = {} /\ todo' = batch
      /\ \A m \in batch : at[m] = Committed
      /\ pool' = pool \cup batch
      /\ UNCHANGED <<at, asked, batch, meta, influx, epochID, seedEpoch, orgEpoch>>
  BY Targets DEF WaitCommitted, WaitForLifecycleState, epochVars, Committed
<1>2. LifecycleTypeOK' /\ Ordered'
  BY <1>1 DEF LifecycleTypeOK, Ordered, Stages
<1>3. Unbegun' /\ InStage' /\ OneKind' /\ Tagged'
  BY <1>1 DEF Unbegun, InStage, OneKind, Tagged, Working
<1>4. PoolDone'
  BY <1>1 DEF PoolDone
<1>5. \A m \in batch : asked[m] # Missing
  BY <1>1 DEF Ordered, LifecycleTypeOK, HubState, Missing, Committed
<1>6. PoolHasSeed'
  BY <1>1, <1>5 DEF PoolHasSeed, OneKind, Working
<1> QED
  BY <1>2, <1>3, <1>4, <1>6

LEMMA FailKeepsInv == LifecycleInv /\ LifecycleFails => LifecycleInv'
<1> SUFFICES ASSUME LifecycleInv, LifecycleFails PROVE LifecycleInv'
  OBVIOUS
<1> USE DEF LifecycleInv, LifecycleFails, epochVars
<1>1. LifecycleTypeOK' /\ Ordered' /\ Unbegun'
  BY DEF LifecycleTypeOK, Ordered, Unbegun, Stages
<1>2. InStage' /\ PoolDone' /\ OneKind'
  BY DEF InStage, PoolDone, OneKind, Working
<1>3. Tagged' /\ PoolHasSeed'
  BY DEF Tagged, PoolHasSeed
<1> QED
  BY <1>1, <1>2, <1>3

(* The hub moves only what was asked for, and nothing that is committed.   *)
LEMMA HubProgressKeepsInv ==
  ASSUME LifecycleInv, NEW m \in Mem, HubProgress(m)
  PROVE  LifecycleInv'
<1> USE DEF LifecycleInv, HubProgress, epochVars
<1>1. at[m] < asked[m] /\ at' = [at EXCEPT ![m] = at[m] + 1]
  OBVIOUS
<1>2. at[m] \in 0 .. 4 /\ asked[m] \in 0 .. 4
  BY DEF LifecycleTypeOK, HubState, Missing, Committed
<1>3. LifecycleTypeOK'
  BY <1>1, <1>2 DEF LifecycleTypeOK, HubState, Missing, Committed
<1>4. Ordered'
  BY <1>1, <1>2 DEF Ordered, LifecycleTypeOK
<1>5. InStage'
  BY <1>1, <1>2 DEF InStage, Working, LifecycleTypeOK
<1>6. PoolDone'
  BY <1>1, <1>2 DEF PoolDone, Working, LifecycleTypeOK, Committed
<1>7. Unbegun' /\ Tagged' /\ OneKind' /\ PoolHasSeed'
  BY DEF Unbegun, Tagged, OneKind, PoolHasSeed, Working
<1> QED
  BY <1>3, <1>4, <1>5, <1>6, <1>7

LEMMA RotateEpochKeepsInv == LifecycleInv /\ RotateEpoch => LifecycleInv'
<1> SUFFICES ASSUME LifecycleInv, RotateEpoch PROVE LifecycleInv'
  OBVIOUS
<1> USE DEF LifecycleInv, RotateEpoch
<1>1. LifecycleTypeOK'
  BY OrgEpochAssumption DEF LifecycleTypeOK, OrgEpoch
<1>2. Ordered' /\ Unbegun' /\ InStage' /\ PoolDone'
  BY DEF Ordered, Unbegun, InStage, PoolDone, Working
<1>3. Tagged' /\ OneKind' /\ PoolHasSeed'
  BY DEF Tagged, OneKind, PoolHasSeed, Working
<1> QED
  BY <1>1, <1>2, <1>3

LEMMA LifecycleInvStep == LifecycleInv /\ [LifecycleNext]_lifecycleVars => LifecycleInv'
<1> SUFFICES ASSUME LifecycleInv, [LifecycleNext]_lifecycleVars PROVE LifecycleInv'
  OBVIOUS
<1>1. CASE BeginSeed \/ BeginInflux
  BY <1>1, BeginSeedKeepsInv, BeginInfluxKeepsInv
<1>2. CASE LifecycleStep
  <2>1. CASE \E m \in Mem : SeedOneMemory(m) \/ ApproveMemory(m) \/ VerifyKeywords(m)
    BY <2>1, SeedOneMemoryKeepsInv, LaterPostKeepsInv
  <2>2. CASE WaitPending \/ WaitPendingKeyword \/ WaitPendingChain
    BY <2>2, WaitKeepsInv
  <2>3. CASE SubmitChainBatch \/ WaitCommitted
    BY <2>3, SubmitChainBatchKeepsInv, WaitCommittedKeepsInv
  <2> QED
    BY <1>2, <2>1, <2>2, <2>3 DEF LifecycleStep
<1>3. CASE LifecycleFails
  BY <1>3, FailKeepsInv
<1>4. CASE \E m \in Mem : HubProgress(m)
  BY <1>4, HubProgressKeepsInv
<1>5. CASE RotateEpoch
  BY <1>5, RotateEpochKeepsInv
<1>6. CASE UNCHANGED lifecycleVars
  <2>1. UNCHANGED <<at, asked, stage, batch, todo, pool, meta, influx, epochID,
                    seedEpoch, orgEpoch>>
    BY <1>6 DEF lifecycleVars, epochVars
  <2> QED
    BY <2>1 DEF LifecycleInv, LifecycleTypeOK, Ordered, Unbegun, InStage, PoolDone,
                Tagged, OneKind, PoolHasSeed, Working
<1> QED
  BY <1>1, <1>2, <1>3, <1>4, <1>5, <1>6 DEF LifecycleNext

(* The batch of a lifecycle is always where its stage says.                *)
THEOREM InvHolds == LifecycleSpec => []LifecycleInv
  BY LifecycleInvInit, LifecycleInvStep, PTL DEF LifecycleSpec

-----------------------------------------------------------------------------
(* The state of the lifecycle always has its type.                         *)
THEOREM Typing == LifecycleSpec => []LifecycleTypeOK
<1>1. LifecycleInv => LifecycleTypeOK
  BY DEF LifecycleInv
<1> QED
  BY <1>1, InvHolds, PTL

(* No request overtakes the hub: approveMemory, verifyKeywords and         *)
(* submitChainBatch come after the state they start from is shown.         *)
THEOREM InOrder == LifecycleSpec => []RequestsInOrder
<1>1. LifecycleInv => RequestsInOrder
  BY DEF LifecycleInv, Ordered, RequestsInOrder
<1> QED
  BY <1>1, InvHolds, PTL

(* R-ONE-PATH: between two lifecycles all of h.memories is committed.      *)
THEOREM ServableIsCommitted == LifecycleSpec => []PoolCommitted
<1>1. LifecycleInv => PoolCommitted
  BY DEF LifecycleInv, PoolDone, PoolCommitted, Working
<1> QED
  BY <1>1, InvHolds, PTL

(* isInitialCohortMemory picks the initial cohort out of h.memories,       *)
(* whichever epochs of the organisation the contributions are made in.     *)
THEOREM CohortIsTheSeed == LifecycleSpec => []CohortIsSeed
<1>1. LifecycleInv => CohortIsSeed
  <2> SUFFICES ASSUME LifecycleInv, stage = "idle", seedEpoch # NoEpoch
               PROVE  {m \in pool : InitialCohort(m)} = Seed
    BY DEF CohortIsSeed
  <2>1. Seed \subseteq pool /\ \A m \in pool : asked[m] # Missing /\ m \in Mem
    BY DEF LifecycleInv, PoolHasSeed, LifecycleTypeOK
  <2>2. \A m \in Seed : m \in pool /\ InitialCohort(m)
    BY <2>1 DEF LifecycleInv, Tagged, InitialCohort
  <2>3. \A m \in pool : InitialCohort(m) => m \in Seed
    BY <2>1 DEF LifecycleInv, Tagged, InitialCohort, Mem
  <2> QED
    BY <2>2, <2>3
<1> QED
  BY <1>1, InvHolds, PTL

-----------------------------------------------------------------------------
(* Seeding.  The setup leaves the lifecycle alone; the vocabulary is       *)
(* registered first.                                                       *)

(* A step of the composition is one of the lifecycle or leaves it alone.   *)
LEMMA StepIsLifecycle == [SeedingNext]_seedingVars => [LifecycleNext]_lifecycleVars
<1> SUFFICES ASSUME [SeedingNext]_seedingVars PROVE [LifecycleNext]_lifecycleVars
  OBVIOUS
<1>1. CASE SetupStep
  BY <1>1 DEF SetupStep, SeedMemoriesBegins, FailTogether, LifecycleNext
<1>2. CASE LifecycleGoesOn
  BY <1>2 DEF LifecycleGoesOn, SignedStep, LifecycleStep, LifecycleNext
<1>3. CASE InfluxBegins \/ HubMoves
  BY <1>3 DEF InfluxBegins, HubMoves, LifecycleNext
<1>4. CASE UNCHANGED seedingVars
  BY <1>4 DEF seedingVars
<1> QED
  BY <1>1, <1>2, <1>3, <1>4 DEF SeedingNext, HarnessGoesOn

(* The seeding and the influx of harness.run implement MemoryLifecycle,    *)
(* whatever the setup before them and the hub's answers are.               *)
THEOREM SeedingIsLifecycle == SeedingSpec => LifecycleSpec
<1>1. SeedingInit => LifecycleInit
  BY DEF SeedingInit
<1> QED
  BY <1>1, StepIsLifecycle, PTL DEF SeedingSpec, LifecycleSpec

(* The waits between the loops of requests do what they are there for,     *)
(* also when the seeding follows a setup.                                  *)
THEOREM SeedingInOrder == SeedingSpec => []RequestsInOrder
  BY SeedingIsLifecycle, InOrder, PTL

(* What traffic may be served from is committed.                           *)
THEOREM SeedingServesCommitted == SeedingSpec => []PoolCommitted
  BY SeedingIsLifecycle, ServableIsCommitted, PTL

(* The measured cohort is the seeds'.                                      *)
THEOREM SeedingMeasuresSeeds == SeedingSpec => []CohortIsSeed
  BY SeedingIsLifecycle, CohortIsTheSeed, PTL

-----------------------------------------------------------------------------
(* The setup.                                                              *)

(* Nothing is requested before the setup is over, and when it is, the      *)
(* organisation has been found and the listing looked at.                  *)
SetupInv ==
  /\ role \in [Identity -> Role]
  /\ registered \subseteq Vocabulary
  /\ setup \in {"vocabulary", "ready"} => role["leader"] = "leader"
  /\ VocabularyRegistered
  /\ setup # "ready" => \A m \in Mem : asked[m] = Missing

LEMMA SetupInvInit == SeedingInit => SetupInv
  BY DEF SeedingInit, SetupInit, LifecycleInit, SetupInv, VocabularyRegistered,
         Identity, Role

LEMMA SetupKeepsInv == SetupInv /\ SetupStep => SetupInv'
<1> SUFFICES ASSUME SetupInv, SetupStep PROVE SetupInv'
  OBVIOUS
<1>1. asked' = asked /\ setup # "ready"
  BY DEF SetupStep, SeedMemoriesBegins, FailTogether, BeginSeed, Begin, LifecycleFails,
         ResolveSeedEpoch, FoundOrg, Preflight, CreateOrg, InviteMembers, InviteMember,
         BootstrapVocabulary, EnsureKeyword, ListOrgKeywords, SetupFails, lifecycleVars
<1>2. CASE SetupFails \/ Preflight \/ SeedMemoriesBegins
  BY <1>1, <1>2 DEF SetupFails, Preflight, SeedMemoriesBegins, ResolveSeedEpoch,
                    SetupInv, VocabularyRegistered
<1>3. CASE CreateOrg
  BY <1>1, <1>3 DEF CreateOrg, SetupInv, VocabularyRegistered, Identity, Role
<1>4. CASE InviteMembers
  BY <1>1, <1>4 DEF InviteMembers, InviteMember, SetupInv, VocabularyRegistered,
                    Identity, Role
<1>5. ASSUME NEW k \in Vocabulary, EnsureKeyword(k) PROVE SetupInv'
  BY <1>1, <1>5 DEF EnsureKeyword, SetupInv, VocabularyRegistered
<1>6. CASE ListOrgKeywords
  <2>1. PICK listed \in {registered, {}} :
          /\ unlisted' = (listed = {})
          /\ setup' = IF listed = {} \/ Vocabulary \subseteq listed
                      THEN "ready" ELSE "failed"
    BY <1>6 DEF ListOrgKeywords
  <2>2. /\ setup = "vocabulary" /\ UNCHANGED <<role, registered>>
    BY <1>6 DEF ListOrgKeywords
  <2>3. setup' = "ready" => registered' = Vocabulary \/ unlisted'
    BY <2>1, <2>2 DEF SetupInv
  <2>4. setup' \in {"ready", "failed"}
    BY <2>1
  <2> QED
    BY <1>1, <2>2, <2>3, <2>4 DEF SetupInv, VocabularyRegistered
<1> QED
  BY <1>2, <1>3, <1>4, <1>5, <1>6 DEF SetupStep, FoundOrg, BootstrapVocabulary

LEMMA SetupInvStep == SetupInv /\ [SeedingNext]_seedingVars => SetupInv'
<1> SUFFICES ASSUME SetupInv, [SeedingNext]_seedingVars PROVE SetupInv'
  OBVIOUS
<1> USE DEF SetupInv, VocabularyRegistered, setupVars
<1>1. CASE SetupStep
  BY <1>1, SetupKeepsInv
<1>2. CASE LifecycleGoesOn
  BY <1>2 DEF LifecycleGoesOn
<1>3. CASE InfluxBegins
  BY <1>3 DEF InfluxBegins
<1>4. CASE HubMoves
  BY <1>4 DEF HubMoves, HubProgress, RotateEpoch
<1>5. CASE UNCHANGED seedingVars
  BY <1>5 DEF seedingVars, lifecycleVars
<1> QED
  BY <1>1, <1>2, <1>3, <1>4, <1>5 DEF SeedingNext, HarnessGoesOn

(* No memory is submitted before its organisation exists and the hub knows *)
(* its keywords, or lists none.                                            *)
THEOREM SetUpFirst == SeedingSpec => []SetUpBeforeSubmission
<1>1. SetupInv => SetUpBeforeSubmission
  BY DEF SetupInv, VocabularyRegistered, SetUpBeforeSubmission
<1> QED
  BY <1>1, SetupInvInit, SetupInvStep, PTL DEF SeedingSpec

(* Every variable of the setup and of the lifecycle has its type: no       *)
(* keyword outside the vocabulary is ever posted.                          *)
THEOREM SeedingTyping == SeedingSpec => []SeedingTypeOK
<1>1. SeedingInit => SetupTypeOK
  BY DEF SeedingInit, SetupInit, SetupTypeOK, SetupPhases, Identity, Role
<1>2. SetupTypeOK /\ [SeedingNext]_seedingVars => SetupTypeOK'
  <2> SUFFICES ASSUME SetupTypeOK, [SeedingNext]_seedingVars PROVE SetupTypeOK'
    OBVIOUS
  <2> USE DEF SetupTypeOK, SetupPhases, Identity, Role
  <2>1. CASE UNCHANGED setupVars
    BY <2>1 DEF setupVars
  <2>2. CASE SetupFails \/ Preflight \/ SeedMemoriesBegins \/ ListOrgKeywords
    BY <2>2 DEF SetupFails, Preflight, SeedMemoriesBegins, ResolveSeedEpoch,
                ListOrgKeywords
  <2>3. CASE CreateOrg
    BY <2>3 DEF CreateOrg
  <2>4. CASE InviteMembers
    BY <2>4 DEF InviteMembers, InviteMember
  <2>5. ASSUME NEW k \in Vocabulary, EnsureKeyword(k) PROVE SetupTypeOK'
    BY <2>5 DEF EnsureKeyword
  <2> QED
    BY <2>1, <2>2, <2>3, <2>4, <2>5 DEF SeedingNext, HarnessGoesOn, SetupStep,
       FoundOrg, BootstrapVocabulary, LifecycleGoesOn, InfluxBegins, HubMoves, seedingVars
<1> QED
  BY <1>1, <1>2, SeedingIsLifecycle, Typing, PTL DEF SeedingSpec, SeedingTypeOK

-----------------------------------------------------------------------------
(* KeywordFixtures.  Every share is rounded down by less than one unit, so *)
(* the roundings of all but the last keyword leave the last one at least   *)
(* its own share, and at most all the roundings more.                      *)

(* Rounding down loses less than one unit.                                 *)
LEMMA Division ==
  ASSUME NEW a \in Nat, NEW b \in Nat, 0 < b, b <= a
  PROVE  /\ a \div b \in Nat /\ a \div b >= 1
         /\ a - (a \div b) * b \in 0 .. b - 1
<1>1. a = b * (a \div b) + (a % b) /\ a % b \in 0 .. b - 1 /\ a \div b \in Nat
  OBVIOUS
<1>2. a \div b # 0
  BY <1>1
<1>3. b * (a \div b) = (a \div b) * b /\ (a \div b) * b \in Nat
  BY <1>1
<1> QED
  BY <1>1, <1>2, <1>3

(* The sum of the raw weights, and that of the first of them.              *)
LEMMA RawSums ==
  ASSUME NEW n \in Nat, NEW raw \in [1 .. n -> 5 .. 100]
  PROVE  \A k \in 0 .. n : SumOf(raw, 1 .. k) \in 5 * k .. 100 * k
<1> DEFINE T == {k \in Nat : k <= n => SumOf(raw, 1 .. k) \in 5 * k .. 100 * k}
<1>1. /\ SumOf(raw, 1 .. 0) = 0
      /\ \A k \in 0 .. n : SumOf(raw, 1 .. k) \in Int
      /\ \A k \in 0 .. n - 1 : SumOf(raw, 1 .. k + 1) = raw[k + 1] + SumOf(raw, 1 .. k)
  <2>1. raw \in [1 .. n -> Int]
    <3>1. 5 .. 100 \subseteq Int
      OBVIOUS
    <3> QED
      BY <3>1
  <2> QED
    BY <2>1, SumUpTo
<1>2. 0 \in T
  BY <1>1
<1>3. ASSUME NEW k \in T PROVE k + 1 \in T
  <2> SUFFICES ASSUME k + 1 <= n
               PROVE  SumOf(raw, 1 .. k + 1) \in 5 * (k + 1) .. 100 * (k + 1)
    OBVIOUS
  <2>1. k \in 0 .. n - 1 /\ SumOf(raw, 1 .. k) \in 5 * k .. 100 * k
    OBVIOUS
  <2>2. SumOf(raw, 1 .. k + 1) = raw[k + 1] + SumOf(raw, 1 .. k)
    BY <2>1, <1>1
  <2>3. raw[k + 1] \in 5 .. 100
    BY <2>1
  <2>4. \A s \in 5 * k .. 100 * k : \A r \in 5 .. 100 :
          r + s \in 5 * (k + 1) .. 100 * (k + 1)
    BY <2>1
  <2> QED
    BY <2>1, <2>2, <2>3, <2>4
<1>4. T = Nat
  <2>1. T \in SUBSET Nat
    OBVIOUS
  <2> HIDE DEF T
  <2> QED
    BY <1>2, <1>3, <2>1, SetInduction
<1> QED
  <2> SUFFICES ASSUME NEW k \in 0 .. n PROVE SumOf(raw, 1 .. k) \in 5 * k .. 100 * k
    OBVIOUS
  <2>1. k \in Nat /\ k <= n
    OBVIOUS
  <2>2. k \in T
    <3> HIDE DEF T
    <3> QED
      BY <2>1, <1>4
  <2> QED
    BY <2>1, <2>2

(* What a keyword loses when its share is rounded down.                    *)
Loss(raw, i) == raw[i] * Whole - Units(raw, i) * Total(raw)

(* A draw, its sum, and the units of each keyword's share of it.           *)
LEMMA UnitsOfDraw ==
  ASSUME NEW n \in Nat, 1 <= n, n <= 500, NEW raw \in [1 .. n -> 5 .. 100]
  PROVE  /\ Total(raw) = SumOf(raw, 1 .. n)
         /\ Total(raw) \in 5 * n .. 50000
         /\ \A i \in 1 .. n :
              /\ Units(raw, i) \in Nat \ {0}
              /\ Loss(raw, i) \in 0 .. Total(raw) - 1
<1>1. Total(raw) = SumOf(raw, 1 .. n)
  <2>1. DOMAIN raw = 1 .. n
    OBVIOUS
  <2> QED
    BY <2>1, FoldFunctionIsSum DEF Total
<1>2. Total(raw) \in 5 * n .. 50000
  <2>1. SumOf(raw, 1 .. n) \in 5 * n .. 100 * n
    BY RawSums
  <2> QED
    BY <2>1, <1>1
<1>3. ASSUME NEW i \in 1 .. n
      PROVE  /\ Units(raw, i) \in Nat \ {0}
             /\ Loss(raw, i) \in 0 .. Total(raw) - 1
  <2> DEFINE a == raw[i] * Whole
             b == Total(raw)
  <2>1. a \in Nat /\ b \in Nat /\ 0 < b /\ b <= a
    <3>1. raw[i] \in 5 .. 100
      OBVIOUS
    <3>2. \A t \in 5 * n .. 50000 : t \in Nat /\ 0 < t /\ t <= 50000
      OBVIOUS
    <3>3. b \in Nat /\ 0 < b /\ b <= 50000
      BY <3>2, <1>2
    <3>4. PICK r \in 5 .. 100 : r = raw[i]
      BY <3>1
    <3>5. a = r * 10000
      BY <3>4 DEF Whole
    <3>6. a \in Nat /\ 50000 <= a
      BY <3>5
    <3> HIDE DEF a, b
    <3> QED
      BY <3>3, <3>6
  <2> HIDE DEF a, b
  <2>2. a \div b \in Nat /\ a \div b >= 1 /\ a - (a \div b) * b \in 0 .. b - 1
    BY <2>1, Division
  <2>3. Units(raw, i) = a \div b
    BY <2>2 DEF Units, AtLeastOne, a, b
  <2> QED
    BY <2>2, <2>3 DEF a, b, Loss
<1> QED
  BY <1>1, <1>2, <1>3

(* What the roundings of the first k of m shares together lose.            *)
LEMMA RoundingLoss ==
  ASSUME NEW n \in Nat, NEW raw \in [1 .. n -> Int], NEW u \in [1 .. n -> Int],
         NEW t \in Nat, 1 <= t, NEW m \in 0 .. n,
         \A i \in 1 .. m : raw[i] * Whole - u[i] * t \in 0 .. t - 1
  PROVE  \A k \in 0 .. m :
           /\ SumOf(u, 1 .. k) \in Int /\ SumOf(raw, 1 .. k) \in Int
           /\ SumOf(raw, 1 .. k) * Whole - SumOf(u, 1 .. k) * t \in 0 .. k * (t - 1)
<1> DEFINE R(k) == SumOf(raw, 1 .. k)
           A(k) == SumOf(u, 1 .. k)
           T == {k \in Nat : k <= m => R(k) * Whole - A(k) * t \in 0 .. k * (t - 1)}
<1>4. /\ A(0) = 0 /\ \A k \in 0 .. n : A(k) \in Int
      /\ \A k \in 0 .. n - 1 : A(k + 1) = u[k + 1] + A(k)
  BY SumUpTo
<1>5. /\ R(0) = 0 /\ \A k \in 0 .. n : R(k) \in Int
      /\ \A k \in 0 .. n - 1 : R(k + 1) = raw[k + 1] + R(k)
  BY SumUpTo
<1> HIDE DEF R, A
<1>6. 0 \in T
  BY <1>4, <1>5 DEF Whole
<1>7. ASSUME NEW k \in T PROVE k + 1 \in T
  <2> SUFFICES ASSUME k + 1 <= m
               PROVE  R(k + 1) * Whole - A(k + 1) * t \in 0 .. (k + 1) * (t - 1)
    OBVIOUS
  <2>1. k \in Nat /\ k \in 0 .. n - 1 /\ k \in 0 .. n /\ k + 1 \in 1 .. m /\ k + 1 \in 1 .. n
    OBVIOUS
  <2>2. R(k) * Whole - A(k) * t \in 0 .. k * (t - 1)
    OBVIOUS
  <2> DEFINE r == raw[k + 1]
             v == u[k + 1]
             s == R(k)
             a == A(k)
  <2>3. R(k + 1) = r + s /\ A(k + 1) = v + a
    BY <2>1, <1>4, <1>5
  <2>4. r \in Int /\ v \in Int /\ s \in Int /\ a \in Int /\ r * Whole - v * t \in 0 .. t - 1
    BY <2>1, <1>4, <1>5
  <2>5. s * Whole - a * t \in 0 .. k * (t - 1)
    BY <2>2
  <2> HIDE DEF r, v, s, a
  <2>6. (r + s) * Whole - (v + a) * t = (s * Whole - a * t) + (r * Whole - v * t)
    BY <2>4 DEF Whole
  <2>7. (k + 1) * (t - 1) = k * (t - 1) + (t - 1) /\ k * (t - 1) \in Nat
    BY <2>1
  <2>8. (s * Whole - a * t) + (r * Whole - v * t) \in 0 .. (k + 1) * (t - 1)
    <3>1. \A x \in 0 .. k * (t - 1) : \A y \in 0 .. t - 1 :
            x + y \in 0 .. k * (t - 1) + (t - 1)
      BY <2>7
    <3> QED
      BY <2>4, <2>5, <2>7, <3>1
  <2> QED
    BY <2>3, <2>6, <2>8
<1>8. T = Nat
  <2>1. T \in SUBSET Nat
    OBVIOUS
  <2> HIDE DEF T
  <2> QED
    BY <1>6, <1>7, <2>1, SetInduction
<1>9. ASSUME NEW k \in 0 .. m PROVE R(k) * Whole - A(k) * t \in 0 .. k * (t - 1)
  <2>1. k \in Nat /\ k <= m
    OBVIOUS
  <2>2. k \in T
    <3> HIDE DEF T
    <3> QED
      BY <2>1, <1>8
  <2> QED
    BY <2>1, <2>2
<1>10. \A k \in 0 .. m : R(k) \in Int /\ A(k) \in Int
  BY <1>4, <1>5
<1> QED
  BY <1>9, <1>10 DEF R, A

(* How far a keyword's weight is from its share.                           *)
Error(u, raw, i) == u[i] * Total(raw) - raw[i] * Whole

(* The weights of a draw: all positive, together one, and each as close to *)
(* its share as the roundings of all others together.                      *)
LEMMA WeightsOfDraw ==
  ASSUME NEW n \in Nat, 1 <= n, n <= 500, NEW raw \in [1 .. n -> 5 .. 100], NEW u, u = WeightUnits(raw)
  PROVE  /\ Cardinality(DOMAIN raw) = n
         /\ u \in [1 .. n -> Int]
         /\ Total(u) = Whole
         /\ \A i \in 1 .. n :
              /\ u[i] >= 1
              /\ -Total(raw) < Error(u, raw, i)
              /\ Error(u, raw, i) < n * Total(raw)
<1> DEFINE t == Total(raw)
           f == [i \in 1 .. n - 1 |-> Units(raw, i)]
           A == SumOf(f, 1 .. n - 1)
           R == SumOf(raw, 1 .. n - 1)
<1>1. n \in Nat /\ n - 1 \in Nat /\ n - 1 \in 0 .. n /\ DOMAIN raw = 1 .. n
  OBVIOUS
<1>2. Cardinality(DOMAIN raw) = n
  <2>1. Cardinality(1 .. n) = n
    BY <1>1, FS_Interval
  <2> QED
    BY <1>1, <2>1
<1>3. /\ t \in Nat /\ 1 <= t /\ t = SumOf(raw, 1 .. n)
      /\ \A i \in 1 .. n :
           /\ Units(raw, i) \in Int /\ Units(raw, i) >= 1 /\ raw[i] \in 5 .. 100
           /\ raw[i] * Whole - Units(raw, i) * t \in 0 .. t - 1
  <2>1. \A x \in 5 * n .. 50000 : x \in Nat /\ 1 <= x
    OBVIOUS
  <2>2. \A x \in Nat \ {0} : x \in Int /\ x >= 1
    OBVIOUS
  <2>3. t = SumOf(raw, 1 .. n) /\ t \in 5 * n .. 50000
    BY UnitsOfDraw
  <2>4. \A i \in 1 .. n :
          /\ Units(raw, i) \in Nat \ {0}
          /\ Loss(raw, i) \in 0 .. t - 1
    BY UnitsOfDraw
  <2>5. \A i \in 1 .. n : raw[i] \in 5 .. 100
    OBVIOUS
  <2>7. \A i \in 1 .. n : Loss(raw, i) = raw[i] * Whole - Units(raw, i) * t
    BY DEF Loss
  <2> HIDE DEF t
  <2>6. t \in Nat /\ 1 <= t
    BY <2>1, <2>3
  <2> QED
    BY <2>2, <2>3, <2>4, <2>5, <2>6, <2>7
<1>4. /\ f \in [1 .. n - 1 -> Int] /\ raw \in [1 .. n -> Int]
      /\ \A i \in 1 .. n - 1 : f[i] = Units(raw, i)
  <2>1. \A i \in 1 .. n - 1 : i \in 1 .. n
    OBVIOUS
  <2>2. 5 .. 100 \subseteq Int
    OBVIOUS
  <2> QED
    BY <1>3, <2>1, <2>2
<1>5. Total(f) = A
  <2>1. DOMAIN f = 1 .. n - 1
    OBVIOUS
  <2> QED
    BY <2>1, FoldFunctionIsSum DEF Total
<1>6. u = [i \in 1 .. n |-> IF i < n THEN Units(raw, i) ELSE Whole - A]
  BY <1>2, <1>5 DEF WeightUnits
<1>7. A \in Int
  <2> HIDE DEF f
  <2>1. n - 1 \in 0 .. n - 1
    BY <1>1
  <2> QED
    BY <1>1, <1>4, <2>1, SumUpTo
<1> HIDE DEF t, f, A, R
<1>8. /\ u \in [1 .. n -> Int] /\ u[n] = Whole - A
      /\ \A i \in 1 .. n - 1 : u[i] = Units(raw, i)
  <2>1. Whole - A \in Int
    BY <1>7 DEF Whole
  <2>2. \A i \in 1 .. n - 1 : i < n /\ i \in 1 .. n
    BY <1>1
  <2>3. n \in 1 .. n /\ ~ (n < n)
    BY <1>1
  <2> QED
    BY <1>3, <1>6, <2>1, <2>2, <2>3
<1>9. SumOf(u, 1 .. n - 1) = A
  <2>1. n - 1 \in 0 .. n - 1
    BY <1>1
  <2>2. \A k \in 0 .. n - 1 : SumOf(f, 1 .. k) = SumOf(u, 1 .. k)
    <3>1. \A i \in 1 .. n - 1 : f[i] = u[i]
      BY <1>4, <1>8
    <3>2. f \in [1 .. n - 1 -> Int]
      BY <1>4
    <3>3. u \in [1 .. n -> Int]
      BY <1>8
    <3> DEFINE m == n - 1
    <3>4. n \in Nat /\ m \in Nat /\ m <= n
      BY <1>1
    <3> HIDE DEF m
    <3>5. \A k \in 0 .. m : SumOf(f, 1 .. k) = SumOf(u, 1 .. k)
      <4>1. f \in [1 .. m -> Int] /\ \A i \in 1 .. m : f[i] = u[i]
        BY <3>1, <3>2 DEF m
      <4>2. f \in Listing(m) /\ u \in Listing(n)
        BY <3>3, <4>1 DEF Listing
      <4> QED
        BY <3>4, <4>1, <4>2, SumOfPrefix
    <3> QED
      BY <3>5 DEF m
  <2> QED
    BY <2>1, <2>2 DEF A
<1>10. R \in Int /\ R * Whole - A * t \in 0 .. (n - 1) * (t - 1)
  <2>1. n - 1 \in 0 .. n - 1
    BY <1>1
  <2>2. \A i \in 1 .. n - 1 : raw[i] * Whole - u[i] * t \in 0 .. t - 1
    <3>1. \A i \in 1 .. n - 1 : i \in 1 .. n
      BY <1>1
    <3> QED
      BY <1>3, <1>8, <3>1
  <2>3. \A k \in 0 .. n - 1 :
          /\ SumOf(u, 1 .. k) \in Int /\ SumOf(raw, 1 .. k) \in Int
          /\ SumOf(raw, 1 .. k) * Whole - SumOf(u, 1 .. k) * t \in 0 .. k * (t - 1)
    BY <1>1, <1>3, <1>4, <1>8, <2>2, RoundingLoss
  <2> QED
    BY <1>9, <2>1, <2>3 DEF R
<1>11. t = raw[n] + R
  <2>1. n - 1 \in 0 .. n - 1 /\ (n - 1) + 1 = n
    BY <1>1
  <2>2. SumOf(raw, 1 .. (n - 1) + 1) = raw[(n - 1) + 1] + SumOf(raw, 1 .. n - 1)
    BY <1>1, <1>4, <2>1, SumUpTo
  <2> QED
    BY <1>3, <2>1, <2>2 DEF R
<1>12. PICK r \in 5 .. 100 : r = raw[n]
  <2>1. n \in 1 .. n
    BY <1>1
  <2>2. raw[n] \in 5 .. 100
    BY <1>3, <2>1
  <2> QED
    BY <2>2
<1>13. (Whole - A) * t - r * Whole = R * Whole - A * t
  <2>1. t = r + R
    BY <1>11, <1>12
  <2>2. \A a, x \in Int : \A y \in 5 .. 100 :
          (10000 - a) * (y + x) - y * 10000 = x * 10000 - a * (y + x)
    OBVIOUS
  <2> QED
    BY <1>7, <1>10, <2>1, <2>2 DEF Whole
<1>14. u[n] >= 1
  <2>1. (Whole - A) * t >= 5 * Whole
    <3>1. \A d \in 0 .. (n - 1) * (t - 1) : d \in Int /\ d >= 0
      OBVIOUS
    <3>2. R * Whole - A * t >= 0 /\ R * Whole - A * t \in Int
      BY <1>10, <3>1
    <3>3. (Whole - A) * t \in Int /\ r * Whole \in Int /\ r * Whole >= 5 * Whole
      <4>1. \A a \in Int : \A b \in Nat : (10000 - a) * b \in Int
        OBVIOUS
      <4>2. \A y \in 5 .. 100 : y * 10000 \in Int /\ y * 10000 >= 5 * 10000
        OBVIOUS
      <4> QED
        BY <1>3, <1>7, <4>1, <4>2 DEF Whole
    <3> QED
      BY <1>13, <3>2, <3>3 DEF Whole
  <2>2. \A x \in Int : x <= 0 => ~ (x * t >= 5 * Whole)
    <3>1. \A x \in Int : \A y \in Nat : x <= 0 => ~ (x * y >= 5 * 10000)
      OBVIOUS
    <3>2. t \in Nat
      BY <1>3
    <3>3. 5 * Whole = 5 * 10000
      BY DEF Whole
    <3> QED
      BY <3>1, <3>2, <3>3
  <2>3. Whole - A \in Int
    BY <1>7 DEF Whole
  <2>4. ~ (Whole - A <= 0)
    BY <2>1, <2>2, <2>3
  <2> QED
    BY <1>8, <2>3, <2>4
<1>15. Total(u) = Whole
  <2>1. Total(u) = SumOf(u, 1 .. n)
    <3>1. DOMAIN u = 1 .. n
      BY <1>8
    <3> QED
      BY <3>1, FoldFunctionIsSum DEF Total
  <2>2. n - 1 \in 0 .. n - 1 /\ (n - 1) + 1 = n
    BY <1>1
  <2>3. SumOf(u, 1 .. (n - 1) + 1) = u[(n - 1) + 1] + SumOf(u, 1 .. n - 1)
    BY <1>1, <1>8, <2>2, SumUpTo
  <2>4. Total(u) = (Whole - A) + A
    BY <1>8, <1>9, <2>1, <2>2, <2>3
  <2> QED
    BY <1>7, <2>4 DEF Whole
<1>16. ASSUME NEW i \in 1 .. n
       PROVE  /\ u[i] >= 1
              /\ -t < u[i] * t - raw[i] * Whole
              /\ u[i] * t - raw[i] * Whole < n * t
  <2>1. n * t \in Nat /\ n * t >= t
    <3>1. \A x, y \in Nat : 1 <= x => x * y \in Nat /\ x * y >= y
      OBVIOUS
    <3> QED
      BY <1>1, <1>3, <3>1
  <2>2. CASE i = n
    <3>1. u[i] * t - raw[i] * Whole = R * Whole - A * t
      BY <1>8, <1>12, <1>13, <2>2
    <3>2. (n - 1) * (t - 1) < n * t /\ (n - 1) * (t - 1) \in Nat
      <4>1. \A x, y \in Nat : 1 <= x /\ 1 <= y =>
              (x - 1) * (y - 1) < x * y /\ (x - 1) * (y - 1) \in Nat
        OBVIOUS
      <4> QED
        BY <1>1, <1>3, <4>1
    <3>3. \A d \in 0 .. (n - 1) * (t - 1) : -t < d /\ d < n * t
      <4> DEFINE c == (n - 1) * (t - 1)
                 b == n * t
      <4>1. t \in Nat /\ 1 <= t /\ b \in Nat /\ c \in Nat /\ c < b
        BY <1>3, <2>1, <3>2
      <4> HIDE DEF c, b
      <4> SUFFICES \A d \in 0 .. c : -t < d /\ d < b
        BY DEF c, b
      <4> QED
        BY <4>1
    <3> QED
      BY <1>10, <1>14, <2>2, <3>1, <3>3
  <2>3. CASE i # n
    <3>1. i \in 1 .. n - 1
      BY <1>1, <2>3
    <3>2. u[i] = Units(raw, i)
      BY <1>8, <3>1
    <3>3. PICK x \in Int : x = u[i]
      BY <1>3, <3>2
    <3>4. PICK y \in 5 .. 100 : y = raw[i]
      BY <1>3
    <3>5. y * Whole - x * t \in 0 .. t - 1 /\ x >= 1
      BY <1>3, <3>2, <3>3, <3>4
    <3>6. x * t \in Int
      BY <1>3
    <3>7. -t < x * t - y * Whole /\ x * t - y * Whole <= 0
      <4>1. \A p, q, z \in Int : q - p \in 0 .. z - 1 => -z < p - q /\ p - q <= 0
        OBVIOUS
      <4>2. y * Whole \in Int
        BY <3>4 DEF Whole
      <4> QED
        <5> DEFINE p == x * t
                   q == y * Whole
        <5>1. p \in Int /\ q \in Int /\ t \in Int /\ q - p \in 0 .. t - 1
          BY <1>3, <3>5, <3>6, <4>2
        <5> HIDE DEF p, q
        <5>2. -t < p - q /\ p - q <= 0
          BY <4>1, <5>1
        <5> QED
          BY <5>2 DEF p, q
    <3>8. x * t - y * Whole < n * t
      <4>1. \A p, q \in Int : \A z \in Nat : p - q <= 0 /\ 1 <= z => p - q < z
        OBVIOUS
      <4>2. y * Whole \in Int
        BY <3>4 DEF Whole
      <4>3. n * t \in Nat /\ 1 <= n * t
        BY <1>3, <2>1
      <4> QED
        BY <3>6, <3>7, <4>1, <4>2, <4>3
    <3> QED
      BY <3>3, <3>4, <3>5, <3>7, <3>8
  <2> QED
    BY <2>2, <2>3
<1> QED
  <2>1. \A i \in 1 .. n : Error(u, raw, i) = u[i] * t - raw[i] * Whole
    BY DEF Error, t
  <2> QED
    BY <1>2, <1>8, <1>15, <1>16, <2>1 DEF t

(* pickDistinct returns as many different indexes as it is asked for.      *)
LEMMA DistinctPicked ==
  ASSUME NEW n \in Nat, NEW max \in Nat, n <= max, NEW kws \in PickDistinct(n, max)
  PROVE  Cardinality(kws) = n
<1>1. CASE n >= max
  <2>1. n = max /\ kws = 0 .. n - 1
    BY <1>1 DEF PickDistinct
  <2>2. Cardinality(0 .. n - 1) = IF 0 > n - 1 THEN 0 ELSE (n - 1) - 0 + 1
    BY FS_Interval
  <2> QED
    BY <2>1, <2>2
<1>2. CASE ~ (n >= max)
  BY <1>2 DEF PickDistinct
<1> QED
  BY <1>1, <1>2

(* Whatever is drawn, the fixture is valid.                                *)
LEMMA DrawnFixturesAreValid == FixturesAreValid
<1> SUFFICES ASSUME NEW raw \in Draws, NEW n, n = Cardinality(DOMAIN raw),
                    NEW units, units = WeightUnits(raw)
             PROVE  /\ Normalises(raw)
                    /\ Total(units) = Whole
                    /\ \A kws \in PickDistinct(n, VocabularySize) : ValidFixture(kws, units)
                    /\ \A i \in 1 .. n :
                         LET error == units[i] * Total(raw) - raw[i] * Whole
                         IN -Total(raw) < error /\ error < n * Total(raw)
  BY DEF FixturesAreValid
<1>1. PICK m \in QSize .. MaxKw : raw \in [1 .. m -> RawWeights]
  BY DEF Draws
<1>2. m \in 1 .. 500 /\ m <= VocabularySize /\ VocabularySize \in Nat
  BY FixtureAssumption, <1>1
<1>3. raw \in [1 .. m -> 5 .. 100]
  BY FixtureAssumption, <1>1
<1>4. /\ Cardinality(DOMAIN raw) = m
      /\ units \in [1 .. m -> Int]
      /\ Total(units) = Whole
      /\ \A i \in 1 .. m :
           /\ units[i] >= 1
           /\ -Total(raw) < Error(units, raw, i)
           /\ Error(units, raw, i) < m * Total(raw)
  BY <1>2, <1>3, WeightsOfDraw
<1>5. n = m
  BY <1>4
<1>6. Normalises(raw)
  <2>1. m \in 1 .. m
    BY <1>2
  <2> QED
    BY <1>4, <1>5, <2>1 DEF Normalises
<1>7. ASSUME NEW kws \in PickDistinct(n, VocabularySize) PROVE ValidFixture(kws, units)
  <2>1. m \in Nat /\ m # 0
    BY <1>2
  <2>2. Cardinality(kws) = m
    BY <1>2, <1>5, <2>1, DistinctPicked
  <2>3. kws # {}
    BY <2>1, <2>2, FS_EmptySet
  <2>4. Cardinality(DOMAIN units) = m
    <3>1. DOMAIN units = DOMAIN raw
      BY <1>3, <1>4
    <3> QED
      BY <1>4, <3>1
  <2>5. \A i \in DOMAIN units : units[i] > 0
    <3>1. \A x \in Int : x >= 1 => x > 0
      OBVIOUS
    <3> QED
      BY <1>4, <3>1
  <2>6. Total(units) \in Whole - 200 .. Whole + 200
    BY <1>4 DEF Whole
  <2> QED
    BY <2>2, <2>3, <2>4, <2>5, <2>6 DEF ValidFixture
<1> QED
  BY <1>4, <1>5, <1>6, <1>7 DEF Error

(* A drawn fixture never fails the run.                                    *)
THEOREM NoFixtureFails == SeedingSpec => []FixturesNeverFail
<1>1. FixturesNeverFail
  BY DrawnFixturesAreValid DEF FixturesNeverFail
<1> QED
  BY <1>1, PTL

-----------------------------------------------------------------------------
(* ReplayRun, for every number of epochs and every number of serves.       *)

(* Nothing has been served in this iteration yet.                          *)
Early == {"seed", "start", "influx"}

(* Outside the seeding and the contributions no lifecycle is under way.    *)
Between == pc \notin {"seed", "influx", "failed"} => stage = "idle"

(* The serves and denials of iteration e are made with the epoch it read,  *)
(* after its contributions; those of later iterations are not made yet.    *)
Rounds == \A ev \in posted :
  /\ ev.iter <= e
  /\ ev.iter = e => pc \notin Early /\ ev.stamp = stamp

(* What has not landed belongs to the iteration that is being produced or  *)
(* drained.                                                                *)
QueueIsCurrent ==
  /\ \A ev \in queue : ev.iter = e
  /\ queue # {} => pc \in {"traffic", "drain", "failed"}

(* The serves of an iteration are numbered as they are made, and the last  *)
(* one has no denial while it may get one.                                 *)
Numbered ==
  /\ IsFiniteSet(posted)
  /\ \A ev \in posted : ev.iter = e => ev.n <= sent
  /\ fresh => \A d \in posted : d.kind = "denial" => Nullifier(d) # <<e, sent>>

(* The memory the sanity check asks for has been served.                   *)
FirstIsPosted == firstServed # NoMem =>
  \E s \in posted : s.kind = "serve" /\ s.mem = firstServed

RunInv ==
  /\ LifecycleInv
  /\ TypeOK
  /\ Between
  /\ ServedIsCommitted
  /\ Rounds
  /\ QueueIsCurrent
  /\ Numbered
  /\ DenialNamesServe
  /\ FirstIsPosted

-----------------------------------------------------------------------------
(* The lifecycle inside the run.                                           *)

LEMMA StepOfLifecycle == [Next]_vars => [LifecycleNext]_lifecycleVars
<1> SUFFICES ASSUME [Next]_vars PROVE [LifecycleNext]_lifecycleVars
  OBVIOUS
<1>1. CASE SeedBegins
  BY <1>1 DEF SeedBegins, LifecycleNext
<1>2. CASE StartEpoch
  BY <1>2 DEF StartEpoch, StartAt, LifecycleNext
<1>3. CASE Lifecycle
  BY <1>3 DEF Lifecycle, LifecycleNext
<1>4. CASE Hub \/ OrgEpochMoves
  BY <1>4 DEF Hub, OrgEpochMoves, LifecycleNext
<1>5. CASE Traffic
  BY <1>5 DEF Traffic, RecordServe, RecordDenial, DenyLast, TrafficEnds
<1>6. CASE DrainServeRelay \/ WaitEpochAdvance \/ SanityCheck \/ NextEpoch
             \/ MeasureSurvival \/ Fail
  BY <1>6 DEF DrainServeRelay, LeaveDrain, WaitEpochAdvance, SanityCheck, NextEpoch,
              MeasureSurvival, Fail, FailIn, Phases
<1>7. CASE (\E ev \in queue : Relay(ev)) \/ Tick
  BY <1>7 DEF Relay, Tick
<1>8. CASE UNCHANGED vars
  BY <1>8 DEF vars
<1> QED
  BY <1>1, <1>2, <1>3, <1>4, <1>5, <1>6, <1>7, <1>8 DEF Next, HarnessStep, Environment

(* What is committed stays so: the hub moves a memory no further.          *)
LEMMA CommittedStays ==
  ASSUME LifecycleTypeOK, [LifecycleNext]_lifecycleVars,
         NEW m \in Mem, at[m] = Committed
  PROVE  at'[m] = Committed
<1>1. CASE \E x \in Mem : HubProgress(x)
  <2>1. PICK x \in Mem : at[x] < asked[x] /\ at' = [at EXCEPT ![x] = at[x] + 1]
    BY <1>1 DEF HubProgress
  <2>2. at[m] = 4 /\ asked[m] \in 0 .. 4
    BY DEF LifecycleTypeOK, HubState, Missing, Committed
  <2> QED
    BY <2>1, <2>2 DEF LifecycleTypeOK
<1>2. CASE BeginSeed \/ BeginInflux
  BY <1>2 DEF BeginSeed, BeginInflux, Begin
<1>3. CASE LifecycleStep
  BY <1>3 DEF LifecycleStep, SeedOneMemory, ApproveMemory, VerifyKeywords, Post,
              WaitPending, WaitPendingKeyword, WaitPendingChain, WaitCommitted,
              WaitForLifecycleState, SubmitChainBatch
<1>4. CASE LifecycleFails \/ RotateEpoch \/ UNCHANGED lifecycleVars
  BY <1>4 DEF LifecycleFails, RotateEpoch, lifecycleVars
<1> QED
  BY <1>1, <1>2, <1>3, <1>4 DEF LifecycleNext

-----------------------------------------------------------------------------
(* The invariant.                                                          *)

LEMMA RunInvInit == Init => RunInv
<1> SUFFICES ASSUME Init PROVE RunInv
  OBVIOUS
<1>1. LifecycleInv
  BY LifecycleInvInit DEF Init
<1>2. TypeOK
  <2>1. 0 \in 0 .. TotalEpochs /\ 0 \in 0 .. MaxServes
    BY RunAssumption
  <2>2. LifecycleTypeOK
    BY <1>1 DEF LifecycleInv
  <2> QED
    BY <2>1, <2>2 DEF Init, TypeOK, Phases
<1>3. Between /\ ServedIsCommitted /\ Rounds /\ QueueIsCurrent
  BY DEF Init, Between, ServedIsCommitted, Rounds, QueueIsCurrent
<1>4. DenialNamesServe /\ FirstIsPosted
  BY DEF Init, DenialNamesServe, FirstIsPosted
<1>5. Numbered
  BY FS_EmptySet DEF Init, Numbered
<1> QED
  BY <1>1, <1>2, <1>3, <1>4, <1>5 DEF RunInv

(* The parts of the invariant that the lifecycle's theorems do not give.   *)
RunRest ==
  /\ TypeOK
  /\ Between
  /\ Rounds
  /\ QueueIsCurrent
  /\ Numbered
  /\ DenialNamesServe
  /\ FirstIsPosted

(* A new serve or denial of the iteration under way.                       *)
LEMMA RecordKeepsRelay ==
  ASSUME RunInv, pc = "traffic", UNCHANGED <<pc, e, stamp, chainVars>>,
         NEW kind \in {"serve", "denial"}, NEW m \in Mem, NEW n \in Nat,
         Record(EventNow(kind, m, n))
  PROVE  /\ EventNow(kind, m, n) \in Event
         /\ posted' = posted \cup {EventNow(kind, m, n)}
         /\ posted' \in SUBSET Event /\ IsFiniteSet(posted')
         /\ queue' \in SUBSET posted' /\ missed' \in SUBSET posted'
         /\ Rounds' /\ QueueIsCurrent'
<1> DEFINE ev == EventNow(kind, m, n)
<1>1. /\ posted' = posted \cup {ev} /\ queue' = queue \cup {ev}
      /\ missed' \in SUBSET (missed \cup {ev})
  BY DEF Record
<1>a. IsFiniteSet(posted) /\ Cardinality(posted) \in Nat
  BY FS_CardinalityType DEF RunInv, Numbered
<1>2. ev \in Event /\ ev.iter = e /\ ev.stamp = stamp
  BY <1>a DEF RunInv, TypeOK, EventNow, Event
<1>b. IsFiniteSet(posted')
  BY <1>1, <1>a, FS_AddElement
<1>3. /\ posted' \in SUBSET Event
      /\ queue' \in SUBSET posted' /\ missed' \in SUBSET posted'
  BY <1>1, <1>2 DEF RunInv, TypeOK
<1> HIDE DEF ev
<1>4. Rounds'
  BY <1>1, <1>2 DEF RunInv, TypeOK, Rounds, Early
<1>5. QueueIsCurrent'
  BY <1>1, <1>2 DEF RunInv, QueueIsCurrent
<1> QED
  BY <1>1, <1>2, <1>b, <1>3, <1>4, <1>5 DEF ev

LEMMA RecordServeKeepsRest ==
  ASSUME RunInv, LifecycleTypeOK', NEW m \in Mem, RecordServe(m)
  PROVE  RunRest'
<1> DEFINE ev == EventNow("serve", m, sent + 1)
<1>1. /\ pc = "traffic" /\ sent < MaxServes /\ Record(ev)
      /\ sent' = sent + 1 /\ fresh' = TRUE
      /\ firstServed' = IF firstServed = NoMem THEN m ELSE firstServed
      /\ UNCHANGED <<pc, e, stamp, chainVars, lifecycleVars>>
  BY DEF RecordServe
<1>2. /\ sent + 1 \in 0 .. MaxServes /\ sent + 1 \in Nat
  BY <1>1, RunAssumption DEF RunInv, TypeOK
<1>3. /\ ev \in Event /\ posted' = posted \cup {ev} /\ posted' \in SUBSET Event
      /\ queue' \in SUBSET posted' /\ missed' \in SUBSET posted'
      /\ Rounds' /\ QueueIsCurrent' /\ IsFiniteSet(posted')
  BY <1>1, <1>2, RecordKeepsRelay
<1>4. ev.kind = "serve" /\ ev.mem = m /\ ev.n = sent + 1
  BY DEF EventNow
<1> HIDE DEF ev
<1>5. TypeOK'
  BY <1>1, <1>2, <1>3 DEF RunInv, TypeOK, chainVars
<1>6. Between'
  BY <1>1 DEF RunInv, Between, lifecycleVars
<1>7. DenialNamesServe'
  BY <1>3, <1>4 DEF RunInv, DenialNamesServe
<1>8. FirstIsPosted'
  BY <1>1, <1>3, <1>4 DEF RunInv, FirstIsPosted
<1>9. \A x \in posted : x.iter = e => x.n <= sent /\ x.n <= sent + 1 /\ x.n # sent + 1
  <2>1. \A x \in posted : x.n \in Nat /\ (x.iter = e => x.n <= sent)
    BY DEF RunInv, TypeOK, Event, Numbered
  <2>2. sent \in Nat
    BY RunAssumption DEF RunInv, TypeOK
  <2> QED
    BY <2>1, <2>2
<1>10. \A x \in posted' : x.iter = e => x.n <= sent + 1
  BY <1>2, <1>3, <1>4, <1>9
<1>11. \A d \in posted' : d.kind = "denial" => Nullifier(d) # <<e, sent + 1>>
  BY <1>3, <1>4, <1>9 DEF Nullifier
<1>12. Numbered'
  BY <1>1, <1>3, <1>10, <1>11 DEF Numbered, Nullifier
<1> QED
  BY <1>3, <1>5, <1>6, <1>7, <1>8, <1>12 DEF RunRest

(* A serve that is denied is the iteration's last, and its denial the      *)
(* first under its nullifier.                                              *)
LEMMA RecordDenialKeepsRest ==
  ASSUME RunInv, LifecycleTypeOK', RecordDenial
  PROVE  RunRest'
<1>1. PICK s \in posted :
        /\ s.kind = "serve" /\ Nullifier(s) = <<e, sent>>
        /\ Record(EventNow("denial", s.mem, s.n))
  BY DEF RecordDenial, DenyLast
<1> DEFINE ev == EventNow("denial", s.mem, s.n)
<1>2. /\ pc = "traffic" /\ fresh /\ fresh' = FALSE
      /\ UNCHANGED <<pc, e, stamp, sent, firstServed, chainVars, lifecycleVars>>
  BY DEF RecordDenial, DenyLast
<1>3. s \in Event /\ s.mem \in Mem /\ s.n \in Nat /\ s.n = sent
  BY <1>1 DEF RunInv, TypeOK, Event, Nullifier
<1>4. /\ ev \in Event /\ posted' = posted \cup {ev} /\ posted' \in SUBSET Event
      /\ queue' \in SUBSET posted' /\ missed' \in SUBSET posted'
      /\ Rounds' /\ QueueIsCurrent' /\ IsFiniteSet(posted')
  BY <1>1, <1>2, <1>3, RecordKeepsRelay
<1>5. /\ ev.kind = "denial" /\ ev.mem = s.mem /\ ev.n = sent
      /\ Nullifier(ev) = <<e, sent>> /\ Nullifier(ev) = Nullifier(s)
  BY <1>1, <1>3 DEF EventNow, Nullifier
<1> HIDE DEF ev
<1>6. TypeOK'
  BY <1>2, <1>4 DEF RunInv, TypeOK, chainVars
<1>7. Between'
  BY <1>2 DEF RunInv, Between, lifecycleVars
<1>8. \A c \in posted : c.kind = "denial" => Nullifier(c) # Nullifier(ev)
  BY <1>2, <1>5 DEF RunInv, Numbered
<1>9. DenialNamesServe'
  <2> SUFFICES ASSUME NEW d \in posted', d.kind = "denial"
               PROVE  /\ \E x \in posted' : x.kind = "serve" /\ x.mem = d.mem
                                            /\ Nullifier(x) = Nullifier(d)
                      /\ \A c \in posted' : c.kind = "denial" /\ Nullifier(c) = Nullifier(d)
                                              => c = d
    BY DEF DenialNamesServe, Nullifier
  <2>1. CASE d = ev
    BY <1>1, <1>4, <1>5, <1>8, <2>1
  <2>2. CASE d \in posted
    BY <1>4, <1>8, <2>2 DEF RunInv, DenialNamesServe
  <2> QED
    BY <1>4, <2>1, <2>2
<1>10. FirstIsPosted'
  BY <1>2, <1>4 DEF RunInv, FirstIsPosted
<1>11. \A x \in posted' : x.iter = e => x.n <= sent
  BY <1>3, <1>4, <1>5 DEF RunInv, Numbered
<1>12. Numbered'
  BY <1>2, <1>4, <1>11 DEF Numbered
<1> QED
  BY <1>4, <1>6, <1>7, <1>9, <1>10, <1>12 DEF RunRest

(* Steps that post nothing.                                                *)
LEMMA QuietKeepsHistory ==
  ASSUME RunInv, UNCHANGED <<posted, firstServed>>
  PROVE  /\ DenialNamesServe' /\ FirstIsPosted'
         /\ UNCHANGED <<e, sent>> /\ (fresh' => fresh) => Numbered'
  BY DEF RunInv, DenialNamesServe, FirstIsPosted, Numbered, Nullifier

LEMMA LoopKeepsRest ==
  ASSUME RunInv, LifecycleTypeOK',
         StartEpoch \/ NextEpoch \/ DrainServeRelay \/ WaitEpochAdvance
           \/ SanityCheck \/ MeasureSurvival \/ TrafficEnds \/ Fail
  PROVE  RunRest'
<1> USE DEF RunInv, Goto, relayVars, chainVars
<1>1. UNCHANGED <<posted, firstServed, queue, missed, epoch>>
  BY DEF StartEpoch, StartAt, NextEpoch, DrainServeRelay, LeaveDrain, WaitEpochAdvance, SanityCheck,
         MeasureSurvival, TrafficEnds, Fail, FailIn, Phases
<1>2. DenialNamesServe' /\ FirstIsPosted'
  BY <1>1, QuietKeepsHistory
<1>3. CASE StartEpoch
  <2>1. /\ pc = "start" /\ stamp' = epoch /\ slow' = slow /\ sent' = 0
        /\ pc' \in {"influx", "traffic"} /\ UNCHANGED <<e, fresh>>
        /\ pc' = "traffic" => UNCHANGED stage
    BY <1>3 DEF StartEpoch, StartAt, lifecycleVars
  <2>2. TypeOK'
    BY <1>1, <2>1, RunAssumption DEF TypeOK, Phases
  <2>3. Between'
    BY <2>1 DEF Between
  <2>4. Rounds' /\ QueueIsCurrent'
    BY <1>1, <2>1 DEF Rounds, QueueIsCurrent, Early
  <2>5. \A ev \in posted : ev.iter # e
    BY <2>1 DEF Rounds, Early
  <2>6. Numbered'
    BY <1>1, <2>1, <2>5 DEF Numbered, Nullifier
  <2> QED
    BY <1>2, <2>2, <2>3, <2>4, <2>6 DEF RunRest
<1>4. CASE NextEpoch
  <2>1. /\ pc = "next" /\ e' = e + 1 /\ pc' \in {"measure", "start"}
        /\ e + 1 \in 0 .. TotalEpochs
        /\ UNCHANGED <<stamp, sent, fresh, slow, stage>>
    BY <1>4, RunAssumption DEF NextEpoch, lifecycleVars, TypeOK
  <2>2. TypeOK'
    BY <1>1, <2>1 DEF TypeOK, Phases
  <2>3. Between'
    BY <2>1 DEF Between
  <2>4. \A ev \in posted : ev.iter \in Nat /\ ev.iter <= e /\ e \in Nat
    BY DEF TypeOK, Event, Rounds
  <2>5. Rounds'
    BY <1>1, <2>1, <2>4 DEF Rounds
  <2>6. QueueIsCurrent'
    BY <1>1, <2>1 DEF QueueIsCurrent
  <2>7. \A ev \in posted : ev.iter # e + 1
    BY <2>4
  <2>8. Numbered'
    BY <1>1, <2>1, <2>7 DEF Numbered, Nullifier
  <2> QED
    BY <1>2, <2>2, <2>3, <2>5, <2>6, <2>8 DEF RunRest
<1>5. CASE DrainServeRelay \/ WaitEpochAdvance \/ SanityCheck \/ MeasureSurvival
             \/ TrafficEnds \/ Fail
  <2>1. /\ pc' \in {"advance", "sanity", "next", "failed", "done", "drain"}
        /\ pc' = "failed" \/ pc \notin Early \cup {"failed"}
        /\ queue # {} /\ pc' # "failed" => pc' = "drain"
        /\ fresh' \in {fresh, FALSE}
        /\ UNCHANGED <<e, stamp, sent, slow, stage>>
    BY <1>5 DEF DrainServeRelay, LeaveDrain, WaitEpochAdvance, SanityCheck, MeasureSurvival,
                TrafficEnds, Fail, FailIn, Phases, lifecycleVars, Early, TypeOK, QueueIsCurrent
  <2>2. TypeOK'
    BY <1>1, <2>1 DEF TypeOK, Phases
  <2>3. Between'
    BY <2>1 DEF Between, Early
  <2>4. Rounds'
    BY <1>1, <2>1 DEF Rounds, Early
  <2>5. QueueIsCurrent'
    BY <1>1, <2>1 DEF QueueIsCurrent
  <2>6. Numbered'
    <3>1. fresh' => fresh
      BY <2>1
    <3> QED
      BY <1>1, <2>1, <3>1, QuietKeepsHistory
  <2> QED
    BY <1>2, <2>2, <2>3, <2>4, <2>5, <2>6 DEF RunRest
<1> QED
  BY <1>3, <1>4, <1>5

(* The lifecycle ends before the phase it belongs to does.                 *)
LEMMA LifecycleKeepsRest ==
  ASSUME RunInv, LifecycleTypeOK', SeedBegins \/ Lifecycle \/ Hub \/ OrgEpochMoves
  PROVE  RunRest'
<1> USE DEF RunInv
<1>1. UNCHANGED <<e, stamp, sent, fresh, firstServed, posted, queue, missed, epoch, slow>>
  BY DEF SeedBegins, Lifecycle, Hub, OrgEpochMoves, harnessVars, relayVars, chainVars
<1>2. DenialNamesServe' /\ FirstIsPosted' /\ Numbered'
  BY <1>1, QuietKeepsHistory
<1>3. pc' = pc \/ (pc \in {"seed", "influx"} /\ pc' \in {"start", "traffic", "failed"})
  BY DEF SeedBegins, Lifecycle, Hub, OrgEpochMoves, harnessVars
<1>4. TypeOK'
  BY <1>1, <1>3 DEF TypeOK, Phases
<1>5. Between'
  <2>1. CASE SeedBegins
    BY <2>1 DEF SeedBegins, harnessVars, Between
  <2>2. CASE Lifecycle
    BY <2>2 DEF Lifecycle, Between
  <2>3. CASE Hub \/ OrgEpochMoves
    BY <2>3 DEF Hub, OrgEpochMoves, HubProgress, RotateEpoch, harnessVars, Between
  <2> QED
    BY <2>1, <2>2, <2>3
<1>6. Rounds' /\ QueueIsCurrent'
  BY <1>1, <1>3 DEF Rounds, QueueIsCurrent, Early
<1> QED
  BY <1>2, <1>4, <1>5, <1>6 DEF RunRest

LEMMA OutsideKeepsRest ==
  ASSUME RunInv, LifecycleTypeOK', (\E ev \in queue : Relay(ev)) \/ Tick
  PROVE  RunRest'
<1> USE DEF RunInv
<1>1. UNCHANGED <<pc, e, stamp, sent, fresh, firstServed, posted, stage>>
  BY DEF Relay, Tick, harnessVars, lifecycleVars
<1>2. /\ queue' \subseteq queue /\ missed' \subseteq missed \cup queue
      /\ epoch' \in Nat /\ slow' \in SUBSET Nat
  <2>1. e \in Nat
    BY RunAssumption DEF TypeOK
  <2>2. slow' \subseteq slow \cup {e}
    BY DEF Relay, Tick, chainVars
  <2>3. queue' \subseteq queue /\ missed' \subseteq missed \cup queue /\ epoch' \in Nat
    BY DEF Relay, Tick, chainVars, TypeOK
  <2> QED
    BY <2>1, <2>2, <2>3 DEF TypeOK
<1>3. DenialNamesServe' /\ FirstIsPosted' /\ Numbered'
  BY <1>1, QuietKeepsHistory
<1>4. TypeOK' /\ Between'
  BY <1>1, <1>2 DEF TypeOK, Between
<1>5. Rounds' /\ QueueIsCurrent'
  BY <1>1, <1>2 DEF Rounds, QueueIsCurrent
<1> QED
  BY <1>3, <1>4, <1>5 DEF RunRest

LEMMA ServedStays ==
  ASSUME RunInv, [Next]_vars, posted' = posted
  PROVE  ServedIsCommitted'
<1> SUFFICES ASSUME NEW ev \in posted PROVE at'[ev.mem] = Committed
  BY DEF ServedIsCommitted
<1>1. ev.mem \in Mem /\ at[ev.mem] = Committed /\ LifecycleTypeOK
  BY DEF RunInv, TypeOK, Event, ServedIsCommitted
<1> QED
  BY <1>1, StepOfLifecycle, CommittedStays

(* Served is what h.memories holds between two lifecycles.                 *)
LEMMA ServedStep == RunInv /\ [Next]_vars => ServedIsCommitted'
<1> SUFFICES ASSUME RunInv, [Next]_vars PROVE ServedIsCommitted'
  OBVIOUS
<1>1. CASE \E m \in Mem : RecordServe(m)
  <2>1. PICK m \in Mem : RecordServe(m)
    BY <1>1
  <2>2. /\ posted' = posted \cup {EventNow("serve", m, sent + 1)}
        /\ pc = "traffic" /\ m \in pool /\ UNCHANGED at
    BY <2>1 DEF RecordServe, Record, lifecycleVars
  <2>3. EventNow("serve", m, sent + 1).mem = m
    BY DEF EventNow
  <2>4. at[m] = Committed
    BY <2>2 DEF RunInv, Between, LifecycleInv, PoolDone, Working
  <2> QED
    BY <2>2, <2>3, <2>4 DEF RunInv, ServedIsCommitted
<1>2. CASE RecordDenial
  <2>1. PICK s \in posted : posted' = posted \cup {EventNow("denial", s.mem, s.n)}
    BY <1>2 DEF RecordDenial, DenyLast, Record
  <2>2. EventNow("denial", s.mem, s.n).mem = s.mem /\ UNCHANGED at
    BY <1>2 DEF RecordDenial, DenyLast, EventNow, lifecycleVars
  <2> QED
    BY <2>1, <2>2 DEF RunInv, ServedIsCommitted
<1>3. CASE posted' = posted
  BY <1>3, ServedStays
<1>4. (\E m \in Mem : RecordServe(m)) \/ RecordDenial \/ posted' = posted
  BY DEF Next, HarnessStep, Environment, Traffic, SeedBegins, StartEpoch, StartAt, Lifecycle,
         TrafficEnds, DrainServeRelay, LeaveDrain, WaitEpochAdvance, SanityCheck, NextEpoch,
         MeasureSurvival, Fail, FailIn, Phases, Hub, OrgEpochMoves, Relay, Tick, relayVars, vars
<1> QED
  BY <1>1, <1>2, <1>3, <1>4

LEMMA RunInvStep == RunInv /\ [Next]_vars => RunInv'
<1> SUFFICES ASSUME RunInv, [Next]_vars PROVE RunInv'
  OBVIOUS
<1>1. LifecycleInv'
  BY StepOfLifecycle, LifecycleInvStep DEF RunInv
<1>2. ServedIsCommitted'
  BY ServedStep
<1>3. RunRest'
  <2>1. LifecycleTypeOK'
    BY <1>1 DEF LifecycleInv
  <2>2. CASE UNCHANGED vars
    BY <2>2, <2>1, QuietKeepsHistory
    DEF vars, harnessVars, relayVars, chainVars, lifecycleVars, RunInv, RunRest, TypeOK, Between,
        Rounds, QueueIsCurrent
  <2>3. CASE \E m \in Mem : RecordServe(m)
    BY <2>1, <2>3, RecordServeKeepsRest
  <2>4. CASE RecordDenial
    BY <2>1, <2>4, RecordDenialKeepsRest
  <2>5. CASE StartEpoch \/ NextEpoch \/ DrainServeRelay \/ WaitEpochAdvance
               \/ SanityCheck \/ MeasureSurvival \/ TrafficEnds \/ Fail
    BY <2>1, <2>5, LoopKeepsRest
  <2>6. CASE SeedBegins \/ Lifecycle \/ Hub \/ OrgEpochMoves
    BY <2>1, <2>6, LifecycleKeepsRest
  <2>7. CASE (\E ev \in queue : Relay(ev)) \/ Tick
    BY <2>1, <2>7, OutsideKeepsRest
  <2> QED
    BY <2>2, <2>3, <2>4, <2>5, <2>6, <2>7 DEF Next, HarnessStep, Environment, Traffic
<1> QED
  BY <1>1, <1>2, <1>3 DEF RunInv, RunRest

(* The invariant of the run, on which the theorems below rest.             *)
THEOREM RunInvHolds == Spec => []RunInv
  BY RunInvInit, RunInvStep, PTL DEF Spec

-----------------------------------------------------------------------------
(* The state of a run always has its type; so there are never more serves  *)
(* in an epoch than configured.                                            *)
THEOREM RunTyping == Spec => []TypeOK
<1>1. RunInv => TypeOK
  BY DEF RunInv
<1> QED
  BY <1>1, RunInvHolds, PTL

(* recordServe and recordDenial only name memories the chain has           *)
(* committed, those of the epoch's own contributions included.             *)
THEOREM ServesAreCommitted == Spec => []ServedIsCommitted
<1>1. RunInv => ServedIsCommitted
  BY DEF RunInv
<1> QED
  BY <1>1, RunInvHolds, PTL

(* recordDenial refers to an accepted serve of the same memory, and to     *)
(* each at most once.                                                      *)
THEOREM DenialsNameServes == Spec => []DenialNamesServe
<1>1. RunInv => DenialNamesServe
  BY DEF RunInv
<1> QED
  BY <1>1, RunInvHolds, PTL

(* sanityCheckServesReachChain comes after the drain, so it raises no      *)
(* false alarm.                                                            *)
THEOREM SanityRaisesNoAlarm == Spec => []SanityHolds
<1>1. RunInv => SanityHolds
  BY DEF RunInv, QueueIsCurrent, FirstIsPosted, SanityHolds, FirstServeLanded, Landed
<1> QED
  BY <1>1, RunInvHolds, PTL

-----------------------------------------------------------------------------
(* The run implements the pacing its comments promise.                     *)

LEMMA PacedInit == Init => Paced!Init
  BY DEF Init, Paced!Init

LEMMA PacedStep == RunInv /\ [Next]_vars => [Paced!Next]_<<e, queue>>
<1> SUFFICES ASSUME RunInv, [Next]_vars PROVE [Paced!Next]_<<e, queue>>
  OBVIOUS
<1> USE DEF Paced!Next
<1>1. CASE (\E m \in Mem : RecordServe(m)) \/ RecordDenial
  <2>1. PICK kind, m, n : Record(EventNow(kind, m, n))
    BY <1>1 DEF RecordServe, RecordDenial, DenyLast
  <2>2. queue' = queue \cup {EventNow(kind, m, n)} /\ EventNow(kind, m, n).iter = e
    BY <2>1 DEF Record, EventNow
  <2>3. UNCHANGED e
    BY <1>1 DEF RecordServe, RecordDenial, DenyLast
  <2> QED
    BY <2>2, <2>3 DEF Paced!Produce
<1>2. CASE NextEpoch
  BY <1>2 DEF NextEpoch, RunInv, QueueIsCurrent, Paced!NextRound, relayVars
<1>3. CASE \E ev \in queue : Relay(ev)
  BY <1>3 DEF Relay, harnessVars, Paced!Land
<1>4. CASE UNCHANGED <<e, queue>>
  BY <1>4
<1>5. \/ \E m \in Mem : RecordServe(m)
      \/ RecordDenial \/ NextEpoch
      \/ \E ev \in queue : Relay(ev)
      \/ UNCHANGED <<e, queue>>
  BY DEF Next, HarnessStep, Environment, Traffic, SeedBegins, StartEpoch, StartAt, Lifecycle,
         TrafficEnds, DrainServeRelay, LeaveDrain, WaitEpochAdvance, SanityCheck,
         MeasureSurvival, Fail, FailIn, Phases, Hub, OrgEpochMoves, Tick, relayVars, harnessVars, vars
<1> QED
  BY <1>1, <1>2, <1>3, <1>4, <1>5

(* drainServeRelay paces the relay: no iteration begins before all traffic *)
(* of the one before it has landed.                                        *)
THEOREM RunIsPaced == Spec => PacedSpec
  BY PacedInit, PacedStep, RunInvHolds, PTL DEF Spec, PacedSpec, Paced!Spec

-----------------------------------------------------------------------------
(* The settle window.                                                      *)

(* A chain that is Settle epochs past the one the harness read got there   *)
(* during this iteration.                                                  *)
Lag ==
  /\ pc \in Window /\ stamp + Settle <= epoch => e \in slow
  /\ SettleWindowHolds

LEMMA LagInit == Init => Lag
  BY DEF Init, Lag, Window, SettleWindowHolds

LEMMA LagStep == RunInv /\ Lag /\ [Next]_vars => Lag'
<1> SUFFICES ASSUME RunInv, Lag, [Next]_vars PROVE Lag'
  OBVIOUS
<1>1. /\ epoch \in Nat /\ stamp \in Nat /\ Settle \in Nat \ {0} /\ queue \subseteq posted
  BY RunAssumption DEF RunInv, TypeOK
<1>2. CASE (\E m \in Mem : RecordServe(m)) \/ RecordDenial
  <2>1. PICK kind, m, n : Record(EventNow(kind, m, n))
    BY <1>2 DEF RecordServe, RecordDenial, DenyLast
  <2>2. pc = "traffic" /\ UNCHANGED <<pc, e, stamp, epoch, slow>>
    BY <1>2 DEF RecordServe, RecordDenial, DenyLast, chainVars
  <2>3. EventNow(kind, m, n).stamp = stamp /\ EventNow(kind, m, n).iter = e
    BY DEF EventNow
  <2>4. \A ev \in missed' : ev \in missed \/ (ev.iter = e /\ stamp + Settle <= epoch)
    BY <2>1, <2>3 DEF Record
  <2> QED
    BY <2>2, <2>4 DEF Lag, Window, SettleWindowHolds
<1>3. CASE Tick
  <2>1. /\ pc \notin Over /\ epoch' = epoch + 1 /\ UNCHANGED <<pc, e, stamp, queue>>
        /\ missed' = missed \cup {ev \in queue : ev.stamp + Settle <= epoch + 1}
        /\ slow' = IF pc \in Window /\ stamp + Settle <= epoch + 1 THEN slow \cup {e} ELSE slow
    <3>1. epoch' = epoch + 1 /\ epoch' # epoch
      BY <1>1, <1>3 DEF Tick
    <3>2. pc \notin Over
      BY <3>1 DEF Next, vars, chainVars
    <3> QED
      BY <1>3, <3>1, <3>2 DEF Tick, harnessVars
  <2>2. \A ev \in queue : ev.stamp = stamp /\ ev.iter = e /\ pc \in Window
    BY <1>1, <2>1 DEF RunInv, QueueIsCurrent, Rounds, Over, Window
  <2>3. SettleWindowHolds'
    BY <2>1, <2>2 DEF Lag, SettleWindowHolds
  <2> QED
    BY <2>1, <2>3 DEF Lag
<1>4. CASE StartEpoch
  <2>1. stamp' = epoch /\ UNCHANGED <<epoch, missed, slow>>
    BY <1>4 DEF StartEpoch, StartAt, relayVars, chainVars
  <2> QED
    BY <1>1, <2>1 DEF Lag, SettleWindowHolds
<1>5. CASE UNCHANGED <<e, stamp, epoch, slow, missed>> /\ (pc' \in Window => pc \in Window)
  BY <1>5 DEF Lag, SettleWindowHolds
<1>6. CASE SeedBegins \/ Hub \/ OrgEpochMoves \/ (\E ev \in queue : Relay(ev))
             \/ UNCHANGED vars
  BY <1>5, <1>6 DEF SeedBegins, Hub, OrgEpochMoves, Relay, vars, harnessVars, relayVars, chainVars
<1>7. CASE Lifecycle \/ TrafficEnds \/ DrainServeRelay \/ WaitEpochAdvance
             \/ SanityCheck \/ MeasureSurvival \/ Fail
  <2>1. UNCHANGED <<e, stamp, epoch, slow, missed>>
    BY <1>7 DEF Lifecycle, TrafficEnds, DrainServeRelay, LeaveDrain, WaitEpochAdvance, SanityCheck,
                MeasureSurvival, Fail, FailIn, Phases, chainVars, relayVars
  <2>2. CASE pc = "seed" /\ pc' = "traffic"
    BY <1>7, <2>2 DEF Lifecycle, TrafficEnds, DrainServeRelay, LeaveDrain, WaitEpochAdvance,
                      SanityCheck, MeasureSurvival, Fail, FailIn, Phases, Goto
  <2>3. pc' \in Window => pc \in Window \cup {"seed"} /\ (pc = "seed" => pc' = "traffic")
    BY <1>7 DEF Lifecycle, TrafficEnds, DrainServeRelay, LeaveDrain, WaitEpochAdvance, SanityCheck,
                MeasureSurvival, Fail, FailIn, Phases, Goto, Window
  <2> QED
    BY <1>5, <2>1, <2>2, <2>3
<1>8. CASE NextEpoch
  <2>1. UNCHANGED <<missed, slow>> /\ pc' \notin Window
    BY <1>8 DEF NextEpoch, chainVars, relayVars, Window
  <2> QED
    BY <2>1 DEF Lag, SettleWindowHolds
<1> QED
  BY <1>2, <1>3, <1>4, <1>6, <1>7, <1>8 DEF Next, HarnessStep, Environment, Traffic

(* "So the settle window holds": an iteration during which the chain       *)
(* advances less than Settle epochs, from the reading of its epoch to the  *)
(* end of the drain, loses no traffic, whatever the other iterations took. *)
THEOREM TrafficIsAssessed == Spec => []SettleWindowHolds
<1>1. Lag => SettleWindowHolds
  BY DEF Lag
<1> QED
  BY <1>1, LagInit, LagStep, RunInvHolds, PTL DEF Spec
=============================================================================
