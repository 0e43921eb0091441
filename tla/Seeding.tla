------------------------------- MODULE Seeding -------------------------------
(***************************************************************************)
(* The setup of the organisation and the lifecycles that follow it, as     *)
(* harness.run composes them: OrgSetup up to the epoch lookup, with which  *)
(* seedMemories begins; then the vocabulary; then MemoryLifecycle, whose   *)
(* memories are KeywordFixtures'.  The hub takes a request only from an    *)
(* identity that has the role for it.                                      *)
(***************************************************************************)
EXTENDS OrgSetup, MemoryLifecycle, KeywordFixtures

seedingVars == <<setupVars, lifecycleVars>>

SeedingInit == SetupInit /\ LifecycleInit

(* seedMemories resolves the epoch of the seeds before their vocabulary is *)
(* registered: the organisation's epoch may move on meanwhile.             *)
SeedMemoriesBegins == ResolveSeedEpoch /\ BeginSeed

(* A setup that fails takes the lifecycle down with it, if one has begun.  *)
FailTogether ==
  IF setup' = "failed" /\ stage # "idle" THEN LifecycleFails
  ELSE UNCHANGED lifecycleVars

SetupStep ==
  \/ SeedMemoriesBegins
  \/ (FoundOrg \/ BootstrapVocabulary \/ SetupFails) /\ FailTogether

(* The requests, each signed by the identity the hub expects.              *)
SignedStep ==
  \/ /\ role["contributor"] = "member"
     /\ \E m \in Mem : SeedOneMemory(m)
  \/ /\ role["moderator"] = "moderator"
     /\ \E m \in Mem : ApproveMemory(m)
  \/ /\ role["leader"] = "leader"
     /\ (\E m \in Mem : VerifyKeywords(m)) \/ SubmitChainBatch
  \/ WaitPending \/ WaitPendingKeyword \/ WaitPendingChain \/ WaitCommitted

LifecycleGoesOn ==
  /\ setup = "ready"
  /\ SignedStep \/ LifecycleFails
  /\ UNCHANGED setupVars

HarnessGoesOn == SetupStep \/ LifecycleGoesOn

(* Contributions begin between two epochs' traffic, and only then.         *)
InfluxBegins ==
  /\ setup = "ready"
  /\ BeginInflux
  /\ UNCHANGED setupVars

HubMoves ==
  /\ \/ \E m \in Mem : HubProgress(m)
     \/ RotateEpoch
  /\ UNCHANGED setupVars

SeedingNext == HarnessGoesOn \/ InfluxBegins \/ HubMoves

SeedingSpec ==
  SeedingInit /\ [][SeedingNext]_seedingVars /\ WF_seedingVars(HarnessGoesOn)

-----------------------------------------------------------------------------
(* Properties.                                                             *)

(* Every variable has its type.                                            *)
SeedingTypeOK == SetupTypeOK /\ LifecycleTypeOK

(* Nothing is submitted before its setup: whatever a memory's state in the *)
(* hub, its organisation exists and the hub knows its keywords (or lists   *)
(* none), although the hub may answer what it did not do.                  *)
SetUpBeforeSubmission ==
  (\E m \in Mem : asked[m] # Missing) =>
    /\ role["leader"] = "leader"
    /\ registered = Vocabulary \/ unlisted

(* generateFixtureMemory and validateKeywordFixture: no fixture that can   *)
(* be drawn while memories are submitted makes the run fail.               *)
FixturesNeverFail == stage = "submit" => FixturesAreValid

(* The harness always comes back to its traffic or ends: no step of the    *)
(* setup and no lifecycle, of seeds or of contributions, hangs or is left  *)
(* half way.                                                               *)
Busy == setup \notin {"ready", "failed"} \/ stage \notin {"idle", "failed"}
SeedingEnds ==
  Busy ~> \/ setup = "ready" /\ stage = "idle" /\ batch \subseteq pool
          \/ "failed" \in {setup, stage}
=============================================================================
