-------------------------- MODULE MemoryLifecycle --------------------------
(***************************************************************************)
(* How the replay harness drives a batch of memories through the hub, from *)
(* submission to commitment on the chain (seedMemories in                  *)
(* scripts/empirical_replay/main.go, influxContributorMemories and its     *)
(* helpers in lifecycle.go).                                               *)
(*                                                                         *)
(* The hub moves a memory through the states                               *)
(*   missing, pending, pending_keyword, pending_chain, committed           *)
(* one at a time, some time after the request that allows the move.  The   *)
(* harness posts one request per memory (one for the whole organisation to *)
(* submit to the chain) and, before it posts the next kind of request,     *)
(* polls the hub's listing until EVERY memory of the batch is in EXACTLY   *)
(* the state it expects: a memory that is already further never matches.   *)
(***************************************************************************)
EXTENDS Integers, FiniteSets

CONSTANTS
  Seed,       (* The initMem memories of the initial cohort.               *)
  Contrib,    (* Memories contributed while the run goes on.               *)
  ContRate,   (* REPLAY_CONT_RATE: how many of them join per epoch.        *)
  MaxOrgEpoch (* Bound of the model: the last epoch of the organisation.   *)

ASSUME CohortAssumption == Seed \cap Contrib = {} /\ Seed # {}
ASSUME RateAssumption == ContRate \in Nat
ASSUME OrgEpochAssumption == MaxOrgEpoch \in Nat

Mem == Seed \cup Contrib

(* The states of a memory in the hub, in order.                            *)
Missing == 0
Pending == 1
PendingKeyword == 2
PendingChain == 3
Committed == 4
HubState == Missing .. Committed

VARIABLES
  at,         (* The state the hub's listing shows of each memory.         *)
  asked,      (* The furthest state the harness's requests allow it.       *)
  stage,      (* The loop or wait of the lifecycle the harness is in.      *)
  batch,      (* The memories of this lifecycle: h.memories or batch.      *)
  todo,       (* Those the current loop has still to post a request for.   *)
  pool,       (* h.memories: what traffic may be served from.              *)
  meta,       (* memoryMeta: CreatedEpoch and Contributor of each memory.  *)
  influx,     (* Whether the lifecycle is one of contributions.            *)
  epochID,    (* The organisation's epoch it read when it began.           *)
  seedEpoch,  (* h.seedEpochID; NoEpoch while h.seedEpochSet is false.     *)
  orgEpoch    (* The organisation's current epoch, in the hub.             *)

epochVars == <<influx, epochID, seedEpoch, orgEpoch>>
lifecycleVars == <<at, asked, stage, batch, todo, pool, meta, epochVars>>

NoEpoch == -1
OrgEpoch == 0 .. MaxOrgEpoch
Meta == [created : OrgEpoch \cup {NoEpoch}, contributor : BOOLEAN]

Stages == {"idle", "submit", "approve", "verify", "batch", "commit", "failed"}

(* The state the harness waits for when the loop of a stage is over.       *)
Target(s) ==
  CASE s = "submit"  -> Pending
    [] s = "approve" -> PendingKeyword
    [] s = "verify"  -> PendingChain
    [] OTHER         -> Committed

LifecycleInit ==
  /\ at = [m \in Mem |-> Missing]
  /\ asked = [m \in Mem |-> Missing]
  /\ stage = "idle"
  /\ batch = {}
  /\ todo = {}
  /\ pool = {}
  /\ meta = [m \in Mem |-> [created |-> NoEpoch, contributor |-> FALSE]]
  /\ influx = FALSE
  /\ epochID = NoEpoch
  /\ seedEpoch = NoEpoch
  /\ orgEpoch \in OrgEpoch

-----------------------------------------------------------------------------
(* The harness.                                                            *)

(* A lifecycle begins with the organisation's epoch of the moment.         *)
Begin(B, isInflux) ==
  /\ stage = "idle"
  /\ stage' = "submit"
  /\ batch' = B
  /\ todo' = B
  /\ influx' = isInflux
  /\ epochID' = orgEpoch
  /\ UNCHANGED <<at, asked, pool, meta, orgEpoch>>

(* seedMemories begins, once, with the initial cohort.                     *)
BeginSeed ==
  /\ seedEpoch = NoEpoch
  /\ Begin(Seed, FALSE)
  /\ seedEpoch' = orgEpoch

(* influxContributorMemories takes the next ContRate fixtures; with no     *)
(* contributions configured it returns at once.                            *)
BeginInflux ==
  /\ seedEpoch # NoEpoch
  /\ ContRate > 0
  /\ \E B \in SUBSET {m \in Contrib : asked[m] = Missing} :
        Cardinality(B) = ContRate /\ Begin(B, TRUE)
  /\ UNCHANGED seedEpoch

(* The request of stage s for memory m is accepted.                        *)
Post(s, m) ==
  /\ stage = s
  /\ m \in todo
  /\ asked' = [asked EXCEPT ![m] = Target(s)]
  /\ todo' = todo \ {m}
  /\ UNCHANGED <<at, stage, batch, epochVars>>

(* Faulty variant: contributions are not tagged as such.                   *)
SeedOneMemoryUntagged(m) ==
  /\ Post("submit", m)
  /\ meta' = [meta EXCEPT ![m] = [created |-> epochID, contributor |-> FALSE]]
  /\ pool' = IF influx THEN pool ELSE pool \cup {m}

(* A seed joins h.memories as soon as it is submitted, a contribution only *)
(* when the whole lifecycle is over.                                       *)
SeedOneMemory(m) ==
  /\ Post("submit", m)
  /\ meta' = [meta EXCEPT ![m] = [created |-> epochID, contributor |-> influx]]
  /\ pool' = IF influx THEN pool ELSE pool \cup {m}

ApproveMemory(m) == Post("approve", m) /\ UNCHANGED <<pool, meta>>

VerifyKeywords(m) == Post("verify", m) /\ UNCHANGED <<pool, meta>>

(* Faulty variant: the wait ends when one memory has reached the state.    *)
WaitForSomeState(s, next) ==
  /\ stage = s
  /\ todo = {}
  /\ \E m \in batch : at[m] = Target(s)
  /\ stage' = next
  /\ todo' = batch
  /\ UNCHANGED <<at, asked, batch, meta, epochVars>>

(* waitForLifecycleState finds the whole batch in the awaited state, and   *)
(* the next stage goes through the batch again.                            *)
WaitForLifecycleState(s, next) ==
  /\ stage = s
  /\ todo = {}
  /\ \A m \in batch : at[m] = Target(s)
  /\ stage' = next
  /\ todo' = batch
  /\ UNCHANGED <<at, asked, batch, meta, epochVars>>

WaitPending == WaitForLifecycleState("submit", "approve") /\ UNCHANGED pool
WaitPendingKeyword == WaitForLifecycleState("approve", "verify") /\ UNCHANGED pool
WaitPendingChain == WaitForLifecycleState("verify", "batch") /\ UNCHANGED pool

(* Faulty variant: the run goes on without waiting for the commitment.     *)
SubmitChainBatchOnly ==
  /\ stage = "batch"
  /\ LET ready == {m \in Mem : at[m] = PendingChain}
     IN /\ asked' = [m \in Mem |-> IF m \in ready THEN Committed ELSE asked[m]]
        /\ stage' = IF ready # {} THEN "idle" ELSE "failed"
  /\ todo' = {}
  /\ pool' = pool \cup batch
  /\ UNCHANGED <<at, batch, meta, epochVars>>

(* The hub submits what the organisation has pending for the chain.  It    *)
(* answers how many it submitted and how many failed; any failure, and an  *)
(* empty submission, end the run.  A submission that leaves some out       *)
(* without a failure is not noticed: their commitment is waited for.       *)
SubmitChainBatch ==
  /\ stage = "batch"
  /\ LET ready == {m \in Mem : at[m] = PendingChain}
     IN \E submitted \in SUBSET ready : \E failed \in SUBSET (ready \ submitted) :
          /\ asked' = [m \in Mem |-> IF m \in submitted THEN Committed ELSE asked[m]]
          /\ stage' = IF failed = {} /\ submitted # {} THEN "commit" ELSE "failed"
  /\ todo' = {}
  /\ UNCHANGED <<at, batch, pool, meta, epochVars>>

(* The last wait is over: the batch belongs to h.memories.                 *)
WaitCommitted ==
  /\ WaitForLifecycleState("commit", "idle")
  /\ pool' = pool \cup batch

(* Faulty variant: the waits have no timeout.                              *)
LifecycleFailsPosting ==
  /\ stage \notin {"idle", "failed"}
  /\ todo # {}
  /\ stage' = "failed"
  /\ UNCHANGED <<at, asked, batch, todo, pool, meta, epochVars>>

(* A request fails, its answer reports an error, a wait runs into its      *)
(* timeout or the watchdog expires: the run is over, nothing is retried.   *)
LifecycleFails ==
  /\ stage \notin {"idle", "failed"}
  /\ stage' = "failed"
  /\ UNCHANGED <<at, asked, batch, todo, pool, meta, epochVars>>

LifecycleStep ==
  \/ \E m \in Mem : SeedOneMemory(m) \/ ApproveMemory(m) \/ VerifyKeywords(m)
  \/ WaitPending \/ WaitPendingKeyword \/ WaitPendingChain
  \/ SubmitChainBatch \/ WaitCommitted

-----------------------------------------------------------------------------
(* The hub, and the chain behind it: a memory moves on once it may.        *)
HubProgress(m) ==
  /\ at[m] < asked[m]
  /\ at' = [at EXCEPT ![m] = @ + 1]
  /\ UNCHANGED <<asked, stage, batch, todo, pool, meta, epochVars>>

(* The organisation's epoch moves on, whatever the harness is doing.       *)
RotateEpoch ==
  /\ orgEpoch < MaxOrgEpoch
  /\ orgEpoch' = orgEpoch + 1
  /\ UNCHANGED <<at, asked, stage, batch, todo, pool, meta>>
  /\ UNCHANGED <<influx, epochID, seedEpoch>>

-----------------------------------------------------------------------------
(* isInitialCohortMemory: the memories whose survival is measured.         *)
InitialCohort(m) == ~meta[m].contributor /\ meta[m].created = seedEpoch

-----------------------------------------------------------------------------
LifecycleNext ==
  \/ BeginSeed \/ BeginInflux
  \/ LifecycleStep \/ LifecycleFails
  \/ (\E m \in Mem : HubProgress(m)) \/ RotateEpoch

LifecycleSpec == LifecycleInit /\ [][LifecycleNext]_lifecycleVars

-----------------------------------------------------------------------------
(* Properties.                                                             *)

(* Every variable has its type.                                            *)
LifecycleTypeOK ==
  /\ at \in [Mem -> HubState]
  /\ asked \in [Mem -> HubState]
  /\ stage \in Stages
  /\ batch \in SUBSET Mem
  /\ todo \in SUBSET batch
  /\ pool \in SUBSET Mem
  /\ meta \in [Mem -> Meta]
  /\ influx \in BOOLEAN
  /\ epochID \in OrgEpoch \cup {NoEpoch}
  /\ seedEpoch \in OrgEpoch \cup {NoEpoch}
  /\ orgEpoch \in OrgEpoch

(* No request is posted for a memory before the hub shows the memory in    *)
(* the state the request starts from: the waits between the loops of       *)
(* requests do what they are there for.                                    *)
RequestsInOrder == \A m \in Mem : asked[m] <= at[m] + 1

(* R-ONE-PATH, "a memory cannot be served or measured before it is         *)
(* committed": when the harness goes back to its traffic everything it may *)
(* serve from has been committed.                                          *)
PoolCommitted == stage = "idle" => \A m \in pool : at[m] = Committed

(* Survival is measured over the initial cohort, all of it and nothing     *)
(* else, also when contributions are made in the epoch of the seeding.     *)
CohortIsSeed ==
  stage = "idle" /\ seedEpoch # NoEpoch => {m \in pool : InitialCohort(m)} = Seed
=============================================================================
