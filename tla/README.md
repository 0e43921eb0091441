# A verification project for wevibe-meta

`wevibe-meta` holds what surrounds the WeVibe products (hub, chain, MCP server, dashboards, each in a
repository of its own): the empirical replay of the Earned-Trust model against a live stack, the gate that
decides from it, the simulators it is compared with, and the scripts that run the stack on one host. These
modules model that code in TLA+. TLC checks them on small instances; TLAPS proves the most important
properties for every value of the constants. Paths below are relative to the repository.

## 1. The system

### Components, their state and operations

| Component | State | Operations | Hard because |
|---|---|---|---|
| Single-flight lock (`scripts/empirical_replay/main.go` 175-283) | a file with a process id | acquire (create exclusively, or probe the owner and remove), release, exit without release | processes interleave between system calls; kills leave the file; process ids are reused |
| Organisation setup and fixtures (`main.go` 336-372, 559-672, 808-953) | the hub's roles and keywords; `h.keywordSet` | preflight, create, invite, look the epoch up, register and list keywords; draw a fixture | a success answer without a body says nothing about what took effect; weights are rounded |
| Memory lifecycle (`main.go` 674-806, `lifecycle.go`) | the hub's state of each submission; `h.memories`, `memoryMeta` | seed, contribute; post a request per memory, wait for an exact state, next request | the hub moves by itself; the batch can fail in part; cohort and contributions share data structures |
| Epoch loop, traffic, relay (`main.go` 336-557, 955-1127, 1360-1407, 1653-1683) | loop counter, stamp, the hub's queue, the chain's clock | read the epoch, contribute, serve, deny, drain, wait, check | three clocks (harness, relay, chain); a stamp read early is used late |
| Throughput samples (`main.go` 392-465, 1409-1452) | two heights per epoch, totals | read a height, count a block, take or skip a sample | the chain goes on while it is counted; any request can fail half way |
| Survival measurement (`main.go` 469-516, 1190-1351, 1587-1612) | counters, a window of gaps | checkpoint, early stop, final measurement | a survey is a loop of requests while the chain archives |
| Replay gate (`scripts/replay-gate.sh`, `Makefile` 46-66) | records, failure count, the host's stack | run a cell with eight ways out, report | everything is shared by the host; failures leave things up |
| Simulators (`scripts/sim-*.js`) | memories with weighted keywords | contribute, query, decay, archive | integer-free arithmetic, boundaries of grace and threshold |
| Host scripts (`start.sh`, `stop.sh`, `clear.sh`) | pid files, processes, chain home, logs | start, stop, clear | interrupts between spawn and pid file; stale files; corruption recovery |
| Supervisors (`scripts/mcp-supervisor.sh`, `dashboard-backend.sh`, `contributor-dashboard.sh`, launchd template, `Makefile` 46-119) | launchd's job, servers, ports, builds, a cache | up, down, restart, build, redeploy | `bootout` only begins to end a job; `KeepAlive` replaces what is killed; a server that is starting up is at no port |
| Test library and scenarios (`tests/`) | one JSON file | load, merge, save | lost updates |
| Hub, chain, MCP server, dashboards | - | - | other repositories, external here |

### How they interact

The gate runs the simulator's baseline, brings a stack up with `make docker-up-fast`, starts the harness
under a timeout and takes the stack down. The harness takes the lock, creates an organisation, drives its
memories through the hub, then makes traffic epoch after epoch; the hub relays it to the chain, the chain
assesses it when its settle window is over and archives memories; the harness asks the hub which of them
are archived and prints a gap. The dashboards are served by a launchd agent and a dev server, which
`make redeploy` restarts on what it has just built. The gate compares that gap with the simulator's. Everything the harness
knows of the chain it knows through the hub, by polling.

### What makes each correct

* Lock: one run at a time; a live run is never taken for a stale one; every start is decided.
* Setup: nothing is submitted before its organisation and its keywords are there; no fixture fails the run.
* Throughput: no block is counted twice, and nothing of a sample that is skipped.
* Lifecycle: requests never overtake the hub; nothing is served before it is committed; the measured cohort
  is exactly the seeds; no batch is left half way.
* Epoch loop: traffic lands before it is assessed unless the chain outruns the iteration that made it;
  denials name a serve, and no serve is denied twice; the sanity check raises no false alarm; the run ends.
* Measurement: a survey that is not atomic still bounds the truth; an early stop is justified and not
  flattering.
* Gate: one record per cell; PASS means all cells; a judged replay had a stack of its own.
* Simulator: grace is each memory's own; neglect archives on schedule, undenied retrieval never sooner;
  archival is final; denied serves never pay.
* Host scripts: one chain and one hub whatever was interrupted; stopped means stopped; cleared means clean;
  only a corrupt chain is reset.
* Supervisors: what is reported up is loaded, and not older than the script saw; what is reported down stays
  down unless launchd refused; the dashboard never runs on a cache older than the stack.

## 2. Modules

| Module | Models | Composed with |
|---|---|---|
| `ReplayLock` | the lock, one system call per step | - |
| `OrgSetup` | what the harness does before its first submission | extended by `Seeding` |
| `MemoryLifecycle` | seeding and contributions | extended by `Seeding` and `ReplayRun` |
| `Seeding` | the setup and the lifecycles, as `harness.run` composes them; implements `MemoryLifecycle` | extends both, and `KeywordFixtures` |
| `KeywordFixtures` | the arithmetic of the fixtures' keywords and weights: pure operators | extended by `Seeding` |
| `PacedTraffic` | abstract: rounds of traffic, none before the last has landed | refined by `ReplayRun` |
| `ReplayRun` | one run: phases of `harness.run`, hub relay, chain clock | extends `MemoryLifecycle`, instantiates `PacedTraffic` |
| `SurvivalMonitor` | checkpoints, early stop, measurement | extended by `Throughput` |
| `Throughput` | the epochs between the checkpoints with their throughput samples; implements `SurvivalMonitor` | extends `SurvivalMonitor` |
| `ReplayGate` | gates on one host, with the harness and its lock in outline | - |
| `EarnedTrust` | the canonical simulator | - |
| `HostStack` | start.sh, stop.sh, clear.sh | - |
| `Supervisors` | the three supervisor scripts and `make redeploy`, launchd and the servers | - |
| `ReplayLockProofs`, `HarnessProofs`, `SurvivalMonitorProofs`, `ReplayGateProofs`, `EarnedTrustProofs`, `HostStackProofs`, `SupervisorsProofs` | theorems | extend their component; `HarnessProofs` extends `Seeding` and `ReplayRun` |
| `Lemmas` | what several of the proofs rest on: sums by folds, scripts as sequences of steps | extended by the four that use it |
| `MC*` | symmetry sets and constants for TLC | extend their component |

Definitions called "faulty variant" in the comments are not part of any specification: each is a plausible
bug in the definition that follows it, kept to show that the properties would notice it.

### How state and actions correspond to the code

* **ReplayLock.** `pc[p]` is the system call a process is at; `lock` is the file with the process that
  created it (a process that writes after its file was unlinked does not write to the path) and whether the
  id is written; `seen` is the id `os.ReadFile` gave, `attempt` the loop counter. `Create`/`CreateExists`
  are `os.OpenFile(O_CREATE|O_EXCL)` at line 199, `ReadOwner` and `OwnerGone`/`Refuse` are
  `replayLockOwnedByRunningProcess`, `RemoveStale` line 232, `Release` the deferred function, `RunFails` is
  `os.Exit(1)` at 188, which skips it. `Kill` is the gate's timeout; `ForeignStart` gives a process id to
  another program.
  `raced` remembers that a start found another one acquiring: the serial
  properties speak of behaviours in which that never happened.
* **OrgSetup, Seeding.** `setup` is the next call of `harness.run` and `seedMemories`. Every request goes
  through `doJSON`, whose answer has a body, none, or is an error; with a body the hub has done what it was
  asked, otherwise it may or may not have (`DoJSON`). `role` and `registered` are the hub's, `keywordSet` is
  the harness's. In `Seeding` each request needs the role its signature has in the hub.
* **KeywordFixtures.** Weights in units of 1/10000, as `generateFixtureKeywordWeights` computes them before
  it divides; `FixturesAreValid` checks every draw over the given raw weights.
* **MemoryLifecycle.** `at` is the state the hub's listing shows, `asked` how far the harness's requests
  allow a memory to go, `stage` the loop or wait of `seedMemories`/`influxContributorMemories` and `todo`
  what its loop still has to post. `pool` is `h.memories`: a seed joins at submission, a contribution at
  the end. `LifecycleFails` is every error, timeout and the watchdog.
* **ReplayRun.** `pc` is the phase of `harness.run`, `stamp` is `currentEpoch` as read at line 397, `queue`
  what the hub has not relayed, `posted`/`missed` histories. `Tick` is a chain epoch: what is stamped
  `Settle` epochs ago is assessed. It may happen at any time and as often as it likes; `slow` remembers the
  iterations in which it happened often enough, between the reading of the epoch (397) and the end of the
  drain (423), for the settle window to be over. A request of the hub has a number (`req`), so that the same
  denial posted twice is two events.
* **SurvivalMonitor.** `i` is the position in `h.memories`, `present` what this survey counted, `gaps` is
  `checkpointGapsPP`. Percentages are kept as numerators over `Scale`, which is exact.
* **Throughput.** `place` is where an epoch is with its sample, `next` the loop variable of the count;
  a request that fails leaves the epoch without a sample. `Elsewhere` and `EndOfEpoch` are the steps of
  `SurvivalMonitor`.
* **ReplayGate.** `pc[g]` is the place in `run_cell`; `Finish` is `record_result` with the main loop's
  counting. `stack` numbers the volumes, so that a leftover stack is told from a fresh one; `home` and
  `strayed` remember which stacks a replay used.
* **EarnedTrust.** Weights are counted in `1/Unit` so that the code's fractions are integers (`Unit` is
  divisible by `10*n*n` for every number `n` of events up to `MaxEvents`, 36000 for six); random draws are
  any draws. `Score`, `Ranked`, `Query` are lines 119-207 of `sim-baseline-perseed.js`, `Decayed` is
  `applyDecay`, `EpochEnds` 209-215, `Cohort` 218.
* **HostStack.** A script is the sequence `todo` of its steps; mitigation puts further steps in front. A
  process told to end by `pkill` is `dying` and goes on for a while; `kill_pid` waits and kills. The hub
  is started in a subshell, so its pid file names the subshell or the program, as the shell decides. Where
  `init-chain.sh` or the binary for it is missing the script goes on without a home (`InitChain`), and a reset
  that could not remove the home goes on with it (`RemoveHome`).
* **Supervisors.** A script is the sequence `todo` of its steps, as in `HostStack`; a `bootstrap` that fails
  replaces itself by what the script does then (`Instead`). `job` is launchd's record of the agent: loaded,
  told to leave, or gone; launchd may refuse a `bootout` or an `unload`, which every script swallows
  (`|| true`) and `refused` remembers; `server` says of every process whether it is starting up or listening, and which
  build (or which wiped cache) it has in memory. `KeepAlive` and `Listen` are launchd's and the servers' own.

## 3. Runs

| Run | Asks | Instance |
|---|---|---|
| `lock` | one run at a time, no live run robbed, two passes suffice as long as no starts race; when they race, overlap only by a removed file; every acquisition is decided | 2 process ids, kills, reuse |
| `lock_overlap` (violation) | is the lock single-flight when starts race? | 3 process ids |
| `lifecycle` | setup before submission, order of requests, commitment, cohort, fixtures, the harness comes back or ends | 3 seeds, 2 batches of 2 contributions, 2 keywords, organisation epoch moving; fixtures of 3 to 7 of 8 keywords, raw weights 5, 37, 100 |
| `replay_run` | pacing (refinement of `PacedTraffic`), what misses its assessment, sanity check, denials, termination | 1 seed, 1 contribution per epoch, 2 epochs, 2 serves per epoch, chain epochs up to 3, settle window 2 |
| `monitor` | no block counted twice, surveys and gap bounded, early stop justified and conservative | 4 memories (1 bad, 1 unknown to the hub), 5 epochs, 3 blocks |
| `gate` | own stack, record per cell, meaning of PASS, every gate reports, gates one after the other | 2 gates, one cell given twice, 3 stacks |
| `gate_shared` (violation) | does a second gate leave an active replay its stack? | 2 gates, 1 cell |
| `trust` | grace, archival schedule, finality, denials | 1 seed, 1 contribution per epoch, 4 epochs, 2 keywords |
| `trust_cohort` (violation) | is the measured cohort the initial one? | the same |
| `host` | one instance, stop, start, pid files, clear | 4 process ids, 3 scripts |
| `host_reset` (violation) | is only a corrupt chain reset? | 2 process ids, 3 scripts |
| `supervisors` | up is fresh and kept alive, down stays down unless launchd refuses, the dashboard's cache is wiped | 4 scripts, 2 builds, 2 rebuilds |

### Bounds, and why they are enough

* Lock: an overlap needs a victim, a robber and the run that profits. Two process ids, reused without limit,
  contain it in `lock` (a robber runs itself); `lock_overlap` has three. The safety properties are proved for
  any number. `MaxAttempts` is the code's 2.
* Setup: two keywords are the least of which one can be missing; the fixtures' raw weights contain both ends
  of the range the code draws from (5 and 100) and one in between, `QSize` 3 and `MaxKw` 7 are the code's. The
  theorem about the fixtures is for every draw, and any `MaxKw` up to 500, beyond which a share may round to zero.
  The vocabulary of 50 is cut to 8, one more than a fixture can name, so that keywords are chosen.
* Lifecycle: a batch of two is the smallest that can be in two states at once, two batches the smallest
  number in which contributions meet earlier ones; the hub is limited by the requests, not by a bound.
* Run: two iterations let traffic of one be compared with the clock of the next; two serves let a denial be
  relayed out of order and name the wrong serve. Nothing is assumed of the chain's pace. `Settle` 2 tells a
  quick iteration from a slow one; with `MaxEpoch` 3 the first iteration can be slow and the second quick,
  or the first quick and the second slow, so that a backlog the first had left would harm the second.
* Monitor: five checkpoints make the window of three move twice. The tolerance of 34 lies between the
  gaps one archived memory makes, so that both answers occur.
* Throughput: three blocks are shared out over five epochs in every way; each block holds a power of two of
  transactions, so that a sum says which blocks it is made of.
* Gate: a cell repeated is the case where the first record and the verdict could disagree; three stacks
  allow one leftover per gate and a fresh one.
* Trust: `MaxWeight` 2500 is two idle epochs above the threshold 1500 (the code has 10000), so that four
  epochs contain a grace, a decay and an archival; `MaxEvents` cuts histories at six serves and denials per
  memory.
* Host: `MaxRuns` 3 is an incident, its repair and a later start; four process ids hold a chain, its
  successor, a hub and its subshell.
* Supervisors: four scripts are a server of an old build, a build, a failed or interrupted script, and the one
  that reports; two builds and two rebuilds tell old from new at every place where both can be.

`CHECK_DEADLOCK FALSE` is set where the system stops: a run that is over, a gate that has reported, a
simulation at its end. The lock and the host scripts never stop.

### Fairness

`ReplayLock` assumes that a started process is scheduled (weak fairness of its own acquisition steps);
nobody is made to start, and no run to end. `Seeding` and `ReplayRun` assume that the harness goes on or
fails: every wait of it has a timeout (`waitForLifecycleState`, `drainServeRelay`, `waitEpochAdvance`, the
HTTP client's, the watchdog of `ensureWithinWatchdog`), so that one of the two is always possible. Nothing is
assumed of the hub or the chain. `ReplayGate` assumes that a gate goes on: `run_with_timeout` kills a harness
or a baseline at its deadline, and `make` targets return, with or without success; that the harness returns
is not assumed. The other modules have no liveness property: what they model is an operator's scripts, which
anybody may leave half way.

### What the violations show

* `lock_overlap`: two starts find a stale file; the first removes it and creates its own, the second
  removes that one (`main.go` 232 removes a path, not the file that was probed). The same happens with a file
  just created and not yet written, which counts as stale (250-252).
* `gate_shared`: `replay-gate.sh` 198 takes the stack down, volumes included, before its harness learns
  that another replay is active.
* `trust_cohort`: contributions of epoch 0 carry `createdEpoch` 0 and are measured with the initial
  cohort (106 memories instead of 100 in the heavy regime); the comment in `sim-trajectory.js` 134-135 says
  the opposite, and the replay measures the seeds only.
* `host_reset`: `start.sh` 49 looks for corruption in a log that is appended to for ever; once it has been
  there, the next start on which the chain needs more than 30 seconds removes a healthy chain.

The models contain more disagreements between the code and what it says of itself. They have no run of their own;
the properties are stated so that they hold in spite of them, and say so:

* **The settle window does not always hold.** `main.go` 402-407 says that drain pacing "keeps the (heavier)
  traffic inside the settle window", and 420-422 that the wait "bounds relay lag to ~one epoch so the settle
  window holds". The epoch is read at 397; the contributions' waits, the traffic and the drain follow, each
  with a timeout of its own, and nothing stops the chain meanwhile. In the model `missed` is not empty when
  the chain goes on by `Settle` epochs in between, and the run notices nothing. `SettleWindowHolds` is what
  the pacing does give: only such an iteration loses traffic, and none suffers from an earlier one.
* **A denial's epoch is stale.** 1110-1111 want "the live chain epoch", the code sends the one read at 397
  (`RecordDenial` takes `stamp`). `DenialNamesServe` says nothing of a denial's stamp.
* **A down can be reported of a loaded agent.** `dashboard-backend.sh` 70-72 swallows a failing `bootout`, and
  114 prints "agent unloaded; KeepAlive will NOT respawn"; `mcp-supervisor.sh` 141-148 tries `unload`, swallows that,
  too, and then looks at the port only, which is also free while launchd brings a server back. `DownStaysDown`
  holds unless that happened (`refused`).
* A failed run leaves its lock file, and when its process id goes to another program the next start is refused
  though no replay is active (`main.go` 188, `Refuse`).
* A batch submission of which the hub leaves some out without counting them as failed is not noticed
  (`lifecycle.go` 112-125 does not compare `Submitted` with the batch); the wait for the commitment ends it.
* A server of an old build that somebody started by hand answers the supervisors' health checks, so that
  `:4451` can still be "silently stale" (`Makefile` 94-96) after `backend-restart`, which does not free the
  port (`BackendIsFresh` speaks of the agent for that reason).

## 4. Proofs

Nothing is assumed but the named `ASSUME`s on the constants, which the runs evaluate. Every safety invariant
and every action property that a passing run checks has a theorem, and so have the three refinements
(`SeedingIsLifecycle`, `RunIsPaced`, `ThroughputIsMonitoring`). TLC checked the inductive
invariants on the runs' instances before they were proved (not `TotalsInv`, whose sum is an unbounded `CHOOSE`).

* **`ReplayLockProofs`** - `Typing`, `RacingOverlap`, and as long as no starts have raced `UnracedRunsAlone`,
  `UnracedHolderOwnsFile`, `UnracedNeverExhausted`. `SerialSingleFlight` is not inductive: that a start removes
  only dead files depends on what it concluded two system calls ago still being true. `SerialInv` says so
  (`ProbeStaysTrue`), with one acquirer at a time (`OneAcquirer`), the holder's file being in place
  (`HolderOwnsFile`) and nobody putting a removed file back (`SecondPassFindsNoFile`). The racing theorem
  needs only `HoldsOrRobbed`.
* **`HarnessProofs`**, in four parts.
  * *The lifecycle*: `Typing`, `InOrder`, `ServableIsCommitted`, `CohortIsTheSeed`, for any cohort, rate and
    number of contributions. The invariant `LifecycleInv` says where the batch is in each stage (`InStage`:
    asked up to the stage's target, or not yet and waiting in the state before; but for the commitment,
    for which the hub may have left some out unasked), which is why a wait for an
    *exact* state is enough, and keeps the two kinds of memories apart (`Tagged`, `OneKind`): the tag decides,
    not the epoch, so a contribution made in the epoch of the seeding is not measured.
  * *The setup*: the composition implements the lifecycle (`SeedingIsLifecycle`), so `SeedingInOrder`,
    `SeedingServesCommitted` and `SeedingMeasuresSeeds` follow. `SetUpFirst`: nothing is submitted before its
    setup, for any vocabulary and any hub that confirms what it did not do; its invariant `SetupInv` adds that
    nothing is asked for before `setup` is "ready", and that the epoch lookup has seen the organisation, which
    is what makes an unread invitation or creation harmless.
  * *The fixtures*: `NoFixtureFails`, for every number of keywords and every raw weight the code can draw.
    `generateFixtureKeywordWeights` rounds every share but the last down and gives the last what is left. Each
    rounding loses less than one unit, so the last weight is at least the last keyword's own share and at
    most all the roundings more: it is positive, the sum is exact, and `validateKeywordFixture` has nothing to
    refuse. The fold takes the weights in an order nothing is known about, so the
    argument is about what a fold must compute and not about how it goes (`Lemmas`).
  * *The run*: `ServesAreCommitted`, `DenialsNameServes`, `SanityRaisesNoAlarm`, `TrafficIsAssessed` (for a chain
    that goes on at any pace) and the refinement `RunIsPaced`. Every step of the run is a step
    of the lifecycle or leaves it alone (`StepOfLifecycle`), so `LifecycleInv` holds in it; `RunInv` adds that
    what has not landed is of the current iteration and is only outstanding while it is produced or drained
    (`QueueIsCurrent`), that an iteration's traffic bears the epoch it read (`Rounds`), and that a serve
    which may still be denied has not been (`Numbered`).
    `Lag` is what makes `SettleWindowHolds` inductive: while the harness is between the reading of the epoch
    and the end of the drain, either the chain is less than the settle window ahead or the iteration is
    recorded in `slow`; outside nothing is queued that a tick could find unlanded.
* **`SurvivalMonitorProofs`** - `SurveysAreBounded`, `ReportedGapIsBounded`. The invariant `SurveyInv` bounds
  every survey in progress between what survived at its beginning and what survives now, up to its
  position; the gap follows because shares grow with the set counted. `EarlyStopsAreJustified`: that a stop has
  three checkpoints within the tolerance behind it is a fact about the past, which `WindowInv` (the code's
  window of gaps is that of the last three checkpoints) and `CadenceInv` (no epoch in which one was due went
  by without one) keep. `EarlyStopsAreConservative`: `StopInv` speaks of the set the deciding
  checkpoint counted, which later surveys no longer have: whatever survived when a later one began is in it,
  since archival is final, so the final survey counts a subset. `ThroughputIsMonitoring` carries all of this
  over to the loop with samples (`SampledSurveysAreBounded`, `SampledGapIsBounded`, `SampledEarlyStops`).
  `NoBlockTwice` shows that no sample is of a block counted before (`SampleInv`: what is counted lies below the height the epoch began at),
  and `TotalsCountBlocksOnce` that the totals printed are the sums over the blocks counted: `TotalsInv` keeps
  the equation in the middle of an epoch's loop, where the blocks read so far are not yet in the total.
* **`ReplayGateProofs`** - `JudgedReplaysAreFresh` (serial gates: the organisation exists exactly on the stack
  its creator used, so a replay that gets through `createOrg` has a stack to itself), `OneResultPerCell` and
  `PassMeansEveryCell` for any number of gates at once and any matrix (the first record of a pair agrees
  with the verdict because a PASS verdict leaves no FAIL record).
* **`EarnedTrustProofs`** - `Typing`, `ReputationBounded`, `GraceForEveryMemory`, `ArchivedOnSchedule`,
  `ArchivalIsFinal`, `DenialOutweighsServe`, for any scenario and any unit. The invariant `TrustInv` adds
  `CountsConsistent` (nothing is served before it exists or after it is archived) and
  `NeglectedOnSchedule` (a neglected memory is *at most* as heavy as the schedule; the property itself
  says *at least*). The key lemma is `DecayOnSchedule`: an epoch costs a memory without denials at most one
  idle step, and a neglected one exactly one.
* **`HostStackProofs`** - `OneOfEach`, `StopStopsAll`, `StartRecordsChain`, `McpServersRecorded`, `ClearClears`, for
  any number of processes, reused ids and scripts, interrupted or not. None of them is inductive: what is
  true of the processes depends on how far the script is. `HostInv` says what has been reached by what is
  left to do: a service is gone between its `pkill` and its start (`InstanceInv`), the
  MCP server's pid file is gone between its `kill_pid` and its next record (`McpInv`), so that no start overwrites
  the record of a server that runs, what `stop.sh` and `clear.sh` have behind them is
  stopped and removed (`StoppedInv`, `ClearedInv`), what `start.sh` has behind it is recorded (`StartedInv`). The
  order of the steps carries it (`WellOrdered`), also when the mitigation of a corrupt chain puts further
  steps in front. The proof sorts the steps of the system into six kinds by what they do to processes and
  files, and shows each part of the invariant for each kind.
* **`SupervisorsProofs`** - `BackendServesItsBuild`, `UpStaysUp`, `DownIsFinal`, `DashboardServesItsStack`, for any
  number of dev servers, builds, stacks and scripts. `SupervisorsInv` has the same form: the agent is loaded and not
  older than the build once no step that loads it is left (`BackendInv`), unloaded once no `bootout` is left
  and launchd has refused none (`DownInv`), and the caches are the stack's once no wipe is left (`DashboardInv`). launchd
  and the servers move in between, so the parts speak of processes that are still starting up as well as of
  those that listen: one of an old build must not be left to begin listening later.
* **`Lemmas`** - *Sums*: `FoldSet` and `FoldFunction` of an addition are the sum, whatever order `CHOOSE` picks the
  elements in. That there is one such sum, and what it is for a set with one element more, is shown by
  induction over the set of the numbers for which it holds (`SetInduction`, from the well-foundedness of `<`),
  which needs no operator as a parameter. *Scripts*: what stays in front of what when a script does a step
  or gets others put in front.

Only model-checked, because the prover has no liveness under fairness: `AcquisitionEnds`, `SeedingEnds`, `RunEnds`
and `GateReports`. The four properties of the violation runs are false, and stay so.

Every module states its types in one definition (`TypeOK`, `LifecycleTypeOK`, `SeedingTypeOK`,
`ThroughputTypeOK`). They are theorems (`Typing`, `SeedingTyping`, `RunTyping`, `SurveyTypesCorrect`,
`ThroughputTypesCorrect`), and no run spends a check on them.

### Assumptions the models make of what is outside

* The hub takes a request only from the identity with the role for it; an answer with a body is honest.
* The serve-queue's answer has a body (an empty one would read as an empty queue, `main.go` 1729-1731).
* The chain's height does not decrease; an epoch's number is in the block that is asked for, or the request
  fails.
* `launchctl load` and `bootstrap` say truly whether they loaded the job; a process that was told to end does
  not begin to listen afterwards. Nothing is assumed of `bootout` and `unload`.
* `init-chain.sh`, which is not in the repository, makes a home or fails; run on a home that a reset could not
  remove it leaves that as it is, or fails.
* `clear.sh` 31 runs `stop.sh || true`; that `stop.sh` ends early by itself, and `clear.sh` goes on, is left
  out. Every command of `stop.sh` that can fail by what it finds is guarded, and an interrupt from the
  terminal ends both. `ClearedIsClean` does not depend on it, `StoppedIsStopped` of `clear.sh` does.

## 5. Not modelled

* Identities, signatures, canonical messages and the plaintext of fixtures in the harness: data nothing
  branches on. `waitForTxCommit` (`main.go` 1500-1564) has no caller.
* Durations and averages: `avgDrainLag` (543-546) is divided by the number of samples and too high when
  samples are skipped; it is only printed.
* The comparison of the survey with the simulator's trajectory in the harness: a printed warning.
* The calibration sweep (`sim-calibration.js`), whose loop differs from the simulators' (idle multiplier by
  adaptation, queries that vary by epoch, survival over all memories); what `sim-baseline-extract.js` measures;
  the pseudo-random generator.
* `scripts/empirical_replay.sh`: one harness, one baseline, a printed difference, in sequence.
* The Makefile's other targets; `status` of the supervisors, which prints; the dashboard in `start.sh`;
  docker containers as such. The launchd template sets no `WEVIBE_UMBRAL_SIDECAR_BIN`, though
  `dashboard-backend.sh` 22-24 says that the plist must carry it and `mcp-supervisor.sh up` regenerates the
  plist from the template: a matter of configuration, not of behaviour over time.
* The test library and the end-to-end tests: test code, whose subject are services outside the repository.
* The hub and the chain themselves: external actions, as liberal as the harness's use of them allows.

## 6. Plan

Done, in this order: lock, lifecycle, run with pacing, measurement, gate, simulator, host scripts; then the
setup and its composition with the lifecycle, the fixtures, the throughput samples, the supervisors, and
liveness of the gate; then proofs of every invariant and action property the runs check.

Next:

1. Composition of `ReplayLock` with `ReplayGate`, so that the gate's outline of the lock is shown to be
   implemented by the detailed one.
2. The calibration strategies as variants of `EarnedTrust`.
