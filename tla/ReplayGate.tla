----------------------------- MODULE ReplayGate -----------------------------
(***************************************************************************)
(* The replay gate (scripts/replay-gate.sh): for every cell of a matrix of *)
(* traffic regimes and seeds it computes the simulator's baseline, brings  *)
(* up a stack with empty volumes, runs the replay harness against it under *)
(* a timeout, takes the stack down and compares the two gaps.  The gate    *)
(* passes when every cell does.                                            *)
(*                                                                         *)
(* Gates share the host's one stack, the organisation "empirical-replay-   *)
(* org" the harness always uses, and the harness's lock file; ReplayLock   *)
(* has the lock in detail and ReplayRun and SurvivalMonitor the harness.   *)
(***************************************************************************)
EXTENDS Integers, Sequences, FiniteSets

CONSTANTS
  Gate,       (* The invocations of the script.                            *)
  NoGate,
  Cells,      (* The matrix: the sequence of <<regime, seed>> it goes      *)
              (* through, regime by regime.                                *)
  MaxStacks   (* Bound of the model: stacks ever created.                  *)

ASSUME CellsAssumption == Cells \in Seq(STRING \X Int) /\ Len(Cells) > 0
ASSUME GateAssumption == NoGate \notin Gate
ASSUME StackAssumption == MaxStacks \in Nat

VARIABLES
  pc,         (* Where each gate is, or Over.                              *)
  cell,       (* The cell it is at.                                        *)
  log,        (* What its replay log has of the cell's result.             *)
  exit,       (* How the cell's harness ended; "none" before.              *)
  results,    (* RESULTS, with the harness's exit as a history.            *)
  fails,      (* FAIL_COUNT.                                               *)
  matrix,     (* The summary matrix it printed: the status of each pair.   *)
  verdict,    (* The overall verdict, "none" before.                       *)
  stack,      (* The number of the running stack's volumes; 0: none.       *)
  stacks,     (* How many there have been.                                 *)
  org,        (* Whether the organisation exists on the running stack.     *)
  lock,       (* The gate whose harness the lock file names, or NoGate.    *)
  home,       (* History: the stack the harness created its org on.        *)
  strayed     (* History: whether it has used another one since.           *)

gateVars == <<cell, results, fails, matrix, verdict>>
stackVars == <<stack, stacks, org>>
harnessVars == <<log, exit, lock, home, strayed>>
vars == <<pc, gateVars, stackVars, harnessVars>>

Running == {"locked", "traffic", "survey", "printed"}
Idle == {"ready", "killed", "reported"}
Phases == Idle \cup Running \cup
          {"baseline", "down", "up", "start", "teardown", "metrics", "report"}
Logs == {"none", "result"}
Exits == {"none", "ok", "failed"}
Status == {"PASS", "FAIL"}

Pairs == {Cells[n] : n \in DOMAIN Cells}
Result == [pair : Pairs, status : Status, exit : Exits]

Init ==
  /\ pc = [g \in Gate |-> "ready"]
  /\ cell = [g \in Gate |-> 1]
  /\ log = [g \in Gate |-> "none"]
  /\ exit = [g \in Gate |-> "none"]
  /\ results = [g \in Gate |-> <<>>]
  /\ fails = [g \in Gate |-> 0]
  /\ matrix = [g \in Gate |-> <<>>]
  /\ verdict = [g \in Gate |-> "none"]
  /\ stack = 0
  /\ stacks = 0
  /\ org = FALSE
  /\ lock = NoGate
  /\ home = [g \in Gate |-> 0]
  /\ strayed = [g \in Gate |-> FALSE]

Goto(g, from, to) ==
  /\ pc[g] = from
  /\ pc' = [pc EXCEPT ![g] = to]

-----------------------------------------------------------------------------
(* run_cell.                                                               *)

(* record_result and what the main loop does with run_cell's return code.  *)
Finish(g, status) ==
  /\ results' = [results EXCEPT ![g] =
                   Append(@, [pair |-> Cells[cell[g]], status |-> status, exit |-> exit[g]])]
  /\ fails' = [fails EXCEPT ![g] = IF status = "PASS" THEN @ ELSE @ + 1]
  /\ cell' = [cell EXCEPT ![g] = @ + 1]
  /\ pc' = [pc EXCEPT ![g] = IF cell[g] = Len(Cells) THEN "report" ELSE "baseline"]
  /\ UNCHANGED <<matrix, verdict>>

(* The configuration is valid and the binary and the images are built.     *)
Begin(g) ==
  /\ Goto(g, "ready", "baseline")
  /\ UNCHANGED <<gateVars, stackVars, harnessVars>>

(* The baseline is computed and parsed and the trajectory written; any of  *)
(* them may fail, and then nothing is run.                                 *)
Baseline(g) ==
  /\ pc[g] = "baseline"
  /\ \/ Goto(g, "baseline", "down") /\ UNCHANGED gateVars
     \/ Finish(g, "FAIL")
  /\ log' = [log EXCEPT ![g] = "none"]
  /\ exit' = [exit EXCEPT ![g] = "none"]
  /\ UNCHANGED <<stackVars, lock, home, strayed>>

TakeDown ==
  /\ stack' = 0
  /\ org' = FALSE
  /\ UNCHANGED stacks

(* What is left of the stack before is taken down first; that this may     *)
(* fail is ignored ("|| true").                                            *)
DockerDown(g) ==
  /\ Goto(g, "down", "up")
  /\ TakeDown \/ UNCHANGED stackVars
  /\ UNCHANGED <<gateVars, harnessVars>>

(* docker compose up leaves a running stack as it is and otherwise creates *)
(* one with empty volumes.                                                 *)
BringUp ==
  IF stack # 0
  THEN UNCHANGED stackVars
  ELSE /\ stacks < MaxStacks
       /\ stacks' = stacks + 1
       /\ stack' = stacks + 1
       /\ org' = FALSE

(* The services become healthy, or the cell fails and leaves behind what   *)
(* has come up.                                                            *)
DockerUp(g) ==
  /\ pc[g] = "up"
  /\ \/ BringUp /\ Goto(g, "up", "start") /\ UNCHANGED gateVars
     \/ (BringUp \/ UNCHANGED stackVars) /\ Finish(g, "FAIL")
  /\ UNCHANGED harnessVars

-----------------------------------------------------------------------------
(* The harness, as a child of run_with_timeout.                            *)

LockFree == lock = NoGate \/ pc[lock] \notin Running

(* It acquires the lock, also that of a harness which is gone, or exits.   *)
Start(g) ==
  /\ IF LockFree
     THEN /\ Goto(g, "start", "locked")
          /\ lock' = g
          /\ UNCHANGED exit
     ELSE /\ Goto(g, "start", "teardown")
          /\ exit' = [exit EXCEPT ![g] = "failed"]
          /\ UNCHANGED lock
  /\ UNCHANGED <<gateVars, stackVars, log, home, strayed>>

(* Faulty variant: an organisation that exists is used.                    *)
CreateOrgOrReuse(g) ==
  /\ Goto(g, "locked", "traffic")
  /\ stack # 0
  /\ org' = TRUE
  /\ home' = [home EXCEPT ![g] = stack]
  /\ strayed' = [strayed EXCEPT ![g] = org]
  /\ UNCHANGED <<gateVars, stack, stacks, log, exit, lock>>

(* createOrg: the hub refuses an identifier that is taken.  The history    *)
(* has it that an organisation found there would not be the run's own.     *)
CreateOrg(g) ==
  /\ Goto(g, "locked", "traffic")
  /\ stack # 0
  /\ ~org
  /\ org' = TRUE
  /\ home' = [home EXCEPT ![g] = stack]
  /\ strayed' = [strayed EXCEPT ![g] = org]
  /\ UNCHANGED <<gateVars, stack, stacks, log, exit, lock>>

(* Seeding and traffic: requests that succeed need the organisation.       *)
Traffic(g) ==
  /\ Goto(g, "traffic", "survey")
  /\ org
  /\ strayed' = [strayed EXCEPT ![g] = @ \/ stack # home[g]]
  /\ UNCHANGED <<gateVars, stackVars, log, exit, lock, home>>

(* The survey needs the hub only: a memory it does not know has survived.  *)
(* Then the result is printed.                                             *)
Survey(g) ==
  /\ Goto(g, "survey", "printed")
  /\ stack # 0
  /\ strayed' = [strayed EXCEPT ![g] = @ \/ stack # home[g]]
  /\ log' = [log EXCEPT ![g] = "result"]
  /\ UNCHANGED <<gateVars, stackVars, exit, lock, home>>

(* The harness releases the lock and exits, in time.                       *)
HarnessReturns(g) ==
  /\ Goto(g, "printed", "teardown")
  /\ lock' = IF lock = g THEN NoGate ELSE lock
  /\ exit' = [exit EXCEPT ![g] = "ok"]
  /\ UNCHANGED <<gateVars, stackVars, log, home, strayed>>

(* Faulty variant: the deadline is only looked at after a line of output,  *)
(* and a harness that waits for the hub prints none.                       *)
HarnessFailsUnlessSilent(g) ==
  /\ pc[g] \in Running \ {"locked"}
  /\ pc' = [pc EXCEPT ![g] = "teardown"]
  /\ exit' = [exit EXCEPT ![g] = "failed"]
  /\ UNCHANGED <<gateVars, stackVars, log, lock, home, strayed>>

(* An error ends the harness, or run_with_timeout kills it, be its result  *)
(* in the log or not; neither releases the lock.                           *)
HarnessFails(g) ==
  /\ pc[g] \in Running
  /\ pc' = [pc EXCEPT ![g] = "teardown"]
  /\ exit' = [exit EXCEPT ![g] = "failed"]
  /\ UNCHANGED <<gateVars, stackVars, log, lock, home, strayed>>

-----------------------------------------------------------------------------
(* Faulty variant: a failed replay is judged by what its log holds.        *)
TeardownAnyExit(g) ==
  /\ pc[g] = "teardown"
  /\ \/ /\ TakeDown
        /\ pc' = [pc EXCEPT ![g] = "metrics"]
        /\ UNCHANGED gateVars
     \/ Finish(g, "FAIL") /\ UNCHANGED stackVars
  /\ UNCHANGED harnessVars

(* Faulty variant: a stack that stays up is no failure, and not recorded.  *)
TeardownUnrecorded(g) ==
  /\ pc[g] = "teardown"
  /\ \/ /\ TakeDown
        /\ IF exit[g] = "failed"
           THEN Finish(g, "FAIL")
           ELSE pc' = [pc EXCEPT ![g] = "metrics"] /\ UNCHANGED gateVars
     \/ /\ pc' = [pc EXCEPT ![g] = IF cell[g] = Len(Cells) THEN "report" ELSE "baseline"]
        /\ cell' = [cell EXCEPT ![g] = @ + 1]
        /\ fails' = [fails EXCEPT ![g] = @ + 1]
        /\ UNCHANGED <<results, matrix, verdict, stackVars>>
  /\ UNCHANGED harnessVars

(* The stack is taken down before the harness's exit code is looked at: a  *)
(* stack that stays up fails the cell too.                                 *)
Teardown(g) ==
  /\ pc[g] = "teardown"
  /\ \/ /\ TakeDown
        /\ IF exit[g] = "failed"
           THEN Finish(g, "FAIL")
           ELSE pc' = [pc EXCEPT ![g] = "metrics"] /\ UNCHANGED gateVars
     \/ Finish(g, "FAIL") /\ UNCHANGED stackVars
  /\ UNCHANGED harnessVars

(* The result the log has is compared with the contract and the baseline;  *)
(* the cell fails too when it cannot be read from the log.                 *)
Metrics(g) ==
  /\ pc[g] = "metrics"
  /\ \E status \in Status : (log[g] # "result" => status = "FAIL") /\ Finish(g, status)
  /\ UNCHANGED <<stackVars, harnessVars>>

-----------------------------------------------------------------------------
(* lookup_result: the first record of the pair.                            *)
LookupResult(g, pair) ==
  LET ofPair == {n \in DOMAIN results[g] : results[g][n].pair = pair}
  IN IF ofPair = {} THEN "FAIL"
     ELSE results[g][CHOOSE n \in ofPair : \A k \in ofPair : n <= k].status

(* The results file, the summary matrix and the verdict.                   *)
Report(g) ==
  /\ Goto(g, "report", "reported")
  /\ matrix' = [matrix EXCEPT ![g] = [pair \in Pairs |-> LookupResult(g, pair)]]
  /\ verdict' = [verdict EXCEPT ![g] = IF fails[g] > 0 THEN "FAIL" ELSE "PASS"]
  /\ UNCHANGED <<cell, results, fails, stackVars, harnessVars>>

(* The script is interrupted, and the harness with it; what it has done to *)
(* the host stays.                                                         *)
Interrupt(g) ==
  /\ pc[g] \notin Idle
  /\ pc' = [pc EXCEPT ![g] = "killed"]
  /\ UNCHANGED <<gateVars, stackVars, harnessVars>>

Harness(g) == Start(g) \/ CreateOrg(g) \/ Traffic(g) \/ Survey(g)
              \/ HarnessReturns(g) \/ HarnessFails(g)
RunCell(g) == Baseline(g) \/ DockerDown(g) \/ DockerUp(g) \/ Harness(g)
              \/ Teardown(g) \/ Metrics(g)
Step(g) == Begin(g) \/ RunCell(g) \/ Report(g) \/ Interrupt(g)

Next == \E g \in Gate : Step(g)

(* Any number of gates at a time.                                          *)
Spec == Init /\ [][Next]_vars

(* One gate at a time, as the script is meant to be used.                  *)
SerialNext ==
  \E g \in Gate : Step(g) /\ \A h \in Gate \ {g} : pc[h] \in Idle

(* Nothing but the operator stops a gate: commands return, and the harness *)
(* is killed at its deadline if it does not.                               *)
Fairness == \A g \in Gate : WF_vars(RunCell(g) \/ Report(g))
SerialSpec == Init /\ [][SerialNext]_vars /\ Fairness

-----------------------------------------------------------------------------
(* Properties.                                                             *)

(* Every variable has its type; the status recorded for a cell is PASS or  *)
(* FAIL on each of run_cell's exits.                                       *)
TypeOK ==
  /\ pc \in [Gate -> Phases]
  /\ cell \in [Gate -> 1 .. Len(Cells) + 1]
  /\ log \in [Gate -> Logs]
  /\ exit \in [Gate -> Exits]
  /\ results \in [Gate -> Seq(Result)]
  /\ fails \in [Gate -> 0 .. Len(Cells)]
  /\ \A g \in Gate : matrix[g] \in [Pairs -> Status] \cup {<<>>}
  /\ verdict \in [Gate -> Status \cup {"none"}]
  /\ stacks \in 0 .. MaxStacks /\ stack \in 0 .. stacks
  /\ org \in BOOLEAN
  /\ lock \in Gate \cup {NoGate}
  /\ home \in [Gate -> 0 .. MaxStacks]
  /\ strayed \in [Gate -> BOOLEAN]

(* Whichever of run_cell's exits a cell takes it leaves exactly one record *)
(* behind, its own, and the count of failures is that of the records.      *)
ResultPerCell ==
  \A g \in Gate :
    /\ Len(results[g]) = cell[g] - 1
    /\ \A n \in DOMAIN results[g] : results[g][n].pair = Cells[n]
    /\ fails[g] = Cardinality({n \in DOMAIN results[g] : results[g][n].status # "PASS"})

(* "OVERALL VERDICT: PASS (n/n cells passed)" means that the replay of     *)
(* each cell ended in time and without an error and passed, and that the   *)
(* matrix printed above the verdict says so.                               *)
VerdictMeansAll ==
  \A g \in Gate : verdict[g] = "PASS" =>
    /\ \A n \in DOMAIN Cells :
         /\ n \in DOMAIN results[g]
         /\ results[g][n] = [pair |-> Cells[n], status |-> "PASS", exit |-> "ok"]
    /\ \A pair \in Pairs : matrix[g][pair] = "PASS"

(* A cell whose replay is judged was measured from its first request to    *)
(* its last on one stack, which no replay had used before: stacks left up  *)
(* by failed cells and interrupted gates do not leak into later results.   *)
JudgedOnOwnStack ==
  \A g \in Gate : pc[g] = "metrics" => ~strayed[g] /\ home[g] # 0

(* A gate that is not interrupted reports, whatever its cells run into: a  *)
(* stack that does not come up, one that is in the way, an organisation    *)
(* that is taken, a lock that is held, a harness that hangs.               *)
GateReports ==
  \A g \in Gate : pc[g] # "ready" ~> pc[g] \in {"reported", "killed"}

(* acquireReplaySingleFlightLock: "another replay run is active; stop it   *)
(* before starting a new run" - while a replay holds the lock and runs no  *)
(* other run takes its stack away.                                         *)
ActiveRunKeepsStack ==
  [][\A g \in Gate : pc[g] \in {"traffic", "survey"} => stack' = stack]_vars
=============================================================================
