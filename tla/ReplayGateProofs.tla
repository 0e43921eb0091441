-------------------------- MODULE ReplayGateProofs ---------------------------
(***************************************************************************)
(* Proofs about ReplayGate, for any matrix and any number of gates: what   *)
(* is recorded of the cells, what a verdict of PASS means, and, for gates  *)
(* that run one after the other, that a judged replay had a stack of its   *)
(* own.                                                                    *)
(***************************************************************************)
EXTENDS ReplayGate, FiniteSetTheorems, WellFoundedInduction, TLAPS

-----------------------------------------------------------------------------
(* One gate at a time.                                                     *)

WithOrg == {"traffic", "survey", "printed"}
Judged == {"teardown", "metrics"}

(* The gate whose harness has created the organisation is the only one     *)
(* that is not idle, and the stack it did that on still runs; once the     *)
(* replay is over the stack is of no more use, but it is known to have     *)
(* been the right one.                                                     *)
SerialInv ==
  /\ pc \in [Gate -> Phases]
  /\ home \in [Gate -> Nat]
  /\ strayed \in [Gate -> BOOLEAN]
  /\ exit \in [Gate -> Exits]
  /\ stack \in Nat /\ stacks \in Nat
  /\ \A g, h \in Gate : g # h => pc[g] \in Idle \/ pc[h] \in Idle
  /\ \A g \in Gate : pc[g] \in WithOrg =>
       org /\ stack # 0 /\ home[g] = stack /\ ~strayed[g]
  /\ \A g \in Gate : pc[g] \in Judged /\ (pc[g] = "metrics" \/ exit[g] # "failed") =>
       ~strayed[g] /\ home[g] # 0

LEMMA SerialInvInit == Init => SerialInv
  BY DEF Init, SerialInv, Phases, Idle, Running, Exits, WithOrg, Judged

LEMMA FinishMoves ==
  ASSUME NEW g \in Gate, NEW status, Finish(g, status)
  PROVE  \E q \in {"report", "baseline"} : pc' = [pc EXCEPT ![g] = q]
  BY DEF Finish

LEMMA SerialInvStep == SerialInv /\ [SerialNext]_vars => SerialInv'
<1> SUFFICES ASSUME SerialInv, [SerialNext]_vars PROVE SerialInv'
  OBVIOUS
<1> USE DEF Phases, Idle, Running, Exits, WithOrg, Judged
<1>1. CASE UNCHANGED vars
  BY <1>1 DEF vars, gateVars, stackVars, harnessVars, SerialInv
<1>2. ASSUME NEW g \in Gate, Step(g), \A h \in Gate \ {g} : pc[h] \in Idle
      PROVE  SerialInv'
  <2> USE <1>2 DEF SerialInv
  <2>1. CASE Begin(g)
    BY <2>1 DEF Begin, Goto, gateVars, stackVars, harnessVars
  <2>2. CASE Baseline(g)
    <3>1. PICK q \in {"report", "baseline", "down"} : pc' = [pc EXCEPT ![g] = q]
      BY <2>2, FinishMoves DEF Baseline, Goto
    <3>2. /\ exit' = [exit EXCEPT ![g] = "none"]
          /\ UNCHANGED <<stack, stacks, org, home, strayed>>
          /\ pc[g] = "baseline"
      BY <2>2 DEF Baseline, stackVars
    <3> QED
      BY <3>1, <3>2
  <2>3. CASE DockerDown(g)
    BY <2>3 DEF DockerDown, Goto, TakeDown, gateVars, stackVars, harnessVars
  <2>4. CASE DockerUp(g)
    <3>1. PICK q \in {"report", "baseline", "start"} : pc' = [pc EXCEPT ![g] = q]
      BY <2>4, FinishMoves DEF DockerUp, Goto
    <3>2. UNCHANGED <<exit, home, strayed>> /\ pc[g] = "up"
      BY <2>4 DEF DockerUp, harnessVars
    <3>3. stack' \in Nat /\ stacks' \in Nat
      BY <2>4 DEF DockerUp, BringUp, stackVars
    <3> QED
      BY <3>1, <3>2, <3>3
  <2>5. CASE Start(g)
    BY <2>5 DEF Start, Goto, gateVars, stackVars
  <2>6. CASE CreateOrg(g)
    <3>1. /\ pc' = [pc EXCEPT ![g] = "traffic"]
          /\ home' = [home EXCEPT ![g] = stack]
          /\ strayed' = [strayed EXCEPT ![g] = FALSE]
          /\ stack # 0 /\ org'
          /\ UNCHANGED <<stack, stacks, exit>>
      <4>1. org = FALSE
        BY <2>6 DEF CreateOrg
      <4> QED
        BY <2>6, <4>1 DEF CreateOrg, Goto
    <3>2. org' = TRUE
      BY <2>6 DEF CreateOrg
    <3> QED
      BY <3>1, <3>2
  <2>7. CASE Traffic(g)
    BY <2>7 DEF Traffic, Goto, gateVars, stackVars
  <2>8. CASE Survey(g)
    BY <2>8 DEF Survey, Goto, gateVars, stackVars
  <2>9. CASE HarnessReturns(g)
    BY <2>9 DEF HarnessReturns, Goto, gateVars, stackVars
  <2>10. CASE HarnessFails(g)
    BY <2>10 DEF HarnessFails, gateVars, stackVars
  <2>11. CASE Teardown(g)
    <3>1. /\ UNCHANGED <<exit, home, strayed>> /\ pc[g] = "teardown"
          /\ stack' \in Nat /\ stacks' \in Nat
      BY <2>11 DEF Teardown, TakeDown, harnessVars, stackVars
    <3>2. CASE pc' = [pc EXCEPT ![g] = "metrics"] /\ exit[g] # "failed"
      BY <3>1, <3>2
    <3>3. CASE \E q \in {"report", "baseline"} : pc' = [pc EXCEPT ![g] = q]
      BY <3>1, <3>3
    <3> QED
      BY <2>11, <3>2, <3>3, FinishMoves DEF Teardown
  <2>12. CASE Metrics(g)
    <3>1. PICK q \in {"report", "baseline"} : pc' = [pc EXCEPT ![g] = q]
      BY <2>12, FinishMoves DEF Metrics
    <3>2. UNCHANGED <<stack, stacks, org, exit, home, strayed>>
      BY <2>12 DEF Metrics, stackVars, harnessVars
    <3> QED
      BY <3>1, <3>2
  <2>13. CASE Report(g)
    BY <2>13 DEF Report, Goto, stackVars, harnessVars
  <2>14. CASE Interrupt(g)
    BY <2>14 DEF Interrupt, gateVars, stackVars, harnessVars
  <2> QED
    BY <2>1, <2>2, <2>3, <2>4, <2>5, <2>6, <2>7, <2>8, <2>9, <2>10, <2>11, <2>12,
       <2>13, <2>14 DEF Step, RunCell, Harness
<1> QED
  BY <1>1, <1>2 DEF SerialNext

(* run_cell judges a replay only by what it measured, from createOrg to    *)
(* the last request of the survey, on one stack no replay had used before: *)
(* neither the ignored failure of docker-down nor an interrupted gate can  *)
(* make a later cell read an older chain.                                  *)
THEOREM JudgedReplaysAreFresh == SerialSpec => []JudgedOnOwnStack
<1>1. SerialInv => JudgedOnOwnStack
  BY DEF SerialInv, JudgedOnOwnStack, Judged
<1> QED
  BY <1>1, SerialInvInit, SerialInvStep, PTL DEF SerialSpec

-----------------------------------------------------------------------------
(* Any number of gates at a time: the records.                             *)

NotPassed(s) == {n \in DOMAIN s : s[n].status # "PASS"}

(* A new record counts as one more failure, or as none.                    *)
LEMMA AppendRecord ==
  ASSUME NEW s \in Seq(Result), NEW r \in Result
  PROVE  /\ IsFiniteSet(NotPassed(s))
         /\ Cardinality(NotPassed(Append(s, r))) =
              IF r.status = "PASS" THEN Cardinality(NotPassed(s))
              ELSE Cardinality(NotPassed(s)) + 1
<1>1. /\ DOMAIN s = 1 .. Len(s) /\ Len(s) \in Nat
      /\ DOMAIN Append(s, r) = 1 .. Len(s) + 1
      /\ \A n \in 1 .. Len(s) : Append(s, r)[n] = s[n]
      /\ Append(s, r)[Len(s) + 1] = r
  OBVIOUS
<1>2. IsFiniteSet(NotPassed(s))
  <2>1. IsFiniteSet(1 .. Len(s))
    BY <1>1, FS_Interval
  <2> QED
    BY <1>1, <2>1, FS_Subset DEF NotPassed
<1>3. CASE r.status = "PASS"
  <2>1. NotPassed(Append(s, r)) = NotPassed(s)
    BY <1>1, <1>3 DEF NotPassed
  <2> QED
    BY <1>2, <1>3, <2>1
<1>4. CASE r.status # "PASS"
  <2>1. NotPassed(Append(s, r)) = NotPassed(s) \cup {Len(s) + 1}
    BY <1>1, <1>4 DEF NotPassed
  <2>2. Len(s) + 1 \notin NotPassed(s)
    BY <1>1 DEF NotPassed
  <2> QED
    BY <1>2, <1>4, <2>1, <2>2, FS_AddElement
<1> QED
  BY <1>2, <1>3, <1>4

(* lookup_result finds the first of several records.                       *)
LEMMA LeastNatural ==
  ASSUME NEW T, T \subseteq Nat, T # {}
  PROVE  \E n \in T : \A k \in T : n <= k
<1> DEFINE R == OpToRel(<, Nat)
<1>1. IsWellFoundedOn(R, Nat)
  BY NatLessThanWellFounded
<1>2. PICK n \in T : \A k \in T : ~(<<k, n>> \in R)
  <2> HIDE DEF R
  <2> QED
    BY <1>1, WFMin
<1>3. \A k \in T : ~(k < n)
  BY <1>2 DEF OpToRel
<1> QED
  BY <1>3

Working == Phases \ {"report", "reported", "killed"}

(* A gate at work has a cell to work at, one that reports has done them    *)
(* all; the records are those of the cells done, a failure has been        *)
(* counted for each that did not pass, and none passes unless its harness  *)
(* exited without an error, which is known when its log is read.           *)
RecordInv ==
  /\ pc \in [Gate -> Phases]
  /\ cell \in [Gate -> Nat]
  /\ exit \in [Gate -> Exits]
  /\ results \in [Gate -> Seq(Result)]
  /\ fails \in [Gate -> Nat]
  /\ \A g \in Gate :
       /\ pc[g] \in Working => cell[g] \in 1 .. Len(Cells)
       /\ pc[g] \in {"report", "reported"} => cell[g] = Len(Cells) + 1
       /\ pc[g] = "teardown" => exit[g] \in {"ok", "failed"}
       /\ pc[g] = "metrics" => exit[g] = "ok"
       /\ Len(results[g]) = cell[g] - 1
       /\ \A n \in DOMAIN results[g] :
            /\ results[g][n].pair = Cells[n]
            /\ results[g][n].status = "PASS" => results[g][n].exit = "ok"
       /\ fails[g] = Cardinality(NotPassed(results[g]))

LEMMA RecordInvInit == Init => RecordInv
<1> SUFFICES ASSUME Init PROVE RecordInv
  OBVIOUS
<1>1. Len(Cells) \in Nat /\ Len(Cells) > 0
  BY CellsAssumption
<1>2. NotPassed(<<>>) = {}
  BY DEF NotPassed
<1>3. /\ pc \in [Gate -> Phases] /\ cell \in [Gate -> Nat] /\ exit \in [Gate -> Exits]
      /\ results \in [Gate -> Seq(Result)] /\ fails \in [Gate -> Nat]
  <2>1. results = [g \in Gate |-> <<>>] /\ <<>> \in Seq(Result)
    BY DEF Init
  <2> QED
    BY <2>1 DEF Init, Phases, Idle, Running, Exits
<1>4. \A g \in Gate : /\ pc[g] = "ready" /\ cell[g] = 1
                      /\ results[g] = <<>> /\ fails[g] = 0
  BY DEF Init
<1>5. Len(<<>>) = 0 /\ DOMAIN <<>> = {} /\ Cardinality({}) = 0
  BY FS_EmptySet
<1>6. ASSUME NEW g \in Gate
      PROVE  /\ cell[g] \in 1 .. Len(Cells)
             /\ Len(results[g]) = cell[g] - 1
             /\ DOMAIN results[g] = {}
             /\ fails[g] = Cardinality(NotPassed(results[g]))
  <2>1. cell[g] = 1 /\ results[g] = <<>> /\ fails[g] = 0
    BY <1>4
  <2>2. Cardinality(NotPassed(results[g])) = 0
    BY <1>2, <1>5, <2>1
  <2>3. DOMAIN results[g] = {} /\ Len(results[g]) = 0
    BY <2>1
  <2> QED
    BY <1>1, <2>1, <2>2, <2>3
<1> QED
  BY <1>3, <1>4, <1>6 DEF RecordInv

(* Recording a cell's result keeps the records right, as long as a pass is *)
(* recorded only after the harness's exit has been checked.                *)
LEMMA FinishKeepsRecords ==
  ASSUME RecordInv, NEW g \in Gate, NEW status \in Status, Finish(g, status),
         pc[g] \in Working, status = "PASS" => exit[g] = "ok",
         exit' \in [Gate -> Exits], \A h \in Gate \ {g} : exit'[h] = exit[h]
  PROVE  RecordInv'
<1> DEFINE r == [pair |-> Cells[cell[g]], status |-> status, exit |-> exit[g]]
<1>1. /\ cell[g] \in 1 .. Len(Cells) /\ cell[g] \in Nat /\ Len(Cells) \in Nat
      /\ Len(Cells) > 0
  BY CellsAssumption DEF RecordInv
<1>2. r \in Result /\ r.pair = Cells[cell[g]] /\ r.status = status /\ r.exit = exit[g]
  <2>1. Cells[cell[g]] \in Pairs
    BY <1>1, CellsAssumption DEF Pairs
  <2> QED
    BY <2>1 DEF Result, RecordInv
<1>3. results' = [results EXCEPT ![g] = Append(results[g], r)] /\ results[g] \in Seq(Result)
  BY DEF Finish, RecordInv
<1> HIDE DEF r
<1>4. results' \in [Gate -> Seq(Result)] /\ results'[g] = Append(results[g], r)
  BY <1>2, <1>3 DEF RecordInv
<1>5. /\ Len(results'[g]) = cell'[g] - 1
      /\ \A n \in DOMAIN results'[g] :
           /\ results'[g][n].pair = Cells[n]
           /\ results'[g][n].status = "PASS" => results'[g][n].exit = "ok"
  <2>1. Len(results[g]) = cell[g] - 1 /\ cell'[g] = cell[g] + 1
    BY DEF RecordInv, Finish
  <2>2. /\ DOMAIN results'[g] = 1 .. cell[g]
        /\ DOMAIN results[g] = 1 .. cell[g] - 1
        /\ Len(results'[g]) = cell[g]
        /\ \A n \in 1 .. cell[g] - 1 : results'[g][n] = results[g][n]
        /\ results'[g][cell[g]] = r
    BY <1>1, <1>2, <1>3, <1>4, <2>1
  <2>3. ASSUME NEW n \in DOMAIN results'[g]
        PROVE  /\ results'[g][n].pair = Cells[n]
               /\ results'[g][n].status = "PASS" => results'[g][n].exit = "ok"
    <3>1. CASE n = cell[g]
      BY <1>2, <2>2, <3>1
    <3>2. CASE n # cell[g]
      <4>1. n \in DOMAIN results[g] /\ results'[g][n] = results[g][n]
        BY <1>1, <2>2, <2>3, <3>2
      <4> QED
        BY <4>1 DEF RecordInv
    <3> QED
      BY <3>1, <3>2
  <2> QED
    BY <1>1, <2>1, <2>2, <2>3
<1>6. fails' \in [Gate -> Nat] /\ fails'[g] = Cardinality(NotPassed(results'[g]))
  BY <1>2, <1>3, <1>4, AppendRecord DEF RecordInv, Finish
<1>7. /\ cell' = [cell EXCEPT ![g] = cell[g] + 1]
      /\ pc' = [pc EXCEPT ![g] = IF cell[g] = Len(Cells) THEN "report" ELSE "baseline"]
  BY DEF Finish
<1>8. /\ \A h \in Gate \ {g} :
           /\ results'[h] = results[h] /\ fails'[h] = fails[h]
           /\ cell'[h] = cell[h] /\ pc'[h] = pc[h]
      /\ pc' \in [Gate -> Phases] /\ cell' \in [Gate -> Nat]
  BY <1>1, <1>3, <1>7 DEF RecordInv, Finish, Phases, Idle, Running
<1>9. /\ pc'[g] \in Working => cell'[g] \in 1 .. Len(Cells)
      /\ pc'[g] \in {"report", "reported"} => cell'[g] = Len(Cells) + 1
      /\ pc'[g] \notin {"teardown", "metrics"}
  BY <1>1, <1>7 DEF RecordInv, Working
<1>10. ASSUME NEW h \in Gate
       PROVE  /\ pc'[h] \in Working => cell'[h] \in 1 .. Len(Cells)
              /\ pc'[h] \in {"report", "reported"} => cell'[h] = Len(Cells) + 1
              /\ pc'[h] = "teardown" => exit'[h] \in {"ok", "failed"}
              /\ pc'[h] = "metrics" => exit'[h] = "ok"
              /\ Len(results'[h]) = cell'[h] - 1
              /\ \A n \in DOMAIN results'[h] :
                   /\ results'[h][n].pair = Cells[n]
                   /\ results'[h][n].status = "PASS" => results'[h][n].exit = "ok"
              /\ fails'[h] = Cardinality(NotPassed(results'[h]))
  <2>1. CASE h = g
    BY <1>5, <1>6, <1>9, <2>1
  <2>2. CASE h # g
    BY <1>8, <1>10, <2>2 DEF RecordInv
  <2> QED
    BY <2>1, <2>2
<1> QED
  BY <1>4, <1>6, <1>8, <1>10 DEF RecordInv, NotPassed

(* A step that records nothing keeps them too.                             *)
LEMMA MoveKeepsRecords ==
  ASSUME RecordInv, NEW g \in Gate, NEW q \in Phases, pc' = [pc EXCEPT ![g] = q],
         exit' \in [Gate -> Exits], \A h \in Gate \ {g} : exit'[h] = exit[h],
         UNCHANGED <<cell, results, fails>>,
         q \in Working => pc[g] \in Working,
         q \in {"report", "reported"} => pc[g] \in {"report", "reported"},
         q = "teardown" => exit'[g] \in {"ok", "failed"},
         q = "metrics" => exit'[g] = "ok"
  PROVE  RecordInv'
  BY DEF RecordInv

LEMMA RecordInvStep == RecordInv /\ [Next]_vars => RecordInv'
<1> SUFFICES ASSUME RecordInv, [Next]_vars PROVE RecordInv'
  OBVIOUS
<1>1. CASE UNCHANGED vars
  BY <1>1 DEF vars, gateVars, harnessVars, RecordInv
<1>2. ASSUME NEW g \in Gate, Step(g)
      PROVE  RecordInv'
  <2>1. exit \in [Gate -> Exits] /\ pc[g] \in Phases
    BY DEF RecordInv
  <2> USE DEF Working, Phases, Idle, Running
  <2>2. CASE Begin(g)
    BY <2>1, <2>2, MoveKeepsRecords DEF Begin, Goto, gateVars, harnessVars
  <2>3. CASE Baseline(g)
    <3>1. exit' \in [Gate -> Exits] /\ \A h \in Gate \ {g} : exit'[h] = exit[h]
      BY <2>1, <2>3 DEF Baseline, Exits
    <3>2. CASE Goto(g, "baseline", "down") /\ UNCHANGED gateVars
      BY <3>1, <3>2, MoveKeepsRecords DEF Goto, gateVars
    <3>3. CASE Finish(g, "FAIL")
      BY <2>3, <3>1, <3>3, FinishKeepsRecords DEF Baseline, Status
    <3> QED
      BY <2>3, <3>2, <3>3 DEF Baseline
  <2>4. CASE DockerDown(g)
    BY <2>1, <2>4, MoveKeepsRecords DEF DockerDown, Goto, gateVars, harnessVars
  <2>5. CASE DockerUp(g)
    <3>1. CASE Goto(g, "up", "start") /\ UNCHANGED gateVars
      BY <2>1, <2>5, <3>1, MoveKeepsRecords DEF DockerUp, Goto, gateVars, harnessVars
    <3>2. CASE Finish(g, "FAIL")
      BY <2>1, <2>5, <3>2, FinishKeepsRecords DEF DockerUp, Status, harnessVars
    <3> QED
      BY <2>5, <3>1, <3>2 DEF DockerUp
  <2>6. CASE Start(g)
    <3>1. PICK q \in {"locked", "teardown"} :
            /\ pc' = [pc EXCEPT ![g] = q]
            /\ exit' = IF q = "locked" THEN exit ELSE [exit EXCEPT ![g] = "failed"]
      BY <2>6 DEF Start, Goto
    <3>2. exit' \in [Gate -> Exits] /\ \A h \in Gate \ {g} : exit'[h] = exit[h]
      BY <2>1, <3>1 DEF Exits
    <3>3. UNCHANGED <<cell, results, fails>> /\ pc[g] = "start"
      BY <2>6 DEF Start, Goto, gateVars
    <3>4. q = "teardown" => exit'[g] = "failed"
      BY <2>1, <3>1
    <3> QED
      BY <3>1, <3>2, <3>3, <3>4, MoveKeepsRecords
  <2>7. CASE CreateOrg(g)
    BY <2>1, <2>7, MoveKeepsRecords DEF CreateOrg, Goto, gateVars
  <2>8. CASE Traffic(g)
    BY <2>1, <2>8, MoveKeepsRecords DEF Traffic, Goto, gateVars
  <2>9. CASE Survey(g)
    BY <2>1, <2>9, MoveKeepsRecords DEF Survey, Goto, gateVars
  <2>10. CASE HarnessReturns(g) \/ HarnessFails(g)
    <3>1. PICK how \in {"ok", "failed"} : exit' = [exit EXCEPT ![g] = how]
      BY <2>10 DEF HarnessReturns, HarnessFails
    <3>2. /\ exit' \in [Gate -> Exits] /\ exit'[g] = how
          /\ \A h \in Gate \ {g} : exit'[h] = exit[h]
      BY <2>1, <3>1 DEF Exits
    <3>3. /\ pc' = [pc EXCEPT ![g] = "teardown"] /\ pc[g] \in Running
          /\ UNCHANGED <<cell, results, fails>>
      BY <2>10 DEF HarnessReturns, HarnessFails, Goto, gateVars
    <3> QED
      BY <3>2, <3>3, MoveKeepsRecords
  <2>11. CASE Teardown(g)
    <3>1. pc[g] = "teardown" /\ exit[g] \in {"ok", "failed"} /\ exit' = exit
      BY <2>11 DEF Teardown, RecordInv, harnessVars
    <3>2. CASE Finish(g, "FAIL")
      BY <2>1, <3>1, <3>2, FinishKeepsRecords DEF Status
    <3>3. CASE exit[g] # "failed" /\ pc' = [pc EXCEPT ![g] = "metrics"] /\ UNCHANGED gateVars
      BY <2>1, <3>1, <3>3, MoveKeepsRecords DEF gateVars
    <3> QED
      BY <2>11, <3>2, <3>3 DEF Teardown
  <2>12. CASE Metrics(g)
    <3>1. exit' = exit /\ exit[g] = "ok" /\ pc[g] = "metrics"
      BY <2>12 DEF Metrics, RecordInv, harnessVars
    <3>2. PICK status \in Status : Finish(g, status)
      BY <2>12 DEF Metrics
    <3> QED
      BY <2>1, <3>1, <3>2, FinishKeepsRecords
  <2>13. CASE Report(g)
    BY <2>1, <2>13, MoveKeepsRecords DEF Report, Goto, harnessVars
  <2>14. CASE Interrupt(g)
    BY <2>1, <2>14, MoveKeepsRecords DEF Interrupt, gateVars, harnessVars
  <2> QED
    BY <1>2, <2>2, <2>3, <2>4, <2>5, <2>6, <2>7, <2>8, <2>9, <2>10, <2>11, <2>12,
       <2>13, <2>14 DEF Step, RunCell, Harness
<1> QED
  BY <1>1, <1>2 DEF Next

LEMMA RecordInvAlways == Spec => []RecordInv
  BY RecordInvInit, RecordInvStep, PTL DEF Spec

(* Each of run_cell's exits calls record_result exactly once, and the main *)
(* loop counts the failures among the records.                             *)
THEOREM OneResultPerCell == Spec => []ResultPerCell
<1>1. RecordInv => ResultPerCell
  BY DEF RecordInv, ResultPerCell, NotPassed
<1> QED
  BY <1>1, RecordInvAlways, PTL

-----------------------------------------------------------------------------
(* A gate that has passed has no failure among its records, and printed    *)
(* the matrix of just those.                                               *)
VerdictInv ==
  /\ verdict \in [Gate -> Status \cup {"none"}]
  /\ matrix = [g \in Gate |-> matrix[g]]
  /\ \A g \in Gate : verdict[g] = "PASS" =>
       /\ pc[g] = "reported"
       /\ fails[g] = 0
       /\ matrix[g] = [pair \in Pairs |-> LookupResult(g, pair)]

(* Once it has reported a gate does nothing more, whatever others do.      *)
LEMMA ReportedIsFinal ==
  ASSUME RecordInv, NEW g \in Gate, NEW h \in Gate, Step(g), pc[h] = "reported"
  PROVE  /\ h # g
         /\ pc'[h] = pc[h] /\ fails'[h] = fails[h] /\ results'[h] = results[h]
<1>1. h # g
  BY DEF Step, RunCell, Harness, Begin, Baseline, DockerDown, DockerUp, Start, CreateOrg,
         Traffic, Survey, HarnessReturns, HarnessFails, Teardown, Metrics, Report,
         Interrupt, Goto, Running, Idle
<1>2. \/ UNCHANGED <<fails, results>>
      \/ \E status \in Status : Finish(g, status)
  BY DEF Step, RunCell, Harness, Begin, Baseline, DockerDown, DockerUp, Start, CreateOrg,
         Traffic, Survey, HarnessReturns, HarnessFails, Teardown, Metrics, Report,
         Interrupt, gateVars, Status
<1>3. \E q : pc' = [pc EXCEPT ![g] = q]
  BY DEF Step, RunCell, Harness, Begin, Baseline, DockerDown, DockerUp, Start, CreateOrg,
         Traffic, Survey, HarnessReturns, HarnessFails, Teardown, Metrics, Report,
         Interrupt, Goto, Finish
<1>4. fails'[h] = fails[h] /\ results'[h] = results[h]
  BY <1>1, <1>2 DEF Finish, RecordInv
<1>5. pc'[h] = pc[h]
  BY <1>1, <1>3 DEF RecordInv
<1> QED
  BY <1>1, <1>4, <1>5

(* Only the report sets a verdict and a matrix.                            *)
LEMMA OnlyReportJudges ==
  ASSUME NEW g \in Gate, Step(g)
  PROVE  Report(g) \/ UNCHANGED <<verdict, matrix>>
  BY DEF Step, RunCell, Harness, Begin, Baseline, DockerDown, DockerUp, Start, CreateOrg,
         Traffic, Survey, HarnessReturns, HarnessFails, Teardown, Metrics, Finish,
         Interrupt, gateVars

LEMMA VerdictInvStep == RecordInv /\ VerdictInv /\ [Next]_vars => VerdictInv'
<1> SUFFICES ASSUME RecordInv, VerdictInv, [Next]_vars PROVE VerdictInv'
  OBVIOUS
<1>1. CASE UNCHANGED vars
  <2>1. UNCHANGED <<pc, verdict, matrix, fails, results>>
    BY <1>1 DEF vars, gateVars
  <2>2. \A h \in Gate : \A pair \in Pairs : LookupResult(h, pair)' = LookupResult(h, pair)
    BY <2>1 DEF LookupResult
  <2>3. \A h \in Gate : [pair \in Pairs |-> LookupResult(h, pair)']
                        = [pair \in Pairs |-> LookupResult(h, pair)]
    BY <2>2
  <2> QED
    BY <2>1, <2>3 DEF VerdictInv
<1>2. ASSUME NEW g \in Gate, Step(g)
      PROVE  VerdictInv'
  <2>1. ASSUME NEW h \in Gate, verdict[h] = "PASS"
        PROVE  /\ h # g /\ pc'[h] = "reported" /\ fails'[h] = 0
               /\ results'[h] = results[h]
               /\ matrix[h] = [pair \in Pairs |-> LookupResult(h, pair)']
    <3>1. pc[h] = "reported" /\ fails[h] = 0
          /\ matrix[h] = [pair \in Pairs |-> LookupResult(h, pair)]
      BY <2>1 DEF VerdictInv
    <3>2. h # g /\ pc'[h] = pc[h] /\ fails'[h] = fails[h] /\ results'[h] = results[h]
      BY <1>2, <3>1, ReportedIsFinal
    <3>3. \A pair \in Pairs : LookupResult(h, pair)' = LookupResult(h, pair)
      BY <3>2 DEF LookupResult
    <3> QED
      BY <3>1, <3>2, <3>3
  <2>2. CASE UNCHANGED <<verdict, matrix>>
    BY <2>1, <2>2 DEF VerdictInv
  <2>3. CASE Report(g)
    <3>1. /\ verdict' = [verdict EXCEPT ![g] = IF fails[g] > 0 THEN "FAIL" ELSE "PASS"]
          /\ matrix' = [matrix EXCEPT ![g] = [pair \in Pairs |-> LookupResult(g, pair)]]
          /\ pc' = [pc EXCEPT ![g] = "reported"]
          /\ fails' = fails /\ results' = results
      BY <2>3 DEF Report, Goto
    <3>2. \A h \in Gate : \A pair \in Pairs : LookupResult(h, pair)' = LookupResult(h, pair)
      BY <3>1 DEF LookupResult
    <3>3. /\ verdict' \in [Gate -> Status \cup {"none"}]
          /\ matrix' = [h \in Gate |-> matrix'[h]]
      BY <3>1 DEF VerdictInv, Status
    <3>4. ASSUME NEW h \in Gate, verdict'[h] = "PASS"
          PROVE  /\ pc'[h] = "reported" /\ fails'[h] = 0
                 /\ matrix'[h] = [pair \in Pairs |-> LookupResult(h, pair)']
      <4>1. CASE h = g
        <5>1. fails[g] \in Nat /\ ~(fails[g] > 0)
          BY <3>1, <3>4, <4>1 DEF RecordInv, VerdictInv
        <5>2. matrix'[g] = [pair \in Pairs |-> LookupResult(g, pair)]
          BY <3>1 DEF VerdictInv
        <5>3. pc'[g] = "reported"
          BY <3>1 DEF RecordInv
        <5> QED
          BY <3>1, <3>2, <4>1, <5>1, <5>2, <5>3
      <4>2. CASE h # g
        <5>1. verdict[h] = "PASS" /\ matrix'[h] = matrix[h]
          BY <3>1, <3>4, <4>2 DEF VerdictInv
        <5> QED
          BY <2>1, <5>1
      <4> QED
        BY <4>1, <4>2
    <3> QED
      BY <3>3, <3>4 DEF VerdictInv
  <2> QED
    BY <1>2, <2>2, <2>3, OnlyReportJudges
<1> QED
  BY <1>1, <1>2 DEF Next

(* The overall verdict PASS means that every cell of the matrix was judged *)
(* and passed, its harness having exited without an error and in time, and *)
(* that the printed matrix shows nothing but PASS, for any matrix (also    *)
(* one that asks for a seed twice) and any gates running at once.          *)
THEOREM PassMeansEveryCell == Spec => []VerdictMeansAll
<1>1. RecordInv /\ VerdictInv => VerdictMeansAll
  <2> SUFFICES ASSUME RecordInv, VerdictInv, NEW g \in Gate, verdict[g] = "PASS"
               PROVE  /\ \A n \in DOMAIN Cells :
                           /\ n \in DOMAIN results[g]
                           /\ results[g][n] = [pair |-> Cells[n], status |-> "PASS",
                                               exit |-> "ok"]
                      /\ \A pair \in Pairs : matrix[g][pair] = "PASS"
    BY DEF VerdictMeansAll
  <2>1. /\ pc[g] = "reported" /\ fails[g] = 0
        /\ matrix[g] = [pair \in Pairs |-> LookupResult(g, pair)]
    BY DEF VerdictInv
  <2>2. /\ Len(results[g]) = Len(Cells) /\ Len(Cells) \in Nat
        /\ results[g] \in Seq(Result)
        /\ DOMAIN Cells = 1 .. Len(Cells) /\ DOMAIN results[g] = 1 .. Len(Cells)
    <3>1. Len(results[g]) = cell[g] - 1 /\ cell[g] = Len(Cells) + 1 /\ results[g] \in Seq(Result)
      BY <2>1 DEF RecordInv
    <3> QED
      BY <3>1, CellsAssumption
  <2>3. \A n \in DOMAIN Cells : results[g][n].status = "PASS"
    <3>1. IsFiniteSet(NotPassed(results[g]))
      <4>1. IsFiniteSet(DOMAIN results[g])
        BY <2>2, FS_Interval
      <4> QED
        BY <4>1, FS_Subset DEF NotPassed
    <3>2. NotPassed(results[g]) = {}
      BY <2>1, <3>1, FS_EmptySet DEF RecordInv
    <3> QED
      BY <2>2, <3>2 DEF NotPassed
  <2>4. ASSUME NEW n \in DOMAIN Cells
        PROVE  /\ n \in DOMAIN results[g]
               /\ results[g][n] = [pair |-> Cells[n], status |-> "PASS", exit |-> "ok"]
    <3>1. n \in DOMAIN results[g] /\ results[g][n] \in Result
      BY <2>2
    <3>2. results[g][n].pair = Cells[n] /\ results[g][n].status = "PASS"
          /\ results[g][n].exit = "ok"
      BY <2>3, <3>1 DEF RecordInv
    <3> QED
      BY <3>1, <3>2 DEF Result
  <2>5. ASSUME NEW pair \in Pairs
        PROVE  matrix[g][pair] = "PASS"
    <3> DEFINE ofPair == {n \in DOMAIN results[g] : results[g][n].pair = pair}
    <3>1. ofPair # {} /\ ofPair \subseteq Nat
      <4>1. PICK n \in DOMAIN Cells : pair = Cells[n]
        BY DEF Pairs
      <4>2. results[g][n].pair = pair /\ n \in DOMAIN results[g]
        <5>1. n \in DOMAIN results[g]
          BY <2>4
        <5>2. results[g][n].pair = Cells[n]
          BY <5>1 DEF RecordInv
        <5> QED
          BY <4>1, <5>1, <5>2
      <4> QED
        BY <2>2, <4>2
    <3>2. \E n \in ofPair : \A k \in ofPair : n <= k
      <4> HIDE DEF ofPair
      <4> QED
        BY <3>1, LeastNatural
    <3>3. LookupResult(g, pair) =
            results[g][CHOOSE n \in ofPair : \A k \in ofPair : n <= k].status
      BY <3>1 DEF LookupResult
    <3>4. LookupResult(g, pair) = "PASS"
      <4> DEFINE first == CHOOSE n \in ofPair : \A k \in ofPair : n <= k
      <4>1. first \in ofPair
        BY <3>2
      <4>2. first \in DOMAIN Cells
        BY <2>2, <4>1
      <4> QED
        BY <2>3, <3>3, <4>2
    <3> QED
      BY <2>1, <3>4
  <2> QED
    BY <2>4, <2>5
<1>2. Init => VerdictInv
  BY DEF Init, VerdictInv
<1> QED
  BY <1>1, <1>2, RecordInvAlways, VerdictInvStep, PTL DEF Spec
-----------------------------------------------------------------------------
(* Types.  Those the records do not settle.                                *)
StackTypes ==
  /\ stacks \in 0 .. MaxStacks /\ stack \in 0 .. stacks
  /\ org \in BOOLEAN
  /\ lock \in Gate \cup {NoGate}
  /\ home \in [Gate -> 0 .. MaxStacks]
  /\ strayed \in [Gate -> BOOLEAN]

GateTypes ==
  /\ cell \in [Gate -> 1 .. Len(Cells) + 1]
  /\ log \in [Gate -> Logs]
  /\ matrix = [g \in Gate |-> matrix[g]]
  /\ \A g \in Gate : matrix[g] \in [Pairs -> Status] \cup {<<>>}
  /\ verdict \in [Gate -> Status \cup {"none"}]

LEMMA TypesInit == Init => StackTypes /\ GateTypes
<1>1. Len(Cells) \in Nat /\ MaxStacks \in Nat
  BY CellsAssumption, StackAssumption
<1> SUFFICES ASSUME Init PROVE StackTypes /\ GateTypes
  OBVIOUS
<1>2. StackTypes
  <2>1. org = FALSE /\ stack = 0 /\ stacks = 0 /\ lock = NoGate
    BY DEF Init
  <2>2. home = [g \in Gate |-> 0] /\ strayed = [g \in Gate |-> FALSE]
    BY DEF Init
  <2>3. stacks \in 0 .. MaxStacks /\ stack \in 0 .. stacks /\ 0 \in 0 .. MaxStacks
    BY <1>1, <2>1
  <2>4. org \in BOOLEAN /\ strayed \in [Gate -> BOOLEAN] /\ home \in [Gate -> 0 .. MaxStacks]
    BY <2>1, <2>2, <2>3, Zenon
  <2> QED
    BY <2>1, <2>3, <2>4 DEF StackTypes
<1>3. GateTypes
  <2>1. \A g \in Gate : matrix[g] = <<>>
    BY DEF Init
  <2>2. matrix = [g \in Gate |-> matrix[g]]
    BY DEF Init
  <2> QED
    BY <1>1, <2>1, <2>2 DEF Init, GateTypes, Logs
<1> QED
  BY <1>2, <1>3

(* Nothing creates more stacks than the model allows, and a harness makes  *)
(* its organisation on one of them.                                        *)
LEMMA StackTypesStep == StackTypes /\ [Next]_vars => StackTypes'
<1> SUFFICES ASSUME StackTypes, [Next]_vars PROVE StackTypes'
  OBVIOUS
<1> USE StackAssumption DEF StackTypes
<1>1. CASE UNCHANGED vars
  BY <1>1 DEF vars, stackVars, harnessVars
<1>2. ASSUME NEW g \in Gate, Step(g)
      PROVE  StackTypes'
  <2>1. CASE Begin(g) \/ Metrics(g) \/ Report(g) \/ Interrupt(g)
    BY <2>1 DEF Begin, Metrics, Report, Interrupt, stackVars, harnessVars
  <2>2. CASE Baseline(g) \/ Start(g) \/ HarnessReturns(g) \/ HarnessFails(g)
    BY <2>2 DEF Baseline, Start, HarnessReturns, HarnessFails, stackVars
  <2>3. CASE DockerDown(g) \/ Teardown(g)
    <3>1. /\ UNCHANGED <<lock, home, strayed>>
          /\ TakeDown \/ UNCHANGED stackVars
      BY <2>3 DEF DockerDown, Teardown, harnessVars
    <3>2. CASE TakeDown
      <4>1. org' = FALSE /\ stack' = 0 /\ stacks' = stacks
        BY <3>2 DEF TakeDown
      <4>2. stacks' \in 0 .. MaxStacks /\ stack' \in 0 .. stacks'
        BY <4>1
      <4>3. UNCHANGED <<lock, home, strayed>>
        BY <3>1
      <4> QED
        BY <4>1, <4>2, <4>3, Zenon
    <3> QED
      BY <3>1, <3>2 DEF stackVars
  <2>4. CASE DockerUp(g)
    <3>1. /\ UNCHANGED <<lock, home, strayed>>
          /\ BringUp \/ UNCHANGED stackVars
      BY <2>4 DEF DockerUp, harnessVars
    <3>2. CASE stacks < MaxStacks /\ stacks' = stacks + 1 /\ stack' = stacks + 1 /\ org' = FALSE
      <4>1. stacks' \in 0 .. MaxStacks /\ stack' \in 0 .. stacks' /\ org' = FALSE
        BY <3>2
      <4>2. UNCHANGED <<lock, home, strayed>>
        BY <3>1
      <4> QED
        BY <4>1, <4>2, Zenon
    <3>3. BringUp => \/ UNCHANGED stackVars
                     \/ /\ stacks < MaxStacks /\ stacks' = stacks + 1
                        /\ stack' = stacks + 1 /\ org' = FALSE
      BY DEF BringUp
    <3> QED
      BY <3>1, <3>2, <3>3 DEF stackVars
  <2>5. CASE CreateOrg(g)
    BY <2>5 DEF CreateOrg
  <2>6. CASE Traffic(g) \/ Survey(g)
    BY <2>6 DEF Traffic, Survey, stackVars
  <2> QED
    BY <1>2, <2>1, <2>2, <2>3, <2>4, <2>5, <2>6 DEF Step, RunCell, Harness
<1> QED
  BY <1>1, <1>2 DEF Next

(* lookup_result answers PASS or FAIL for every pair of the matrix.        *)
LEMMA LookupType ==
  ASSUME RecordInv, NEW g \in Gate, NEW pair \in Pairs
  PROVE  LookupResult(g, pair) \in Status
<1> DEFINE ofPair == {n \in DOMAIN results[g] : results[g][n].pair = pair}
           first == CHOOSE n \in ofPair : \A k \in ofPair : n <= k
<1>1. results[g] \in Seq(Result) /\ ofPair \subseteq Nat
  BY DEF RecordInv
<1>2. CASE ofPair = {}
  BY <1>2 DEF LookupResult, Status
<1>3. CASE ofPair # {}
  <2>1. \E n \in ofPair : \A k \in ofPair : n <= k
    <3> HIDE DEF ofPair
    <3> QED
      BY <1>1, <1>3, LeastNatural
  <2>2. first \in DOMAIN results[g]
    BY <2>1
  <2>3. results[g][first] \in Result
    <3> HIDE DEF first
    <3> QED
      BY <1>1, <2>2
  <2>4. results[g][first].status \in Status
    <3> HIDE DEF first
    <3> QED
      BY <2>3 DEF Result
  <2> QED
    BY <1>3, <2>4 DEF LookupResult
<1> QED
  BY <1>2, <1>3

LEMMA GateTypesStep == RecordInv /\ GateTypes /\ [Next]_vars => GateTypes'
<1> SUFFICES ASSUME RecordInv, GateTypes, [Next]_vars PROVE GateTypes'
  OBVIOUS
<1>0. Len(Cells) \in Nat /\ Len(Cells) > 0
  BY CellsAssumption
<1>1. CASE UNCHANGED vars
  BY <1>1 DEF vars, gateVars, harnessVars, GateTypes
<1>2. ASSUME NEW g \in Gate, Step(g)
      PROVE  GateTypes'
  <2>1. log' \in [Gate -> Logs]
    BY <1>2 DEF Step, RunCell, Harness, Begin, Baseline, DockerDown, DockerUp, Start,
            CreateOrg, Traffic, Survey, HarnessReturns, HarnessFails, Teardown, Metrics,
            Report, Interrupt, harnessVars, GateTypes, Logs
  <2>2. cell' \in [Gate -> 1 .. Len(Cells) + 1]
    <3>1. ASSUME NEW status, Finish(g, status), pc[g] \in Working
          PROVE  cell' \in [Gate -> 1 .. Len(Cells) + 1]
      <4>1. cell' = [cell EXCEPT ![g] = cell[g] + 1] /\ cell[g] \in 1 .. Len(Cells)
        BY <3>1 DEF Finish, RecordInv
      <4>2. cell[g] + 1 \in 1 .. Len(Cells) + 1
        BY <1>0, <4>1
      <4> QED
        BY <4>1, <4>2 DEF GateTypes
    <3>2. \/ cell' = cell
          \/ pc[g] \in Working /\ \E status \in Status : Finish(g, status)
      BY <1>2 DEF Step, RunCell, Harness, Begin, Baseline, DockerDown, DockerUp, Start,
              CreateOrg, Traffic, Survey, HarnessReturns, HarnessFails, Teardown, Metrics,
              Report, Interrupt, gateVars, Status, Working, Phases, Running, Idle
    <3> QED
      BY <3>1, <3>2 DEF GateTypes
  <2>3. CASE UNCHANGED <<verdict, matrix>>
    BY <2>1, <2>2, <2>3 DEF GateTypes
  <2>4. CASE Report(g)
    <3>1. [pair \in Pairs |-> LookupResult(g, pair)] \in [Pairs -> Status]
      BY LookupType
    <3>2. /\ matrix' = [matrix EXCEPT ![g] = [pair \in Pairs |-> LookupResult(g, pair)]]
          /\ verdict' = [verdict EXCEPT ![g] = IF fails[g] > 0 THEN "FAIL" ELSE "PASS"]
      BY <2>4 DEF Report
    <3> QED
      BY <2>1, <2>2, <3>1, <3>2 DEF GateTypes, Status
  <2> QED
    BY <1>2, <2>3, <2>4, OnlyReportJudges
<1> QED
  BY <1>1, <1>2 DEF Next

(* Every variable of the gates has its type; in particular no gate counts  *)
(* more failures than the matrix has cells, and lookup_result has an       *)
(* answer for every pair it prints.                                        *)
THEOREM Typing == Spec => []TypeOK
<1>1. RecordInv /\ StackTypes /\ GateTypes => TypeOK
  <2> SUFFICES ASSUME RecordInv, StackTypes, GateTypes PROVE TypeOK
    OBVIOUS
  <2>1. ASSUME NEW g \in Gate PROVE fails[g] \in 0 .. Len(Cells)
    <3>1. /\ results[g] \in Seq(Result) /\ DOMAIN results[g] = 1 .. Len(results[g])
          /\ Len(results[g]) = cell[g] - 1 /\ cell[g] \in 1 .. Len(Cells) + 1
          /\ Len(Cells) \in Nat
      BY CellsAssumption DEF RecordInv, GateTypes
    <3>2. Cardinality(NotPassed(results[g])) <= Cardinality(1 .. Len(results[g]))
      <4>1. IsFiniteSet(1 .. Len(results[g]))
        BY <3>1, FS_Interval
      <4>2. NotPassed(results[g]) \subseteq 1 .. Len(results[g])
        BY <3>1 DEF NotPassed
      <4> QED
        BY <4>1, <4>2, FS_Subset
    <3>3. Cardinality(1 .. Len(results[g])) = Len(results[g])
      <4>1. ASSUME NEW n \in Nat PROVE Cardinality(1 .. n) = n
        BY FS_Interval
      <4>2. Len(results[g]) \in Nat
        BY <3>1
      <4> QED
        BY <4>1, <4>2
    <3>4. fails[g] \in Nat /\ fails[g] = Cardinality(NotPassed(results[g]))
      BY DEF RecordInv
    <3> QED
      BY <3>1, <3>2, <3>3, <3>4
  <2>2. fails \in [Gate -> 0 .. Len(Cells)]
    BY <2>1 DEF RecordInv
  <2> QED
    BY <2>2 DEF RecordInv, StackTypes, GateTypes, TypeOK
<1> QED
  BY <1>1, TypesInit, StackTypesStep, GateTypesStep, RecordInvAlways, PTL DEF Spec
=============================================================================
