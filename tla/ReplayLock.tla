----------------------------- MODULE ReplayLock -----------------------------
(***************************************************************************)
(* The single-flight lock of the empirical replay harness                  *)
(* (scripts/empirical_replay/main.go, main and                             *)
(* acquireReplaySingleFlightLock).                                         *)
(*                                                                         *)
(* A harness run is an operating-system process.  It creates a lock file   *)
(* with O_CREATE|O_EXCL, writes its process id into it and closes it; a    *)
(* process that finds the file already there reads the process id in it,   *)
(* asks the kernel whether that process is alive and, if it is not,        *)
(* removes the file and tries once more.  Every system call is one step,   *)
(* because the processes share nothing but the file system: other          *)
(* processes run between any two of them.                                  *)
(***************************************************************************)
EXTENDS Integers

CONSTANTS
  Pid,          (* Process ids the kernel hands out.                       *)
  NoPid,        (* No process id: nothing was read from the lock file.     *)
  MaxAttempts   (* Passes of the acquisition loop; the code makes two.     *)

ASSUME PidAssumption == NoPid \notin Pid
ASSUME AttemptsAssumption == MaxAttempts \in Nat \ {0}

VARIABLES
  pc,           (* Where the process that holds a process id is.           *)
  lock,         (* The file at REPLAY_LOCK_PATH.                           *)
  seen,         (* The process id a process read from the file.            *)
  attempt,      (* The loop counter of a process.                          *)
  outcome,      (* How the last run under a process id ended.              *)
  robbed,       (* History: processes whose file another process removed.  *)
  raced         (* History: a harness was started while another one was    *)
                (* acquiring the lock.                                     *)

vars == <<pc, lock, seen, attempt, outcome, robbed, raced>>

-----------------------------------------------------------------------------
(* The file.  A file remembers the process that created it, because a      *)
(* process that still has it open after it was unlinked writes into the    *)
(* unlinked file and not into the one now at the path.                     *)

NoFile == [by |-> NoPid, written |-> FALSE]
File(p, w) == [by |-> p, written |-> w]
Files == {NoFile} \cup [by : Pid, written : BOOLEAN]

(* Inside acquireReplaySingleFlightLock.                                   *)
Acquiring == {"create", "write", "close", "undo", "read", "signal", "remove"}
(* Has created its file and has not yet given it up.                       *)
Holding == {"write", "close", "undo", "run", "release"}
(* Between a successful acquisition and the end of the process: h.run and  *)
(* the deferred release.                                                   *)
InFlight == {"run", "release"}
(* The process id is in use, by a harness or by an unrelated program.      *)
Alive(p) == pc[p] # "free"

Outcomes == {"none", "refused", "exhausted", "io_error", "failed", "ok",
             "killed"}

Init ==
  /\ pc = [p \in Pid |-> "free"]
  /\ lock = NoFile
  /\ seen = [p \in Pid |-> NoPid]
  /\ attempt = [p \in Pid |-> 0]
  /\ outcome = [p \in Pid |-> "none"]
  /\ robbed = {}
  /\ raced = FALSE

Goto(p, from, to) ==
  /\ pc[p] = from
  /\ pc' = [pc EXCEPT ![p] = to]

(* The process ends and its id is free to be handed out again.             *)
Exit(p, result) ==
  /\ pc' = [pc EXCEPT ![p] = "free"]
  /\ outcome' = [outcome EXCEPT ![p] = result]
  /\ seen' = [seen EXCEPT ![p] = NoPid]
  /\ attempt' = [attempt EXCEPT ![p] = 0]

(* The path is left alone by a step that ends p.                           *)
LeaveFile(p) ==
  /\ lock' = lock
  /\ robbed' = robbed \ {p}

(* os.Remove(lockPath) by p removes whatever file is at the path.          *)
RemoveFile(p) ==
  /\ lock' = NoFile
  /\ robbed' = robbed \cup {q \in Pid \ {p} : lock.by = q /\ pc[q] \in Holding}

-----------------------------------------------------------------------------
(* A harness is started under a process id nobody uses.                    *)
Start(p) ==
  /\ Goto(p, "free", "create")
  /\ outcome' = [outcome EXCEPT ![p] = "none"]
  /\ UNCHANGED <<lock, seen, attempt, robbed>>

(* Faulty variant: the file is opened without O_EXCL.                      *)
CreateShared(p) ==
  /\ Goto(p, "create", "write")
  /\ lock' = File(p, FALSE)
  /\ UNCHANGED <<seen, attempt, outcome, robbed>>

(* os.OpenFile with O_CREATE|O_EXCL creates the file ...                   *)
Create(p) ==
  /\ Goto(p, "create", "write")
  /\ lock = NoFile
  /\ lock' = File(p, FALSE)
  /\ UNCHANGED <<seen, attempt, outcome, robbed>>

(* ... or fails with ErrExist, and the owner is probed.                    *)
CreateExists(p) ==
  /\ Goto(p, "create", "read")
  /\ lock # NoFile
  /\ UNCHANGED <<lock, seen, attempt, outcome, robbed>>

(* The process id is written to the file p holds open, which is the one at *)
(* the path only if nobody has removed that one meanwhile.                 *)
Write(p) ==
  /\ Goto(p, "write", "close")
  /\ lock' = IF lock.by = p THEN File(p, TRUE) ELSE lock
  /\ UNCHANGED <<seen, attempt, outcome, robbed>>

(* The file is closed; the release function is returned and h.run begins.  *)
Close(p) ==
  /\ Goto(p, "close", "run")
  /\ UNCHANGED <<lock, seen, attempt, outcome, robbed>>

(* Writing or closing the file fails ...                                   *)
WriteOrCloseFails(p) ==
  /\ \E from \in {"write", "close"} : Goto(p, from, "undo")
  /\ UNCHANGED <<lock, seen, attempt, outcome, robbed>>

(* ... and the path is removed before main exits with the error.           *)
Undo(p) ==
  /\ pc[p] = "undo"
  /\ RemoveFile(p)
  /\ Exit(p, "io_error")

(* The owner's process id is read.  No file, or one nothing was written to *)
(* yet, counts as a file whose owner is not running.                       *)
ReadOwner(p) ==
  /\ pc[p] = "read"
  /\ IF lock.written
     THEN /\ pc' = [pc EXCEPT ![p] = "signal"]
          /\ seen' = [seen EXCEPT ![p] = lock.by]
     ELSE /\ pc' = [pc EXCEPT ![p] = "remove"]
          /\ UNCHANGED seen
  /\ UNCHANGED <<lock, attempt, outcome, robbed>>

(* Faulty variant: the release is deferred before the error is looked at.  *)
RefuseReleases(p) ==
  /\ pc[p] = "signal"
  /\ Alive(seen[p])
  /\ RemoveFile(p)
  /\ Exit(p, "refused")

(* Signal 0 reaches a process with that id: the run is refused.            *)
Refuse(p) ==
  /\ pc[p] = "signal"
  /\ Alive(seen[p])
  /\ LeaveFile(p)
  /\ Exit(p, "refused")

(* Faulty variant: any answer to the signal counts as a dead owner.        *)
OwnerAssumedGone(p) ==
  /\ Goto(p, "signal", "remove")
  /\ UNCHANGED <<lock, seen, attempt, outcome, robbed>>

(* No such process: the file is stale.                                     *)
OwnerGone(p) ==
  /\ Goto(p, "signal", "remove")
  /\ ~Alive(seen[p])
  /\ UNCHANGED <<lock, seen, attempt, outcome, robbed>>

(* The stale file is removed (that it is gone already is no error) and the *)
(* loop goes on, or ends after its last pass.                              *)
RemoveThen(p, another, next) ==
  /\ pc[p] = "remove"
  /\ RemoveFile(p)
  /\ IF another
     THEN /\ pc' = [pc EXCEPT ![p] = "create"]
          /\ attempt' = [attempt EXCEPT ![p] = next]
          /\ seen' = [seen EXCEPT ![p] = NoPid]
          /\ UNCHANGED outcome
     ELSE Exit(p, "exhausted")

(* Faulty variants: one pass too few, passes not counted.                  *)
RemoveStaleTooSeldom(p) ==
  RemoveThen(p, attempt[p] + 2 < MaxAttempts, attempt[p] + 1)
RemoveStaleUncounted(p) ==
  RemoveThen(p, attempt[p] + 1 < MaxAttempts, attempt[p])

RemoveStale(p) ==
  RemoveThen(p, attempt[p] + 1 < MaxAttempts, attempt[p] + 1)

(* Any other error of OpenFile, ReadFile or Remove.                        *)
IoError(p) ==
  /\ pc[p] \in {"create", "read", "remove"}
  /\ LeaveFile(p)
  /\ Exit(p, "io_error")

(* h.run returns nil, and the deferred release is next.                    *)
RunReturns(p) ==
  /\ Goto(p, "run", "release")
  /\ UNCHANGED <<lock, seen, attempt, outcome, robbed>>

(* The release removes the path without looking at what is there.          *)
Release(p) ==
  /\ pc[p] = "release"
  /\ RemoveFile(p)
  /\ Exit(p, "ok")

(* h.run returns an error: os.Exit(1), which runs no deferred function.    *)
RunFails(p) ==
  /\ pc[p] = "run"
  /\ LeaveFile(p)
  /\ Exit(p, "failed")

(* SIGKILL, as replay-gate.sh sends when a cell exceeds its timeout, or a  *)
(* crash, at any point.                                                    *)
Kill(p) ==
  /\ pc[p] \in Acquiring \cup InFlight
  /\ LeaveFile(p)
  /\ Exit(p, "killed")

(* The kernel hands a process id to an unrelated program, which ends.      *)
ForeignStart(p) ==
  /\ Goto(p, "free", "foreign")
  /\ outcome' = [outcome EXCEPT ![p] = "none"]
  /\ UNCHANGED <<lock, seen, attempt, robbed>>

ForeignEnd(p) ==
  /\ Goto(p, "foreign", "free")
  /\ UNCHANGED <<lock, seen, attempt, outcome, robbed>>

-----------------------------------------------------------------------------
(* The steps of the acquisition that the process takes by itself.          *)
Acquire(p) ==
  \/ Create(p) \/ CreateExists(p) \/ Write(p) \/ Close(p) \/ Undo(p)
  \/ ReadOwner(p) \/ Refuse(p) \/ OwnerGone(p) \/ RemoveStale(p)

(* What a process does once started, and what befalls it.                  *)
Step(p) ==
  \/ Acquire(p) \/ WriteOrCloseFails(p) \/ IoError(p)
  \/ RunReturns(p) \/ Release(p) \/ RunFails(p) \/ Kill(p)
  \/ ForeignStart(p) \/ ForeignEnd(p)

(* A start is serial when no other process is acquiring the lock, as when  *)
(* one shell starts runs and looks at the first line of each.  Nothing in  *)
(* the code makes starts serial: they happen at any time.                  *)
Races(p) == \E q \in Pid \ {p} : pc[q] \in Acquiring

Next ==
  \E p \in Pid :
    \/ Start(p) /\ raced' = (raced \/ Races(p))
    \/ Step(p) /\ UNCHANGED raced

(* The scheduler runs a started process; nothing makes anybody start one,  *)
(* nothing makes h.run end.                                                *)
Fairness == \A p \in Pid : WF_vars(Acquire(p) /\ UNCHANGED raced)

Spec == Init /\ [][Next]_vars /\ Fairness

-----------------------------------------------------------------------------
(* Properties.                                                             *)

(* Every variable has its type.                                            *)
TypeOK ==
  /\ pc \in [Pid -> {"free", "foreign"} \cup Acquiring \cup InFlight]
  /\ lock \in Files
  /\ seen \in [Pid -> Pid \cup {NoPid}]
  /\ attempt \in [Pid -> 0 .. MaxAttempts - 1]
  /\ outcome \in [Pid -> Outcomes]
  /\ robbed \in SUBSET Pid
  /\ raced \in BOOLEAN
  /\ \A p \in Pid : pc[p] = "signal" => seen[p] \in Pid

(* acquireReplaySingleFlightLock exists for this: no two replay runs are   *)
(* in flight at once.  It fails when starts race ...                       *)
SingleFlight ==
  \A p, q \in Pid : pc[p] \in InFlight /\ pc[q] \in InFlight => p = q

(* ... and holds as long as no start ever raced with another one, whatever *)
(* runs fail, are killed at any step or leave their file behind.           *)
SerialSingleFlight == ~raced => SingleFlight

(* As long as no start raced, a process that has created the file finds    *)
(* its own file at the path, and its id in it once it runs, until it       *)
(* removes it itself: nobody takes a live run for a stale one.             *)
HolderOwnsFile ==
  ~raced =>
    \A p \in Pid :
      /\ pc[p] \in Holding => lock.by = p
      /\ pc[p] \in {"close", "run", "release"} => lock.written

(* As long as no start raced, the second pass of the acquisition loop is   *)
(* enough: no start is told "unable to acquire replay lock".               *)
NeverExhausted == ~raced => \A p \in Pid : outcome[p] # "exhausted"

(* However starts race, two runs are in flight at once only after another  *)
(* process removed the file of one of them: creating the file is exclusive *)
(* and the removals are the only way around it.                            *)
OverlapOnlyByRobbery ==
  \A p, q \in Pid :
    p # q /\ pc[p] \in InFlight /\ pc[q] \in InFlight
      => p \in robbed \/ q \in robbed

(* Every start is decided, however many others race with it: it runs or    *)
(* its process has ended.                                                  *)
AcquisitionEnds ==
  \A p \in Pid : pc[p] \in Acquiring ~> pc[p] \notin Acquiring

-----------------------------------------------------------------------------
(* Inductive strengthenings, for the proofs of ReplayLockProofs.           *)

(* However starts race, a process that has created its file still finds it *)
(* at the path unless another process removed it.                          *)
HoldsOrRobbed ==
  \A p \in Pid : pc[p] \in Holding => lock.by = p \/ p \in robbed

(* No start raced: at most one process is acquiring, and ...              *)
OneAcquirer ==
  ~raced =>
    \A p, q \in Pid : pc[p] \in Acquiring /\ pc[q] \in Acquiring => p = q

(* ... what it concluded from its probe stays true until it acts on it: a  *)
(* run in flight is the one whose id it read, and when it is about to      *)
(* remove the file as stale there is none;                                 *)
ProbeStaysTrue ==
  ~raced =>
    \A p, q \in Pid :
      /\ pc[p] = "signal" /\ pc[q] \in InFlight => seen[p] = q
      /\ pc[p] = "remove" => pc[q] \notin InFlight

(* once it has removed the file, nobody else puts one back.                *)
SecondPassFindsNoFile ==
  ~raced =>
    \A p \in Pid :
      attempt[p] > 0
        => \/ pc[p] \in Holding
           \/ pc[p] = "create" /\ lock = NoFile

SerialInv ==
  /\ TypeOK
  /\ HolderOwnsFile
  /\ OneAcquirer
  /\ ProbeStaysTrue
  /\ SecondPassFindsNoFile
=============================================================================
