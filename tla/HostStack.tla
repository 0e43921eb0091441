------------------------------ MODULE HostStack ------------------------------
(***************************************************************************)
(* The scripts that run the services on the host: start.sh, stop.sh and    *)
(* clear.sh.  Each is a sequence of steps over pid files, processes, the   *)
(* chain's home directory and the chain's log.  One operator runs them,    *)
(* one at a time, and may interrupt them anywhere; a script also ends at   *)
(* the first command that fails (set -e).                                  *)
(*                                                                         *)
(* The processes the scripts start go on by themselves: they outlive the   *)
(* script, may end at any time, and their process ids are used again.      *)
(* The dashboard, which is brought up like the hub, and the containers are *)
(* left out.                                                               *)
(***************************************************************************)
EXTENDS Naturals, Sequences, FiniteSets

CONSTANTS
  Pid,       (* Process ids.                                               *)
  NoPid,     (* No process id: there is no pid file.                       *)
  MaxRuns    (* Bound of the model: how many scripts are run.              *)

ASSUME PidAssumption == NoPid \notin Pid /\ MaxRuns \in Nat

VARIABLES
  script,    (* The script that is running.                                *)
  todo,      (* The steps it has still to do.                              *)
  child,     (* $!: the background process it started last.                *)
  finished,  (* The script run last, if it reached its end.                *)
  runs,      (* How many were run.                                         *)
  proc,      (* What every process id runs.                                *)
  dying,     (* The processes sent SIGTERM by pattern, and not waited for. *)
  pidfile,   (* .pids/<service>.pid                                        *)
  home,      (* The chain's home directory, CHAIN_HOME.                    *)
  logged,    (* Whether chain.log has a line that tells of corruption.     *)
  strays     (* History: MCP servers whose pid file was never written.     *)

scriptVars == <<script, todo, child, finished, runs>>
procVars == <<proc, dying, strays>>
chainVars == <<home, logged>>
vars == <<scriptVars, procVars, pidfile, chainVars>>

Service == {"chain", "hub", "mcp"}

(* "shell" is the subshell the hub is started in; "other" is any program   *)
(* that is none of the services.                                           *)
Runs == Service \cup {"free", "shell", "other"}

(* "half": config/genesis.json is there, but the initialisation did not    *)
(* come to its end.                                                        *)
Homes == {"none", "half", "good", "corrupt"}

Init ==
  /\ script = "none"
  /\ todo = <<>>
  /\ child = NoPid
  /\ finished = "none"
  /\ runs = 0
  /\ proc = [p \in Pid |-> "free"]
  /\ dying = {}
  /\ pidfile = [s \in Service |-> NoPid]
  /\ home = "none"
  /\ logged = FALSE
  /\ strays = {}

Running(s) == {p \in Pid : proc[p] = s}
Live(s) == Running(s) \ dying

-----------------------------------------------------------------------------
(* The scripts.                                                            *)

Verbs == {"kill_pid", "pkill", "init", "spawn", "record", "wait_for", "wait_again", "rm"}

Launch(s) == << <<"spawn", s>>, <<"record", s>> >>

ChainSteps ==
  << <<"kill_pid", "chain">>, <<"pkill", "chain">>, <<"init", "chain">> >>
    \o Launch("chain") \o << <<"wait_for", "chain">> >>

(* Faulty variant: the pid of the chain that is started anew is not kept.  *)
MitigationStepsUnrecorded ==
  << <<"kill_pid", "chain">>, <<"pkill", "chain">>, <<"rm", "home">>, <<"init", "chain">>,
     <<"spawn", "chain">>, <<"wait_again", "chain">> >>

(* mitigate_chain_corruption and what follows it.                          *)
MitigationSteps ==
  << <<"kill_pid", "chain">>, <<"pkill", "chain">>, <<"rm", "home">>, <<"init", "chain">> >>
    \o Launch("chain") \o << <<"wait_again", "chain">> >>

(* Faulty variant: a hub the pid file does not name is not looked for.     *)
HubStepsNoPkill ==
  << <<"kill_pid", "hub">> >> \o Launch("hub") \o << <<"wait_for", "hub">> >>

HubSteps ==
  << <<"kill_pid", "hub">>, <<"pkill", "hub">> >>
    \o Launch("hub") \o << <<"wait_for", "hub">> >>

McpSteps ==
  << <<"kill_pid", "mcp">> >> \o Launch("mcp") \o << <<"wait_for", "mcp">> >>

(* Faulty variant: only what the pid files name is stopped.                *)
StopStepsByFile ==
  << <<"kill_pid", "mcp">>, <<"kill_pid", "hub">>, <<"kill_pid", "chain">> >>

StopSteps ==
  << <<"kill_pid", "mcp">>, <<"kill_pid", "hub">>, <<"kill_pid", "chain">>,
     <<"pkill", "hub">>, <<"pkill", "chain">> >>

(* Faulty variant: logs and pid files are removed first.                   *)
ClearStepsFilesFirst == << <<"rm", "files">> >> \o StopSteps \o << <<"rm", "home">> >>

(* clear.sh runs stop.sh, "|| true".  That stop.sh ends early by itself is *)
(* left out: whatever ends it ends clear.sh, too.                          *)
ClearSteps == StopSteps \o << <<"rm", "home">>, <<"rm", "files">> >>

Steps(s) ==
  CASE s = "start"      -> ChainSteps \o HubSteps \o McpSteps
    [] s = "skip_chain" -> HubSteps \o McpSteps
    [] s = "stop"       -> StopSteps
    [] s = "clear"      -> ClearSteps

Scripts == {"start", "skip_chain", "stop", "clear"}

(* The operator runs a script.                                             *)
Begin(s) ==
  /\ script = "none"
  /\ runs < MaxRuns
  /\ runs' = runs + 1
  /\ script' = s
  /\ todo' = Steps(s)
  /\ finished' = "none"
  /\ child' = NoPid
  /\ UNCHANGED <<procVars, pidfile, chainVars>>

(* It prints its last line and ends.                                       *)
End ==
  /\ script # "none"
  /\ todo = <<>>
  /\ script' = "none"
  /\ finished' = script
  /\ UNCHANGED <<todo, child, runs, procVars, pidfile, chainVars>>

Doing(step) == todo # <<>> /\ Head(todo) = step

GoOn ==
  /\ todo' = Tail(todo)
  /\ UNCHANGED <<script, finished, runs>>

(* The script ends before its end.                                         *)
Abandon ==
  /\ script' = "none"
  /\ todo' = <<>>
  /\ UNCHANGED <<child, finished, runs>>

-----------------------------------------------------------------------------
(* The steps.                                                              *)

(* A chain that ends may leave its store damaged.                          *)
Damage == home' \in {home} \cup (IF home = "good" THEN {"corrupt"} ELSE {})

Ended(P) ==
  /\ proc' = [p \in Pid |-> IF p \in P THEN "free" ELSE proc[p]]
  /\ dying' = dying \ P
  /\ strays' = strays \ P

(* Faulty variant: the pid file is removed, whatever becomes of the        *)
(* process.                                                                *)
KillPidNoWait(s) ==
  /\ Doing(<<"kill_pid", s>>)
  /\ pidfile' = [pidfile EXCEPT ![s] = NoPid]
  /\ GoOn
  /\ UNCHANGED <<child, procVars, chainVars>>

(* kill_pid, stop_pid: the process the pid file names is told to end, five *)
(* seconds later it is killed, and the file is removed.  Whatever runs     *)
(* under that process id now is what ends.                                 *)
KillPid(s) ==
  /\ Doing(<<"kill_pid", s>>)
  /\ Ended({pidfile[s]} \cap Pid)
  /\ IF pidfile[s] \in Running("chain") THEN Damage ELSE UNCHANGED home
  /\ pidfile' = [pidfile EXCEPT ![s] = NoPid]
  /\ GoOn
  /\ UNCHANGED <<child, logged>>

(* pkill: every process of the service is told to end.                     *)
Pkill(s) ==
  /\ Doing(<<"pkill", s>>)
  /\ dying' = dying \cup Running(s)
  /\ GoOn
  /\ UNCHANGED <<child, proc, strays, pidfile, chainVars>>

(* init-chain.sh is run if there is no genesis file; it may fail.  Where   *)
(* there is none to run, or after a reset no wevibed to run it with, the   *)
(* script goes on without a home.                                          *)
InitChain ==
  /\ Doing(<<"init", "chain">>)
  /\ \/ GoOn /\ UNCHANGED <<child, home>>
     \/ home = "none" /\ home' = "good" /\ GoOn /\ UNCHANGED child
     \/ home = "none" /\ home' \in {"none", "half"} /\ Abandon
  /\ UNCHANGED <<procVars, pidfile, logged>>

(* A service is started in the background.  The hub is started in a        *)
(* subshell, which the shell may or may not replace by the program.        *)
Spawn(s) ==
  /\ Doing(<<"spawn", s>>)
  /\ \E p, q \in Running("free") :
       /\ p = q \/ s = "hub"
       /\ proc' = [proc EXCEPT ![p] = "shell", ![q] = s]
       /\ child' = p
  /\ GoOn
  /\ UNCHANGED <<dying, strays, pidfile, chainVars>>

(* echo $! > pid file                                                      *)
Record(s) ==
  /\ Doing(<<"record", s>>)
  /\ pidfile' = [pidfile EXCEPT ![s] = child]
  /\ GoOn
  /\ UNCHANGED <<child, procVars, chainVars>>

(* wait_for: the service answers - which any process of it can do -, ...   *)
Healthy(s) ==
  /\ Doing(<<"wait_for", s>>)
  /\ Running(s) # {}
  /\ GoOn
  /\ UNCHANGED <<child, procVars, pidfile, chainVars>>

(* ... or does not in time: without the hub or the MCP server the script   *)
(* ends, ...                                                               *)
Unhealthy(s) ==
  /\ Doing(<<"wait_for", s>>)
  /\ s # "chain"
  /\ Abandon
  /\ UNCHANGED <<procVars, pidfile, chainVars>>

(* ... without the chain it goes on, after starting the chain anew from an *)
(* empty home if its log has ever told of corruption.                      *)
ChainUnhealthy ==
  /\ Doing(<<"wait_for", "chain">>)
  /\ todo' = (IF logged THEN MitigationSteps ELSE <<>>) \o Tail(todo)
  /\ UNCHANGED <<script, finished, runs, child, procVars, pidfile, chainVars>>

(* The chain is waited for a second time: the script goes on either way.   *)
WaitAgain ==
  /\ Doing(<<"wait_again", "chain">>)
  /\ GoOn
  /\ UNCHANGED <<child, procVars, pidfile, chainVars>>

(* rm -rf; start.sh does not look whether it could.                        *)
RemoveHome ==
  /\ Doing(<<"rm", "home">>)
  /\ home' \in {"none"} \cup (IF script = "start" THEN {home} ELSE {})
  /\ GoOn
  /\ UNCHANGED <<child, procVars, pidfile, logged>>

(* rm -rf .logs .pids                                                      *)
RemoveFiles ==
  /\ Doing(<<"rm", "files">>)
  /\ logged' = FALSE
  /\ pidfile' = [s \in Service |-> NoPid]
  /\ GoOn
  /\ UNCHANGED <<child, procVars, home>>

(* The operator interrupts the script.  What it started in the background  *)
(* is not interrupted.                                                     *)
Interrupt ==
  /\ script # "none"
  /\ Abandon
  /\ strays' = IF Doing(<<"record", "mcp">>) THEN strays \cup ({child} \cap Running("mcp"))
                                             ELSE strays
  /\ home' \in {home} \cup
       (IF Doing(<<"init", "chain">>) /\ home = "none" THEN {"half"} ELSE {})
  /\ UNCHANGED <<proc, dying, pidfile, logged>>

-----------------------------------------------------------------------------
(* The processes.                                                          *)

(* A process ends.  A chain that cannot load its store says so in its log. *)
Exit(p) ==
  /\ proc[p] # "free"
  /\ Ended({p})
  /\ IF proc[p] = "chain" THEN Damage ELSE UNCHANGED home
  /\ logged' = (logged \/ (proc[p] = "chain" /\ home = "corrupt"))
  /\ UNCHANGED <<scriptVars, pidfile>>

(* Some other program gets a process id.                                   *)
Foreign(p) ==
  /\ proc[p] = "free"
  /\ proc' = [proc EXCEPT ![p] = "other"]
  /\ UNCHANGED <<scriptVars, dying, strays, pidfile, chainVars>>

-----------------------------------------------------------------------------
ServiceStep(s) == KillPid(s) \/ Pkill(s) \/ Spawn(s) \/ Record(s) \/ Healthy(s) \/ Unhealthy(s)

Next ==
  \/ \E s \in Scripts : Begin(s)
  \/ \E s \in Service : ServiceStep(s)
  \/ InitChain \/ ChainUnhealthy \/ WaitAgain \/ RemoveHome \/ RemoveFiles
  \/ End \/ Interrupt
  \/ \E p \in Pid : Exit(p) \/ Foreign(p)

Spec == Init /\ [][Next]_vars

-----------------------------------------------------------------------------
(* Properties.                                                             *)

(* Every variable has its type.                                            *)
TypeOK ==
  /\ script \in Scripts \cup {"none"} /\ finished \in Scripts \cup {"none"}
  /\ todo \in Seq(Verbs \X (Service \cup {"home", "files"}))
  /\ child \in Pid \cup {NoPid}
  /\ runs \in 0 .. MaxRuns
  /\ proc \in [Pid -> Runs]
  /\ dying \in SUBSET (Running("chain") \cup Running("hub"))
  /\ pidfile \in [Service -> Pid \cup {NoPid}]
  /\ home \in Homes
  /\ logged \in BOOLEAN
  /\ strays \in SUBSET Running("mcp")

(* start.sh is "idempotent": however often scripts are interrupted, fail   *)
(* or are run again, with pid files lost, stale or naming a subshell, only *)
(* one chain and one hub are there to stay.                                *)
OneInstance == \A s \in {"chain", "hub"} : Cardinality(Live(s)) <= 1

(* Once stop.sh or clear.sh has come to its end no chain and no hub stays, *)
(* and no MCP server but those whose pid file was never written.           *)
StoppedIsStopped ==
  finished \in {"stop", "clear"} =>
    Live("chain") = {} /\ Live("hub") = {} /\ Running("mcp") \subseteq strays

(* Once start.sh has come to its end the chain that is there to stay is    *)
(* the one its pid file names, also when the chain was reset on the way.   *)
StartedIsRecorded == finished = "start" => Live("chain") \subseteq {pidfile["chain"]}

(* start.sh can leave a second MCP server only if it was interrupted       *)
(* between the start of the first and the write of its pid file.           *)
McpIsRecorded ==
  Running("mcp") \ strays \subseteq
    {pidfile["mcp"]} \cup (IF Doing(<<"record", "mcp">>) THEN {child} ELSE {})

(* After clear.sh the chain starts from nothing, and no log makes a later  *)
(* start reset it.                                                         *)
ClearedIsClean ==
  finished = "clear" => home = "none" /\ ~logged /\ \A s \in Service : pidfile[s] = NoPid

(* "Chain state corruption detected - resetting": start.sh removes only a  *)
(* chain that is corrupt.                                                  *)
ResetOnlyIfCorrupt ==
  [][home = "good" /\ home' = "none" => script = "clear"]_vars
=============================================================================
