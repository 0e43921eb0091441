----------------------------- MODULE Supervisors -----------------------------
(***************************************************************************)
(* The supervisors of the host's two dashboard servers                     *)
(* (scripts/mcp-supervisor.sh, scripts/dashboard-backend.sh and            *)
(* scripts/contributor-dashboard.sh, with the Makefile's redeploy).        *)
(*                                                                         *)
(* Port 4451: a launchd agent with KeepAlive runs the MCP's dashboard      *)
(* server from dist.  It serves the build it was started from, whatever is *)
(* built later, and launchctl bootout only BEGINS to end it: the job stays *)
(* until its process is gone, and cannot be bootstrapped meanwhile.  The   *)
(* same program may be started by hand.                                    *)
(*                                                                         *)
(* Port 3001: a dev server, whose .next cache every rebuild of the stack   *)
(* corrupts.                                                               *)
(*                                                                         *)
(* One operator runs the scripts one after the other and may interrupt     *)
(* them anywhere; servers and launchd go on by themselves.                 *)
(***************************************************************************)
EXTENDS Naturals, Sequences

CONSTANTS
  MaxBuilds,  (* Bound of the model: builds of dist.                       *)
  MaxStacks,  (* Bound of the model: rebuilds of the stack.                *)
  MaxRuns     (* Bound of the model: scripts run.                          *)

ASSUME BoundAssumption == {MaxBuilds, MaxStacks, MaxRuns} \subseteq Nat

VARIABLES
  script,    (* The script that is running.                                *)
  todo,      (* The steps it has still to do.                              *)
  runs,      (* How many were run.                                         *)
  reported,  (* The script run last, if it reported success.               *)
  began,     (* The build there was when it began, or that it made.        *)
  dist,      (* The build in wevibe-mcp/dist.                              *)
  job,       (* The launchd job of the agent.                              *)
  server,    (* What every server does.                                    *)
  stack,     (* How often the stack was rebuilt.                           *)
  cache,     (* The stack the dev server's cache was last wiped for.       *)
  leftover,  (* History: dev servers that were starting up, not listening, *)
             (* when the port was freed.                                   *)
  refused    (* History: launchd has refused to end the loaded job, and    *)
             (* the script has gone on.                                    *)

scriptVars == <<script, todo, runs, reported, began>>
launchdVars == <<job, server>>
buildVars == <<dist, stack, cache>>
history == <<leftover, refused>>
vars == <<scriptVars, launchdVars, buildVars, history>>

(* The agent's process, one started by hand, and the dev servers.          *)
Mcp == {"agent", "hand"}
Dev == {"dev", "dev2"}
Site(o) == IF o \in Mcp THEN Mcp ELSE Dev

(* A server serves what there was when it was started: the build, or the   *)
(* stack its cache was wiped for.                                          *)
Server == [is : {"none", "booting", "listening"}, of : Nat]
Gone == [is |-> "none", of |-> 0]
Booting(n) == [is |-> "booting", of |-> n]

Listening(S) == {o \in S : server[o].is = "listening"}

Init ==
  /\ script = "none" /\ todo = <<>> /\ runs = 0 /\ reported = "none" /\ began = 0
  /\ dist = 0 /\ stack = 0 /\ cache = 0
  /\ job = "none"
  /\ server = [o \in Mcp \cup Dev |-> Gone]
  /\ leftover = {}
  /\ refused = FALSE

-----------------------------------------------------------------------------
(* The scripts.                                                            *)

McpUp == <<"free_mcp", "plist", "bootout", "bootstrap_or_load", "health">>

(* Faulty variant: the port is freed, and the agent left alone.            *)
McpDownFreeing == <<"free_mcp", "port_free">>

McpDown == <<"bootout", "port_free">>

BackendUp == <<"preflight", "bootstrap_or_reload", "health">>
BackendDown == <<"bootout">>
BackendRestart == <<"preflight", "bootout", "bootstrap", "health">>

(* Faulty variant: the cache is kept.                                      *)
DevUpKept == <<"free_dev", "spawn", "listen">>

DevUp == <<"free_dev", "wipe", "spawn", "listen">>
DevDown == <<"free_dev">>

Steps(s) ==
  CASE s = "mcp-up"              -> McpUp
    [] s = "mcp-down"            -> McpDown
    [] s = "mcp-restart"         -> McpDown \o McpUp
    [] s = "backend-up"          -> BackendUp
    [] s = "backend-down"        -> BackendDown
    [] s = "backend-restart"     -> BackendRestart
    [] s = "contributor-up"      -> DevUp
    [] s = "contributor-down"    -> DevDown
    [] s = "contributor-restart" -> DevDown \o DevUp
    [] s = "host-mcp-build"      -> <<"build">>
    [] s = "docker-up"           -> <<"stack">>
    [] s = "redeploy"            -> <<"stack", "build">> \o BackendRestart \o DevDown \o DevUp

Backends == {"mcp-up", "mcp-restart", "backend-up", "backend-restart", "redeploy"}
Dashboards == {"contributor-up", "contributor-restart", "redeploy"}
Downs == {"mcp-down", "backend-down"}
Scripts == Backends \cup Dashboards \cup Downs
             \cup {"contributor-down", "host-mcp-build", "docker-up"}

Begin(s) ==
  /\ script = "none" /\ runs < MaxRuns
  /\ script' = s /\ todo' = Steps(s) /\ runs' = runs + 1
  /\ reported' = "none" /\ began' = dist
  /\ refused' = FALSE
  /\ UNCHANGED <<launchdVars, buildVars, leftover>>

(* Its last command succeeded.                                             *)
End ==
  /\ script # "none" /\ todo = <<>>
  /\ script' = "none" /\ reported' = script
  /\ UNCHANGED <<todo, runs, began, launchdVars, buildVars, history>>

(* A command fails (set -e; make goes no further either), a wait times out *)
(* or the operator interrupts the script.                                  *)
Abandon ==
  /\ script' = "none" /\ todo' = <<>>
  /\ UNCHANGED <<runs, reported, began>>

Interrupt ==
  /\ script # "none"
  /\ Abandon
  /\ UNCHANGED <<launchdVars, buildVars, history>>

Doing(step) == todo # <<>> /\ Head(todo) = step
GoOn == todo' = Tail(todo) /\ UNCHANGED <<script, runs, reported, began>>
(* The step is replaced by others.                                         *)
Instead(steps) ==
  todo' = steps \o Tail(todo) /\ UNCHANGED <<script, runs, reported, began>>

-----------------------------------------------------------------------------
(* The steps.  Any of them may fail, which is an Interrupt.                *)

(* free_port_listener: who listens at the port is told to end, and killed  *)
(* a second later.  A server that does not listen yet is not found.        *)
FreePort(step, S) ==
  /\ Doing(step)
  /\ server' = [o \in DOMAIN server |-> IF o \in Listening(S) THEN Gone ELSE server[o]]
  /\ leftover' = IF S = Dev THEN {d \in Dev : server'[d] # Gone} ELSE leftover
  /\ GoOn
  /\ UNCHANGED <<job, refused, buildVars>>

(* generate_plist and preflight leave nothing the servers look at.         *)
Check ==
  /\ Doing("plist") \/ Doing("preflight")
  /\ GoOn
  /\ UNCHANGED <<launchdVars, buildVars, history>>

(* launchctl bootout, or unload, "|| true": the job is told to end, unless *)
(* launchd refuses, which the scripts do not look at.                      *)
Unload ==
  /\ job' \in (IF job = "loaded" THEN {"loaded", "leaving"} ELSE {job})
  /\ refused' = (refused \/ job' = "loaded")

(* mcp-supervisor.sh down tries unload when bootout fails; both may.       *)
Bootout ==
  /\ Doing("bootout")
  /\ Unload
  /\ GoOn
  /\ UNCHANGED <<server, buildVars, leftover>>

Load == job = "none" /\ job' = "loaded"

(* Faulty variant: what load answers is ignored, too.                      *)
BootstrapAnyway ==
  /\ \E step \in {"bootstrap", "bootstrap_or_load", "bootstrap_or_reload", "load"} : Doing(step)
  /\ Load \/ (job # "none" /\ UNCHANGED job)
  /\ GoOn
  /\ UNCHANGED <<server, buildVars, history>>

(* launchctl bootstrap, and load: only when the job is gone.               *)
Bootstrap ==
  /\ \E step \in {"bootstrap", "bootstrap_or_load", "bootstrap_or_reload", "load"} : Doing(step)
  /\ Load
  /\ GoOn
  /\ UNCHANGED <<server, buildVars, history>>

(* Faulty variant: an agent that is loaded already is taken for up.        *)
ReloadUnlessLoaded == IF job = "loaded" THEN <<>> ELSE <<"bootout", "bootstrap">>

(* "bootstrap failed (already loaded?); forcing reload..."                 *)
Reload == <<"bootout", "bootstrap">>

(* It fails: mcp-supervisor.sh unloads and loads, dashboard-backend.sh up  *)
(* boots out and bootstraps once more, and anything else ends the script.  *)
BootstrapFails ==
  /\ job # "none"
  /\ \/ Doing("bootstrap_or_load") /\ Unload /\ Instead(<<"load">>)
     \/ Doing("bootstrap_or_reload") /\ UNCHANGED <<job, refused>> /\ Instead(Reload)
     \/ (Doing("bootstrap") \/ Doing("load")) /\ Abandon /\ UNCHANGED <<job, refused>>
  /\ UNCHANGED <<server, buildVars, leftover>>

(* wait_for_health, wait_for_listen: somebody answers at the port.         *)
Answers ==
  /\ \/ Doing("health") /\ Listening(Mcp) # {}
     \/ Doing("listen") /\ Listening(Dev) # {}
  /\ GoOn
  /\ UNCHANGED <<launchdVars, buildVars, history>>

(* mcp down: "Confirmed: tcp:4451 is not listening".                       *)
PortFree ==
  /\ Doing("port_free")
  /\ Listening(Mcp) = {}
  /\ GoOn
  /\ UNCHANGED <<launchdVars, buildVars, history>>

(* nohup npx next dev.                                                     *)
SpawnDev ==
  /\ Doing("spawn")
  /\ \E d \in Dev :
       /\ server[d] = Gone
       /\ server' = [server EXCEPT ![d] = Booting(cache)]
       /\ leftover' = leftover \ {d}
  /\ GoOn
  /\ UNCHANGED <<job, refused, buildVars>>

(* clean_cache.                                                            *)
WipeCache ==
  /\ Doing("wipe")
  /\ cache' = stack
  /\ GoOn
  /\ UNCHANGED <<dist, stack, launchdVars, history>>

(* npm run build.                                                          *)
Build ==
  /\ Doing("build") /\ dist < MaxBuilds
  /\ dist' = dist + 1 /\ began' = dist + 1
  /\ todo' = Tail(todo)
  /\ UNCHANGED <<script, runs, reported, stack, cache, launchdVars, history>>

(* docker compose up --build.                                              *)
RebuildStack ==
  /\ Doing("stack") /\ stack < MaxStacks
  /\ stack' = stack + 1
  /\ GoOn
  /\ UNCHANGED <<dist, cache, launchdVars, history>>

ScriptStep ==
  \/ FreePort("free_mcp", Mcp) \/ FreePort("free_dev", Dev)
  \/ Check \/ Bootout \/ Bootstrap \/ BootstrapFails \/ Answers \/ PortFree
  \/ SpawnDev \/ WipeCache \/ Build \/ RebuildStack
  \/ End \/ Interrupt

-----------------------------------------------------------------------------
(* launchd, and the servers.                                               *)

Becomes(o, s) ==
  /\ server' = [server EXCEPT ![o] = s]
  /\ leftover' = IF s = Gone THEN leftover \ {o} ELSE leftover
  /\ UNCHANGED <<scriptVars, job, refused, buildVars>>

(* RunAtLoad and KeepAlive: a loaded job always gets a process.            *)
KeepAlive ==
  /\ job = "loaded" /\ server["agent"] = Gone
  /\ Becomes("agent", Booting(dist))

(* Somebody starts the program by hand.                                    *)
StartByHand ==
  /\ server["hand"] = Gone
  /\ Becomes("hand", Booting(dist))

(* A server that has started up listens, unless another one does: then it  *)
(* ends.  A process told to end does not begin to listen.                  *)
Listen(o) ==
  /\ server[o].is = "booting"
  /\ o = "agent" => job = "loaded"
  /\ Becomes(o, IF Listening(Site(o)) = {} THEN [server[o] EXCEPT !.is = "listening"] ELSE Gone)

(* A server crashes or is ended.                                           *)
Exit(o) ==
  /\ server[o] # Gone
  /\ Becomes(o, Gone)

(* The job is gone once its process is.                                    *)
BootoutCompletes ==
  /\ job = "leaving" /\ server["agent"] = Gone
  /\ job' = "none"
  /\ UNCHANGED <<server, scriptVars, buildVars, history>>

Environment ==
  \/ KeepAlive \/ StartByHand \/ BootoutCompletes
  \/ \E o \in Mcp \cup Dev : Listen(o) \/ Exit(o)

Next == (\E s \in Scripts : Begin(s)) \/ ScriptStep \/ Environment

Spec == Init /\ [][Next]_vars

-----------------------------------------------------------------------------
(* Properties.                                                             *)

(* Every variable has its type.                                            *)
TypeOK ==
  /\ script \in Scripts \cup {"none"} /\ reported \in Scripts \cup {"none"}
  /\ runs \in 0 .. MaxRuns
  /\ began \in 0 .. dist /\ dist \in 0 .. MaxBuilds
  /\ stack \in 0 .. MaxStacks /\ cache \in 0 .. stack
  /\ job \in {"none", "loaded", "leaving"}
  /\ server \in [Mcp \cup Dev -> Server]
  /\ leftover \in SUBSET Dev
  /\ refused \in BOOLEAN

(* "restart :4451 on the freshly built dist": once a script has reported   *)
(* the backend up, the agent never serves an older build than the one      *)
(* there was when the script began, or that redeploy made; only a server   *)
(* started by hand may, and hold the port.                                 *)
BackendIsFresh ==
  reported \in Backends /\ server["agent"].is = "listening" => server["agent"].of >= began

(* A backend that is reported up stays up: the agent is loaded, and a      *)
(* crash of its process is repaired, whichever way the job was loaded and  *)
(* however long the one before took to leave.                              *)
UpIsKeptAlive == reported \in Backends => job = "loaded"

(* "KeepAlive will NOT respawn": a reported down leaves the job loaded     *)
(* only if launchd refused to end it, which the scripts swallow and report *)
(* a down all the same.  If it did not, no process of the agent begins to  *)
(* listen any more, and after mcp-down none does.                          *)
DownStaysDown ==
  reported \in Downs /\ ~ refused =>
    /\ job # "loaded"
    /\ reported = "mcp-down" => server["agent"].is # "listening"

(* "WIPE the .next cache, and start a fresh dev server": the dashboard     *)
(* that is reported up runs on a cache wiped after the last rebuild of the *)
(* stack - unless a server of an earlier run was still starting up when    *)
(* the port was freed, and took the port.                                  *)
DashboardIsFresh ==
  reported \in Dashboards =>
    \A d \in Listening(Dev) \ leftover : server[d].of = stack
=============================================================================
