-------------------------- MODULE SupervisorsProofs --------------------------
(***************************************************************************)
(* Proofs about Supervisors, for every number of dev servers, builds and   *)
(* scripts that are run, interrupted or fail on the way.                   *)
(*                                                                         *)
(* What a script has reached follows from what it has still to do: the     *)
(* agent is loaded and serves the build there is once no step that loads   *)
(* it is left, it is unloaded once no bootout is left, and the cache is    *)
(* the stack's once no wipe is left. The order of the steps makes this     *)
(* inductive: a step that undoes one of these is always followed by one    *)
(* that does it again. When nothing is left to do, this is what the script *)
(* reports.                                                                *)
(***************************************************************************)
EXTENDS Supervisors, Lemmas

StepNames ==
  {"free_mcp", "plist", "preflight", "bootout", "bootstrap_or_load", "bootstrap_or_reload",
   "bootstrap", "load", "health", "port_free", "free_dev", "wipe", "spawn", "listen",
   "build", "stack"}

Loads == {"bootstrap", "bootstrap_or_load", "bootstrap_or_reload", "load"}

(* The script whose effect is under way, or was reported.                  *)
Current == IF script = "none" THEN reported ELSE script

(* The agent serves no build older than the script's.                      *)
AgentIsFresh == server["agent"] # Gone => server["agent"].of >= began

(* The dev servers that are not left over serve the stack there is.        *)
DevsAreFresh == \A d \in Dev \ leftover : server[d] # Gone => server[d].of = stack

Bookkeeping ==
  /\ todo \in Seq(StepNames)
  /\ script = "none" => todo = <<>>
  /\ script # "none" => reported = "none"

JobInv == job = "none" => server["agent"] = Gone

BackendInv ==
  Current \in Backends =>
    /\ Followed(todo, {"bootout", "build"}, Loads)
    /\ ~ Contains(todo, Loads) => job = "loaded" /\ AgentIsFresh

DownInv ==
  /\ Current = "mcp-down" => todo \in {McpDown, <<"port_free">>, <<>>}
  /\ Current = "backend-down" => todo \in {BackendDown, <<>>}
  /\ Current \in Downs /\ ~ Contains(todo, {"bootout"}) /\ ~ refused => job # "loaded"
  /\ Current = "mcp-down" /\ todo = <<>> /\ ~ refused => server["agent"].is # "listening"

DashboardInv ==
  Current \in Dashboards =>
    /\ Followed(todo, {"stack"}, {"free_dev"}) /\ Followed(todo, {"stack"}, {"wipe"})
    /\ Before(todo, {"spawn"}, {"wipe"})
    /\ ~ Contains(todo, {"free_dev"}) => DevsAreFresh
    /\ ~ Contains(todo, {"wipe"}) => cache = stack

SupervisorsInv ==
  TypeOK /\ Bookkeeping /\ JobInv /\ BackendInv /\ DownInv /\ DashboardInv

-----------------------------------------------------------------------------
(* The sequences of steps that scripts are put together of.                *)
LEMMA PartsTyped ==
  /\ McpUp \in Seq(StepNames) /\ McpDown \in Seq(StepNames) /\ BackendUp \in Seq(StepNames)
  /\ BackendDown \in Seq(StepNames) /\ BackendRestart \in Seq(StepNames)
  /\ DevUp \in Seq(StepNames) /\ DevDown \in Seq(StepNames)
  /\ <<"stack", "build">> \in Seq(StepNames) /\ <<"build">> \in Seq(StepNames)
  /\ <<"stack">> \in Seq(StepNames) /\ Reload \in Seq(StepNames)
  /\ <<"load">> \in Seq(StepNames) /\ <<>> \in Seq(StepNames)
  BY DEF McpUp, McpDown, BackendUp, BackendDown, BackendRestart, DevUp, DevDown, Reload, StepNames

(* mcp-up loads the agent after it has unloaded it.                        *)
LEMMA McpUpSteps ==
  Followed(McpUp, {"bootout", "build"}, Loads) /\ Contains(McpUp, Loads)
  BY DEF McpUp, Followed, Contains, Loads

(* So does the part of redeploy that restarts the backend.                 *)
LEMMA BackendRestartSteps ==
  /\ Followed(BackendRestart, {"bootout", "build"}, Loads) /\ Contains(BackendRestart, Loads)
  /\ ~ Contains(BackendRestart, {"stack", "spawn", "wipe", "free_dev"})
  BY DEF BackendRestart, Followed, Contains, Loads

(* A dev server that is started is preceded by a free port and a wiped     *)
(* cache.                                                                  *)
LEMMA DevSteps ==
  /\ Contains(DevUp, {"free_dev"}) /\ Contains(DevUp, {"wipe"})
  /\ Before(DevUp, {"spawn"}, {"wipe"})
  /\ ~ Contains(DevUp, {"stack"}) /\ ~ Contains(DevUp, {"bootout", "build"})
  /\ ~ Contains(DevDown, {"stack", "spawn", "wipe"}) /\ ~ Contains(DevDown, {"bootout", "build"})
  BY DEF DevUp, DevDown, Before, Contains

(* Every script is made of these steps.                                    *)
LEMMA StepsTyped ==
  ASSUME NEW s \in Scripts
  PROVE  Steps(s) \in Seq(StepNames)
<1>1. /\ McpDown \o McpUp \in Seq(StepNames) /\ DevDown \o DevUp \in Seq(StepNames)
      /\ <<"stack", "build">> \o BackendRestart \in Seq(StepNames)
  BY PartsTyped, ConcatFacts
<1>2. (<<"stack", "build">> \o BackendRestart) \o DevDown \in Seq(StepNames)
  BY <1>1, PartsTyped, ConcatFacts
<1>3. <<"stack", "build">> \o BackendRestart \o DevDown \o DevUp \in Seq(StepNames)
  BY <1>2, PartsTyped, ConcatFacts
<1>4. CASE s \in Downs \cup {"mcp-up", "backend-up", "backend-restart"}
  BY <1>4, PartsTyped DEF Steps, Downs
<1>5. CASE s \in {"contributor-up", "contributor-down", "host-mcp-build", "docker-up"}
  BY <1>5, PartsTyped DEF Steps
<1>6. CASE s \in {"mcp-restart", "contributor-restart", "redeploy"}
  BY <1>1, <1>3, <1>6 DEF Steps
<1> QED
  BY <1>4, <1>5, <1>6 DEF Scripts, Backends, Dashboards, Downs

(* After its last build and its last bootout a script that brings a        *)
(* backend up loads it.                                                    *)
LEMMA BackendSteps ==
  ASSUME NEW s \in Backends
  PROVE  Followed(Steps(s), {"bootout", "build"}, Loads) /\ Contains(Steps(s), Loads)
<1> DEFINE A == {"bootout", "build"}
           rs == <<"stack", "build">> \o BackendRestart
<1>1. CASE s = "mcp-up"
  BY <1>1, McpUpSteps DEF Steps
<1>2. CASE s = "mcp-restart"
  <2>1. Followed(McpDown \o McpUp, A, Loads) /\ Contains(McpDown \o McpUp, Loads)
    BY McpUpSteps, PartsTyped, FollowedConcat, ContainsConcat
  <2> QED
    BY <1>2, <2>1 DEF Steps
<1>3. CASE s = "backend-up"
  BY <1>3 DEF Steps, BackendUp, Followed, Contains, Loads
<1>4. CASE s = "backend-restart"
  BY <1>4, BackendRestartSteps DEF Steps
<1>5. CASE s = "redeploy"
  <2>1. rs \in Seq(StepNames) /\ rs \o DevDown \in Seq(StepNames)
    BY PartsTyped, ConcatFacts
  <2>2. Followed(rs, A, Loads) /\ Contains(rs, Loads)
    BY BackendRestartSteps, PartsTyped, FollowedConcat, ContainsConcat
  <2>3. Followed(DevDown, A, Loads) /\ Followed(DevUp, A, Loads)
    BY DevSteps, PartsTyped, NoneFollowed
  <2>4. Followed(rs \o DevDown, A, Loads) /\ Contains(rs \o DevDown, Loads)
    BY <2>1, <2>2, <2>3, PartsTyped, FollowedConcat, ContainsConcat
  <2>5. Followed(rs \o DevDown \o DevUp, A, Loads) /\ Contains(rs \o DevDown \o DevUp, Loads)
    BY <2>1, <2>3, <2>4, PartsTyped, FollowedConcat, ContainsConcat
  <2> QED
    BY <1>5, <2>5 DEF Steps
<1> QED
  BY <1>1, <1>2, <1>3, <1>4, <1>5 DEF Backends

(* After its last build of the stack a script that brings a dashboard up   *)
(* frees the port and wipes the cache, and it starts nothing before it     *)
(* has.                                                                    *)
LEMMA DashboardSteps ==
  ASSUME NEW s \in Dashboards
  PROVE  /\ Followed(Steps(s), {"stack"}, {"free_dev"}) /\ Followed(Steps(s), {"stack"}, {"wipe"})
         /\ Before(Steps(s), {"spawn"}, {"wipe"})
         /\ Contains(Steps(s), {"free_dev"}) /\ Contains(Steps(s), {"wipe"})
<1> DEFINE Good(t) ==
             /\ Followed(t, {"stack"}, {"free_dev"}) /\ Followed(t, {"stack"}, {"wipe"})
             /\ Before(t, {"spawn"}, {"wipe"})
             /\ Contains(t, {"free_dev"}) /\ Contains(t, {"wipe"})
<1>1. Good(DevUp)
  BY DevSteps, PartsTyped, NoneFollowed
<1>2. ASSUME NEW t \in Seq(StepNames), ~ Contains(t, {"spawn"})
      PROVE  Good(t \o DevUp)
  <2>1. Before(t, {"spawn"}, {"wipe"})
    BY <1>2, NoneFollowed
  <2> QED
    BY <1>1, <1>2, <2>1, PartsTyped, FollowedConcat, BeforeConcat, ContainsConcat
<1>3. ~ Contains(DevDown, {"spawn"})
  BY DEF DevDown, Contains
<1>4. CASE s = "contributor-up"
  BY <1>1, <1>4 DEF Steps
<1>5. CASE s = "contributor-restart"
  BY <1>2, <1>3, <1>5, PartsTyped DEF Steps
<1>6. CASE s = "redeploy"
  <2> DEFINE rs == <<"stack", "build">> \o BackendRestart
  <2>1. rs \in Seq(StepNames) /\ rs \o DevDown \in Seq(StepNames)
    BY PartsTyped, ConcatFacts
  <2>2. ~ Contains(<<"stack", "build">>, {"spawn"}) /\ ~ Contains(BackendRestart, {"spawn"})
    BY DEF BackendRestart, Contains
  <2>3. ~ Contains(rs \o DevDown, {"spawn"})
    <3>1. ~ Contains(rs, {"spawn"})
      BY <2>2, PartsTyped, ContainsConcat
    <3> HIDE DEF rs
    <3> QED
      BY <1>3, <2>1, <3>1, PartsTyped, ContainsConcat
  <2> HIDE DEF Good
  <2>4. Good(rs \o DevDown \o DevUp)
    BY <1>2, <2>1, <2>3
  <2> QED
    BY <1>6, <2>4 DEF Steps, Good
<1> QED
  BY <1>4, <1>5, <1>6 DEF Dashboards

-----------------------------------------------------------------------------
(* What a step of a script does, by its name.                              *)
Does(x) ==
  /\ x \in StepNames /\ Doing(x) /\ todo' = Tail(todo) /\ UNCHANGED <<script, reported>>
  /\ x \in Loads => job = "none" /\ job' = "loaded"
  /\ x = "bootout" => (job' = "loaded" => refused') /\ (job' = "none" => job = "none")
  /\ x \notin Loads \cup {"bootout"} => UNCHANGED <<job, refused>>
  /\ x # "build" => began' = began
  /\ server'["agent"] = server["agent"] \/ server'["agent"] = Gone
  /\ x = "port_free" => server["agent"].is # "listening" /\ server' = server
  /\ x # "stack" => stack' = stack
  /\ x \notin {"stack", "wipe"} => cache' = cache
  /\ x = "wipe" => cache' = stack
  /\ x = "free_dev" => DevsAreFresh'
  /\ x \notin {"free_dev", "stack"} /\ DevsAreFresh /\ (x = "spawn" => cache = stack) =>
       DevsAreFresh'

(* A bootstrap that fails and is made up for.                              *)
Replaces(p) ==
  /\ todo # <<>> /\ Head(todo) \in Loads
  /\ todo' = p \o Tail(todo)
  /\ job' = job \/ (job = "loaded" /\ job' = "leaving")
  /\ UNCHANGED <<script, runs, reported, began, server, buildVars, leftover>>

Abandons == Abandon /\ script # "none" /\ UNCHANGED <<launchdVars, buildVars, history>>

(* What launchd and the servers do.                                        *)
Moves ==
  /\ UNCHANGED <<scriptVars, buildVars, refused>>
  /\ job' = job \/ (job = "leaving" /\ server["agent"] = Gone /\ job' = "none")
  /\ job # "loaded" => server'["agent"] = server["agent"] \/ server'["agent"] = Gone
  /\ server'["agent"] # Gone =>
       \/ server["agent"] # Gone /\ server'["agent"].of = server["agent"].of
       \/ server'["agent"].of = dist
  /\ DevsAreFresh => DevsAreFresh'

(* Freeing a port ends what listens there and starts nothing.              *)
LEMMA FreePortDoes ==
  ASSUME SupervisorsInv, NEW x, NEW S, FreePort(x, S),
         <<x, S>> = <<"free_mcp", Mcp>> \/ <<x, S>> = <<"free_dev", Dev>>
  PROVE  Does(x)
<1>1. /\ server \in [Mcp \cup Dev -> Server]
      /\ server' = [o \in Mcp \cup Dev |-> IF o \in Listening(S) THEN Gone ELSE server[o]]
  BY DEF FreePort, SupervisorsInv, TypeOK
<1>2. \A o \in Mcp \cup Dev : server'[o] = server[o] \/ server'[o] = Gone
  BY <1>1
<1>3. server'["agent"] = server["agent"] \/ server'["agent"] = Gone
  BY <1>2 DEF Mcp
<1>4. x \in {"free_mcp", "free_dev"} /\ Doing(x) /\ GoOn
      /\ UNCHANGED <<job, refused, buildVars>>
  BY DEF FreePort
<1>5. CASE x = "free_mcp"
  <2>1. leftover' = leftover
    BY <1>5 DEF FreePort, Mcp, Dev
  <2>2. DevsAreFresh => DevsAreFresh'
    BY <1>2, <1>4, <2>1 DEF DevsAreFresh, buildVars
  <2> QED
    BY <1>3, <1>4, <1>5, <2>2 DEF Does, GoOn, Loads, StepNames, buildVars
<1>6. CASE x = "free_dev"
  <2>1. leftover' = {d \in Dev : server'[d] # Gone}
    BY <1>6 DEF FreePort
  <2>2. DevsAreFresh'
    BY <2>1 DEF DevsAreFresh
  <2> QED
    BY <1>3, <1>4, <1>6, <2>2 DEF Does, GoOn, Loads, StepNames, buildVars
<1> QED
  BY <1>4, <1>5, <1>6

(* Every step of a script is one of these.                                 *)
LEMMA ScriptDoes ==
  ASSUME SupervisorsInv, ScriptStep
  PROVE  (\E x \in StepNames : Does(x)) \/ Replaces(<<"load">>) \/ Replaces(Reload)
           \/ Abandons \/ End
<1>1. CASE FreePort("free_mcp", Mcp)
  <2>1. Does("free_mcp")
    BY <1>1, FreePortDoes
  <2> QED
    BY <2>1 DEF Does
<1>2. CASE FreePort("free_dev", Dev)
  <2>1. Does("free_dev")
    BY <1>2, FreePortDoes
  <2> QED
    BY <2>1 DEF Does
<1>3. CASE Check
  <2>1. PICK x \in {"plist", "preflight"} : Doing(x)
    BY <1>3 DEF Check
  <2>2. Does(x)
    BY <1>3, <2>1 DEF Check, Does, GoOn, Loads, StepNames, DevsAreFresh, launchdVars, buildVars, history
  <2> QED
    BY <2>2 DEF Does
<1>4. CASE Bootout
  <2>1. Does("bootout")
    BY <1>4 DEF Bootout, Unload, Does, GoOn, Loads, StepNames, DevsAreFresh, buildVars
  <2> QED
    BY <2>1 DEF Does
<1>5. CASE Bootstrap
  <2>1. PICK x \in Loads : Doing(x)
    BY <1>5 DEF Bootstrap, Loads
  <2>2. Does(x)
    BY <1>5, <2>1 DEF Bootstrap, Load, Does, GoOn, Loads, StepNames, DevsAreFresh, buildVars, history
  <2> QED
    BY <2>2 DEF Does
<1>6. CASE BootstrapFails
  <2>1. CASE Doing("bootstrap_or_load") /\ Unload /\ Instead(<<"load">>)
    BY <1>6, <2>1 DEF BootstrapFails, Replaces, Doing, Unload, Instead, Loads
  <2>2. CASE Doing("bootstrap_or_reload") /\ UNCHANGED <<job, refused>> /\ Instead(Reload)
    BY <1>6, <2>2 DEF BootstrapFails, Replaces, Doing, Instead, Loads
  <2>3. CASE (Doing("bootstrap") \/ Doing("load")) /\ Abandon /\ UNCHANGED <<job, refused>>
    <3>1. script # "none"
      BY <2>3 DEF SupervisorsInv, Bookkeeping, Doing
    <3> QED
      BY <1>6, <2>3, <3>1 DEF BootstrapFails, Abandons, launchdVars, history
  <2> QED
    BY <1>6, <2>1, <2>2, <2>3 DEF BootstrapFails
<1>7. CASE Answers
  <2>1. PICK x \in {"health", "listen"} : Doing(x)
    BY <1>7 DEF Answers
  <2>2. Does(x)
    BY <1>7, <2>1 DEF Answers, Does, GoOn, Loads, StepNames, DevsAreFresh, launchdVars, buildVars, history
  <2> QED
    BY <2>2 DEF Does
<1>8. CASE PortFree
  <2>1. server["agent"].is # "listening"
    BY <1>8 DEF PortFree, Listening, Mcp
  <2>2. Does("port_free")
    BY <1>8, <2>1 DEF PortFree, Does, GoOn, Loads, StepNames, DevsAreFresh, launchdVars, buildVars, history
  <2> QED
    BY <2>2 DEF Does
<1>9. CASE SpawnDev
  <2>1. PICK d \in Dev :
          /\ server' = [server EXCEPT ![d] = Booting(cache)] /\ leftover' = leftover \ {d}
    BY <1>9 DEF SpawnDev
  <2>2. server \in [Mcp \cup Dev -> Server]
    BY DEF SupervisorsInv, TypeOK
  <2>3. server'["agent"] = server["agent"]
    BY <2>1, <2>2 DEF Mcp, Dev
  <2>4. DevsAreFresh /\ cache = stack => DevsAreFresh'
    <3>1. \A c \in Dev : server'[c] = server[c] \/ (c = d /\ server'[c].of = cache)
      BY <2>1, <2>2 DEF Booting
    <3>2. stack' = stack
      BY <1>9 DEF SpawnDev, buildVars
    <3> SUFFICES ASSUME DevsAreFresh, cache = stack,
                        NEW c \in Dev \ leftover', server'[c] # Gone
                 PROVE  server'[c].of = stack
      BY <3>2 DEF DevsAreFresh
    <3>3. CASE c = d
      BY <2>1, <2>2, <3>3 DEF Booting
    <3>4. CASE c # d
      BY <2>1, <2>2, <3>4 DEF DevsAreFresh
    <3> QED
      BY <3>3, <3>4
  <2>5. Does("spawn")
    BY <1>9, <2>3, <2>4 DEF SpawnDev, Does, GoOn, Loads, StepNames, buildVars
  <2> QED
    BY <2>5 DEF Does
<1>10. CASE WipeCache
  <2>1. Does("wipe")
    BY <1>10 DEF WipeCache, Does, GoOn, Loads, StepNames, DevsAreFresh, launchdVars, history
  <2> QED
    BY <2>1 DEF Does
<1>11. CASE Build
  <2>1. Does("build")
    BY <1>11 DEF Build, Does, Loads, StepNames, DevsAreFresh, launchdVars, history
  <2> QED
    BY <2>1 DEF Does
<1>12. CASE RebuildStack
  <2>1. Does("stack")
    BY <1>12 DEF RebuildStack, Does, GoOn, Loads, StepNames, DevsAreFresh, launchdVars, history
  <2> QED
    BY <2>1 DEF Does
<1>13. CASE End
  BY <1>13
<1>14. CASE Interrupt
  BY <1>14 DEF Interrupt, Abandons
<1> QED
  BY <1>1, <1>2, <1>3, <1>4, <1>5, <1>6, <1>7, <1>8, <1>9, <1>10, <1>11, <1>12, <1>13, <1>14
  DEF ScriptStep

(* A server that changes by itself serves what it was started from.        *)
LEMMA BecomesMoves ==
  ASSUME SupervisorsInv, NEW o \in Mcp \cup Dev, NEW s, Becomes(o, s),
         \/ s = Gone
         \/ o \in Mcp /\ s = Booting(dist) /\ (o = "agent" => job = "loaded")
         \/ server[o] # Gone /\ s.of = server[o].of /\ (o = "agent" => job = "loaded")
  PROVE  Moves
<1>1. /\ server \in [Mcp \cup Dev -> Server]
      /\ server' = [server EXCEPT ![o] = s]
      /\ leftover' = IF s = Gone THEN leftover \ {o} ELSE leftover
      /\ UNCHANGED <<scriptVars, job, refused, buildVars>>
  BY DEF SupervisorsInv, TypeOK, Becomes
<1>2. DevsAreFresh => DevsAreFresh'
  <2> SUFFICES ASSUME DevsAreFresh, NEW d \in Dev \ leftover', server'[d] # Gone
               PROVE  server'[d].of = stack
    BY <1>1 DEF DevsAreFresh, buildVars
  <2>1. CASE d # o
    BY <1>1, <2>1 DEF DevsAreFresh
  <2>2. CASE d = o
    <3>1. server'[d] = s
      BY <1>1, <2>2
    <3>2. s # Gone /\ d \notin leftover /\ d \notin Mcp
      BY <1>1, <3>1 DEF Mcp, Dev
    <3> QED
      BY <2>2, <3>1, <3>2 DEF DevsAreFresh
  <2> QED
    BY <2>1, <2>2
<1>3. CASE o # "agent"
  <2>1. server'["agent"] = server["agent"]
    BY <1>1, <1>3 DEF Mcp
  <2> QED
    BY <1>1, <1>2, <2>1 DEF Moves
<1>4. CASE o = "agent"
  <2>1. server'["agent"] = s
    BY <1>1, <1>4
  <2> QED
    BY <1>1, <1>2, <1>4, <2>1 DEF Moves, Booting
<1> QED
  BY <1>3, <1>4

(* Every other step leaves the script alone.                               *)
LEMMA EnvironmentMoves ==
  ASSUME SupervisorsInv, Environment
  PROVE  Moves
<1>1. CASE KeepAlive
  BY <1>1, BecomesMoves DEF KeepAlive, Mcp
<1>2. CASE StartByHand
  BY <1>2, BecomesMoves DEF StartByHand, Mcp
<1>3. CASE BootoutCompletes
  BY <1>3 DEF BootoutCompletes, Moves, DevsAreFresh, buildVars, history
<1>4. ASSUME NEW o \in Mcp \cup Dev, Listen(o) PROVE Moves
  <2> DEFINE s == IF Listening(Site(o)) = {} THEN [server[o] EXCEPT !.is = "listening"] ELSE Gone
  <2>1. Becomes(o, s) /\ server[o].is = "booting" /\ (o = "agent" => job = "loaded")
    BY <1>4 DEF Listen
  <2>2. server[o] \in Server
    BY DEF SupervisorsInv, TypeOK
  <2>3. server[o] # Gone
    BY <2>1 DEF Gone
  <2>4. s = Gone \/ s.of = server[o].of
    BY <2>2 DEF Server
  <2> HIDE DEF s
  <2> QED
    BY <2>1, <2>3, <2>4, BecomesMoves
<1>5. ASSUME NEW o \in Mcp \cup Dev, Exit(o) PROVE Moves
  BY <1>5, BecomesMoves DEF Exit
<1> QED
  BY <1>1, <1>2, <1>3, <1>4, <1>5 DEF Environment

-----------------------------------------------------------------------------
(* The invariant.                                                          *)

(* Every step keeps the types.                                             *)
LEMMA TypesKept == TypeOK /\ Bookkeeping /\ [Next]_vars => TypeOK'
<1> SUFFICES ASSUME TypeOK, Bookkeeping, [Next]_vars PROVE TypeOK'
  OBVIOUS
<1> USE DEF TypeOK
<1>1. ASSUME NEW s \in Scripts, Begin(s) PROVE TypeOK'
  <2>1. refused' \in BOOLEAN
    BY <1>1 DEF Begin
  <2> QED
    BY <1>1, <2>1, BoundAssumption DEF Begin, launchdVars, buildVars
<1>2. ASSUME NEW x, NEW S, FreePort(x, S) PROVE TypeOK'
  <2>1. server' \in [Mcp \cup Dev -> Server]
    BY <1>2 DEF FreePort, Gone, Server
  <2>2. leftover' \in SUBSET Dev
    BY <1>2 DEF FreePort
  <2> QED
    BY <1>2, <2>1, <2>2 DEF FreePort, GoOn, buildVars
<1>3. CASE Check \/ Answers \/ PortFree
  BY <1>3 DEF Check, Answers, PortFree, GoOn, launchdVars, buildVars, history
<1>4. CASE Bootout \/ Bootstrap
  BY <1>4 DEF Bootout, Unload, Bootstrap, Load, GoOn, buildVars, history
<1>5. CASE BootstrapFails
  BY <1>5 DEF BootstrapFails, Unload, Instead, Abandon, buildVars
<1>6. CASE SpawnDev
  <2>1. PICK d \in Dev : server' = [server EXCEPT ![d] = Booting(cache)] /\ leftover' = leftover \ {d}
    BY <1>6 DEF SpawnDev
  <2>2. Booting(cache) \in Server
    BY DEF Booting, Server
  <2>3. server' \in [Mcp \cup Dev -> Server] /\ leftover' \in SUBSET Dev
    BY <2>1, <2>2
  <2> QED
    BY <1>6, <2>3 DEF SpawnDev, GoOn, buildVars
<1>7. CASE WipeCache \/ Build \/ RebuildStack
  BY <1>7, BoundAssumption DEF WipeCache, Build, RebuildStack, GoOn, launchdVars, history
<1>8. CASE End \/ Interrupt
  BY <1>8 DEF End, Interrupt, Abandon, launchdVars, buildVars, history
<1>9. ASSUME NEW o \in Mcp \cup Dev, NEW s \in Server, Becomes(o, s) PROVE TypeOK'
  <2>1. server' \in [Mcp \cup Dev -> Server] /\ leftover' \in SUBSET Dev
    BY <1>9 DEF Becomes
  <2> QED
    BY <1>9, <2>1 DEF Becomes, scriptVars, buildVars
<1>10. CASE Environment
  <2>1. Booting(dist) \in Server /\ Gone \in Server
    BY DEF Booting, Gone, Server
  <2>2. CASE KeepAlive \/ StartByHand
    BY <1>9, <2>1, <2>2 DEF KeepAlive, StartByHand, Mcp
  <2>3. CASE BootoutCompletes
    BY <2>3 DEF BootoutCompletes, scriptVars, buildVars, history
  <2>4. ASSUME NEW o \in Mcp \cup Dev, Listen(o) \/ Exit(o) PROVE TypeOK'
    <3>1. [server[o] EXCEPT !.is = "listening"] \in Server
      BY DEF Server
    <3> QED
      BY <1>9, <2>1, <2>4, <3>1 DEF Listen, Exit
  <2> QED
    BY <1>10, <2>2, <2>3, <2>4 DEF Environment
<1>11. CASE UNCHANGED vars
  BY <1>11 DEF vars, scriptVars, launchdVars, buildVars, history
<1> QED
  BY <1>1, <1>2, <1>3, <1>4, <1>5, <1>6, <1>7, <1>8, <1>10, <1>11 DEF Next, ScriptStep

(* Bookkeeping, and the job's record, after a step of each kind.           *)
LEMMA BookkeepingKept == SupervisorsInv /\ [Next]_vars => Bookkeeping'
<1> SUFFICES ASSUME SupervisorsInv, [Next]_vars PROVE Bookkeeping'
  OBVIOUS
<1>0. Bookkeeping
  BY DEF SupervisorsInv
<1>1. ASSUME NEW s \in Scripts, Begin(s) PROVE Bookkeeping'
  <2>1. s # "none"
    BY DEF Scripts, Backends, Dashboards, Downs
  <2> QED
    BY <1>1, <2>1, StepsTyped DEF Begin, Bookkeeping
<1>2. ASSUME NEW x \in StepNames, Does(x) PROVE Bookkeeping'
  <2>1. todo # <<>> /\ Tail(todo) \in Seq(StepNames)
    BY <1>0, <1>2, TailFacts DEF Does, Doing, Bookkeeping
  <2> QED
    BY <1>0, <1>2, <2>1 DEF Does, Bookkeeping
<1>3. ASSUME NEW p \in {<<"load">>, Reload}, Replaces(p) PROVE Bookkeeping'
  <2>1. todo # <<>> /\ Tail(todo) \in Seq(StepNames)
    BY <1>0, <1>3, TailFacts DEF Replaces, Bookkeeping
  <2>2. todo' \in Seq(StepNames)
    BY <1>3, <2>1, PartsTyped, ConcatFacts DEF Replaces
  <2> QED
    BY <1>0, <1>3, <2>1, <2>2 DEF Replaces, Bookkeeping
<1>4. CASE Abandons \/ End
  BY <1>0, <1>4, PartsTyped DEF Abandons, Abandon, End, Bookkeeping
<1>5. CASE Moves \/ UNCHANGED vars
  BY <1>0, <1>5 DEF Moves, vars, scriptVars, Bookkeeping
<1> QED
  BY <1>1, <1>2, <1>3, <1>4, <1>5, ScriptDoes, EnvironmentMoves DEF Next

(* A job that launchd has forgotten has no server.                         *)
LEMMA JobKept == SupervisorsInv /\ [Next]_vars => JobInv'
<1> SUFFICES ASSUME SupervisorsInv, [Next]_vars PROVE JobInv'
  OBVIOUS
<1>0. JobInv
  BY DEF SupervisorsInv
<1>1. ASSUME NEW s \in Scripts, Begin(s) PROVE JobInv'
  BY <1>0, <1>1 DEF Begin, launchdVars, JobInv
<1>2. ASSUME NEW x \in StepNames, Does(x) PROVE JobInv'
  BY <1>0, <1>2 DEF Does, JobInv
<1>3. ASSUME NEW p, Replaces(p) PROVE JobInv'
  BY <1>0, <1>3 DEF Replaces, JobInv
<1>4. CASE Abandons \/ End
  BY <1>0, <1>4 DEF Abandons, End, launchdVars, JobInv
<1>5. CASE Moves
  BY <1>0, <1>5 DEF Moves, JobInv
<1>6. CASE UNCHANGED vars
  BY <1>0, <1>6 DEF vars, launchdVars, JobInv
<1> QED
  BY <1>1, <1>2, <1>3, <1>4, <1>5, <1>6, ScriptDoes, EnvironmentMoves DEF Next

(* What a script that is begun, ended or abandoned leaves Current at.      *)
LEMMA CurrentScript ==
  ASSUME Bookkeeping
  PROVE  /\ \A s \in Scripts : Begin(s) => Current' = s
         /\ End => Current' = Current
         /\ Abandons => Current' = "none"
         /\ UNCHANGED <<script, reported>> => Current' = Current
<1>1. "none" \notin Scripts
  BY DEF Scripts, Backends, Dashboards, Downs
<1> QED
  BY <1>1 DEF Bookkeeping, Begin, End, Abandons, Abandon, Current

(* While a script works nothing is reported.                               *)
LEMMA NoneIsNoScript == "none" \notin Backends \cup Downs \cup Dashboards
  BY DEF Backends, Dashboards, Downs

(* Every step keeps what is promised of the backend.                       *)
LEMMA BackendKept == SupervisorsInv /\ [Next]_vars => BackendInv'
<1> SUFFICES ASSUME SupervisorsInv, [Next]_vars, Current' \in Backends
             PROVE  /\ Followed(todo, {"bootout", "build"}, Loads)'
                    /\ ~ Contains(todo, Loads)' => (job = "loaded" /\ AgentIsFresh)'
  BY DEF BackendInv
<1> DEFINE A == {"bootout", "build"}
           Goal == /\ Followed(todo', A, Loads)
                   /\ ~ Contains(todo', Loads) => (job = "loaded" /\ AgentIsFresh)'
<1>0. Bookkeeping /\ JobInv /\ BackendInv /\ todo \in Seq(StepNames)
  BY DEF SupervisorsInv, Bookkeeping
<1>1. ASSUME NEW s \in Scripts, Begin(s) PROVE Goal
  <2>1. s \in Backends /\ todo' = Steps(s)
    BY <1>0, <1>1, CurrentScript DEF Begin
  <2> QED
    BY <2>1, BackendSteps
<1>2. ASSUME NEW x \in StepNames, Does(x) PROVE Goal
  <2>1. todo # <<>> /\ Head(todo) = x /\ todo' = Tail(todo)
    BY <1>2 DEF Does, Doing
  <2>2. Current \in Backends
    BY <1>0, <1>2, CurrentScript DEF Does
  <2>3. Followed(todo, A, Loads) /\ (~ Contains(todo, Loads) => job = "loaded" /\ AgentIsFresh)
    BY <1>0, <2>2 DEF BackendInv
  <2>4. Followed(todo', A, Loads) /\ (x \in A => Contains(todo', Loads))
    BY <1>0, <2>1, <2>3, FollowedTail
  <2>5. Contains(todo, Loads) <=> x \in Loads \/ Contains(todo', Loads)
    BY <1>0, <2>1, ContainsTail
  <2>6. CASE x \in Loads
    BY <1>0, <1>2, <2>4, <2>6 DEF Does, JobInv, AgentIsFresh
  <2>7. CASE x \in A
    BY <2>4, <2>7
  <2>8. CASE x \notin Loads /\ x \notin A
    <3>1. job' = job /\ began' = began /\ (server'["agent"] = server["agent"] \/ server'["agent"] = Gone)
      BY <1>2, <2>8 DEF Does
    <3>2. AgentIsFresh => AgentIsFresh'
      BY <3>1 DEF AgentIsFresh
    <3> QED
      BY <2>3, <2>4, <2>5, <2>8, <3>1, <3>2
  <2> QED
    BY <2>6, <2>7, <2>8
<1>3. ASSUME NEW p \in {<<"load">>, Reload}, Replaces(p) PROVE Goal
  <2>1. /\ todo # <<>> /\ todo' = p \o Tail(todo) /\ Tail(todo) \in Seq(StepNames)
        /\ p \in Seq(StepNames)
    BY <1>0, <1>3, TailFacts, PartsTyped DEF Replaces
  <2>2. Followed(p, A, Loads) /\ Contains(p, Loads)
    BY DEF Followed, Contains, Loads, Reload
  <2>3. Current \in Backends
    BY <1>0, <1>3, CurrentScript DEF Replaces
  <2>4. Followed(Tail(todo), A, Loads)
    BY <1>0, <2>1, <2>3, FollowedTail DEF BackendInv
  <2> QED
    BY <2>1, <2>2, <2>4, FollowedConcat, ContainsConcat
<1>4. CASE End
  BY <1>0, <1>4, CurrentScript DEF End, launchdVars, BackendInv, AgentIsFresh
<1>5. CASE Abandons
  BY <1>0, <1>5, CurrentScript, NoneIsNoScript
<1>6. CASE Moves
  <2>1. Current \in Backends /\ todo' = todo /\ began' = began
    BY <1>0, <1>6, CurrentScript DEF Moves, scriptVars
  <2>2. AgentIsFresh => AgentIsFresh'
    <3>1. dist \in Nat /\ began \in Nat /\ began <= dist
      BY BoundAssumption DEF SupervisorsInv, TypeOK
    <3> QED
      BY <1>6, <2>1, <3>1 DEF Moves, AgentIsFresh
  <2> QED
    BY <1>0, <1>6, <2>1, <2>2 DEF Moves, BackendInv
<1>7. CASE UNCHANGED vars
  BY <1>0, <1>7, CurrentScript DEF vars, scriptVars, launchdVars, BackendInv, AgentIsFresh
<1> QED
  BY <1>1, <1>2, <1>3, <1>4, <1>5, <1>6, <1>7, ScriptDoes, EnvironmentMoves DEF Next

(* Every step keeps what is promised of a server that is down.             *)
LEMMA DownKept == SupervisorsInv /\ [Next]_vars => DownInv'
<1> SUFFICES ASSUME SupervisorsInv, [Next]_vars PROVE DownInv'
  OBVIOUS
<1> DEFINE P == <<"port_free">>
<1>0. Bookkeeping /\ DownInv
  BY DEF SupervisorsInv
<1>a. /\ Head(McpDown) = "bootout" /\ Tail(McpDown) = P /\ McpDown # <<>>
      /\ Head(BackendDown) = "bootout" /\ Tail(BackendDown) = <<>> /\ BackendDown # <<>>
      /\ Head(P) = "port_free" /\ Tail(P) = <<>> /\ P # <<>>
  BY DEF McpDown, BackendDown
<1>b. /\ Contains(McpDown, {"bootout"}) /\ Contains(BackendDown, {"bootout"})
      /\ ~ Contains(P, {"bootout"}) /\ ~ Contains(<<>>, {"bootout"})
  BY DEF Contains, McpDown, BackendDown
<1>c. \A c : c \in Downs <=> c = "mcp-down" \/ c = "backend-down"
  BY DEF Downs
<1> HIDE DEF P
<1>1. ASSUME NEW s \in Scripts, Begin(s) PROVE DownInv'
  <2>1. Current' = s /\ todo' = Steps(s)
    BY <1>0, <1>1, CurrentScript DEF Begin
  <2>2. /\ s = "mcp-down" => todo' = McpDown
        /\ s = "backend-down" => todo' = BackendDown
    BY <2>1 DEF Steps
  <2> QED
    BY <1>a, <1>b, <1>c, <2>1, <2>2 DEF DownInv, P
<1>2. ASSUME NEW x \in StepNames, Does(x) PROVE DownInv'
  <2>1. todo # <<>> /\ Head(todo) = x /\ todo' = Tail(todo) /\ Current' = Current
    BY <1>0, <1>2, CurrentScript DEF Does, Doing
  <2>2. CASE Current = "mcp-down" /\ todo = McpDown
    BY <1>2, <1>a, <1>b, <2>1, <2>2 DEF Does, DownInv, P
  <2>3. CASE Current = "mcp-down" /\ todo = P
    <3>1. ~ refused => job # "loaded"
      BY <1>0, <1>b, <1>c, <2>3 DEF DownInv
    <3>2. x = "port_free" /\ todo' = <<>>
      BY <1>a, <2>1, <2>3
    <3>3. job' = job /\ refused' = refused /\ server'["agent"].is # "listening"
      BY <1>2, <3>2 DEF Does, Loads
    <3> QED
      BY <1>c, <2>1, <2>3, <3>1, <3>2, <3>3 DEF DownInv
  <2>4. CASE Current = "backend-down" /\ todo = BackendDown
    BY <1>2, <1>a, <1>b, <2>1, <2>4 DEF Does, DownInv
  <2>5. CASE Current \notin Downs
    BY <1>c, <2>1, <2>5 DEF DownInv
  <2> QED
    BY <1>0, <1>c, <2>1, <2>2, <2>3, <2>4, <2>5 DEF DownInv, P
<1>3. ASSUME NEW p, Replaces(p) PROVE DownInv'
  <2>1. todo # <<>> /\ Head(todo) \in Loads /\ Current' = Current
    BY <1>0, <1>3, CurrentScript DEF Replaces
  <2>2. Current \notin Downs
    BY <1>0, <1>a, <1>c, <2>1 DEF DownInv, Loads, P
  <2> QED
    BY <1>c, <2>1, <2>2 DEF DownInv
<1>4. CASE End
  BY <1>0, <1>4, CurrentScript DEF End, launchdVars, DownInv, history
<1>5. CASE Abandons
  BY <1>0, <1>5, CurrentScript DEF DownInv, Downs
<1>6. CASE Moves
  <2>1. Current' = Current /\ todo' = todo /\ refused' = refused
    BY <1>0, <1>6, CurrentScript DEF Moves, scriptVars
  <2>2. job # "loaded" => job' # "loaded" /\ (server'["agent"] = server["agent"] \/ server'["agent"] = Gone)
    BY <1>6 DEF Moves
  <2>3. Gone.is # "listening"
    BY DEF Gone
  <2> QED
    BY <1>0, <1>b, <1>c, <2>1, <2>2, <2>3 DEF DownInv
<1>7. CASE UNCHANGED vars
  BY <1>0, <1>7, CurrentScript DEF vars, scriptVars, launchdVars, DownInv, history
<1> QED
  BY <1>1, <1>2, <1>3, <1>4, <1>5, <1>6, <1>7, ScriptDoes, EnvironmentMoves DEF Next

(* Every step keeps what is promised of the dashboard.                     *)
LEMMA DashboardKept == SupervisorsInv /\ [Next]_vars => DashboardInv'
<1> DEFINE Goal == /\ Followed(todo', {"stack"}, {"free_dev"})
                   /\ Followed(todo', {"stack"}, {"wipe"})
                   /\ Before(todo', {"spawn"}, {"wipe"})
                   /\ ~ Contains(todo', {"free_dev"}) => DevsAreFresh'
                   /\ ~ Contains(todo', {"wipe"}) => cache' = stack'
<1> SUFFICES ASSUME SupervisorsInv, [Next]_vars, Current' \in Dashboards PROVE Goal
  BY DEF DashboardInv
<1>0. Bookkeeping /\ DashboardInv /\ todo \in Seq(StepNames)
  BY DEF SupervisorsInv, Bookkeeping
<1>1. ASSUME NEW s \in Scripts, Begin(s) PROVE Goal
  <2>1. s \in Dashboards /\ todo' = Steps(s)
    BY <1>0, <1>1, CurrentScript DEF Begin
  <2> QED
    BY <2>1, DashboardSteps
<1>2. ASSUME NEW x \in StepNames, Does(x) PROVE Goal
  <2>1. todo # <<>> /\ Head(todo) = x /\ todo' = Tail(todo)
    BY <1>2 DEF Does, Doing
  <2>2. Current \in Dashboards
    BY <1>0, <1>2, CurrentScript DEF Does
  <2>3. /\ Followed(todo, {"stack"}, {"free_dev"}) /\ Followed(todo, {"stack"}, {"wipe"})
        /\ Before(todo, {"spawn"}, {"wipe"})
        /\ ~ Contains(todo, {"free_dev"}) => DevsAreFresh
        /\ ~ Contains(todo, {"wipe"}) => cache = stack
    BY <1>0, <2>2 DEF DashboardInv
  <2>4. /\ Followed(todo', {"stack"}, {"free_dev"}) /\ Followed(todo', {"stack"}, {"wipe"})
        /\ x = "stack" => Contains(todo', {"free_dev"}) /\ Contains(todo', {"wipe"})
    BY <1>0, <2>1, <2>3, FollowedTail
  <2>5. /\ Before(todo', {"spawn"}, {"wipe"})
        /\ x = "spawn" => ~ Contains(todo', {"wipe"})
    BY <1>0, <2>1, <2>3, BeforeTail
  <2>6. /\ Contains(todo, {"free_dev"}) <=> x = "free_dev" \/ Contains(todo', {"free_dev"})
        /\ Contains(todo, {"wipe"}) <=> x = "wipe" \/ Contains(todo', {"wipe"})
    BY <1>0, <2>1, ContainsTail
  <2>7. ~ Contains(todo', {"wipe"}) => cache' = stack'
    BY <1>2, <2>3, <2>4, <2>6 DEF Does
  <2>8. ASSUME ~ Contains(todo', {"free_dev"}) PROVE DevsAreFresh'
    <3>1. CASE x = "free_dev"
      BY <1>2, <3>1 DEF Does
    <3>2. CASE x # "free_dev"
      <4>1. x # "stack" /\ DevsAreFresh
        BY <2>3, <2>4, <2>6, <2>8, <3>2
      <4>2. x = "spawn" => cache = stack
        BY <2>3, <2>5, <2>6
      <4> QED
        BY <1>2, <3>2, <4>1, <4>2 DEF Does
    <3> QED
      BY <3>1, <3>2
  <2> QED
    BY <2>4, <2>5, <2>7, <2>8
<1>3. ASSUME NEW p \in {<<"load">>, Reload}, Replaces(p) PROVE Goal
  <2> DEFINE t == Tail(todo)
  <2>1. /\ todo # <<>> /\ Head(todo) \in Loads /\ todo' = p \o t
        /\ t \in Seq(StepNames) /\ p \in Seq(StepNames)
    BY <1>0, <1>3, TailFacts, PartsTyped DEF Replaces
  <2>2. /\ ~ Contains(p, {"stack"}) /\ ~ Contains(p, {"spawn"})
        /\ ~ Contains(p, {"free_dev"}) /\ ~ Contains(p, {"wipe"})
    BY DEF Contains, Reload
  <2>3. Current \in Dashboards
    BY <1>0, <1>3, CurrentScript DEF Replaces
  <2>4. /\ Followed(todo, {"stack"}, {"free_dev"}) /\ Followed(todo, {"stack"}, {"wipe"})
        /\ Before(todo, {"spawn"}, {"wipe"})
        /\ ~ Contains(todo, {"free_dev"}) => DevsAreFresh
        /\ ~ Contains(todo, {"wipe"}) => cache = stack
    BY <1>0, <2>3 DEF DashboardInv
  <2>5. /\ Followed(t, {"stack"}, {"free_dev"}) /\ Followed(t, {"stack"}, {"wipe"})
        /\ Before(t, {"spawn"}, {"wipe"})
    BY <1>0, <2>1, <2>4, FollowedTail, BeforeTail
  <2>6. /\ Followed(p, {"stack"}, {"free_dev"}) /\ Followed(p, {"stack"}, {"wipe"})
        /\ Before(p, {"spawn"}, {"wipe"})
    BY <2>1, <2>2, NoneFollowed
  <2>7. /\ Followed(todo', {"stack"}, {"free_dev"}) /\ Followed(todo', {"stack"}, {"wipe"})
        /\ Before(todo', {"spawn"}, {"wipe"})
    BY <2>1, <2>2, <2>5, <2>6, FollowedConcat, BeforeConcat
  <2>8. /\ Contains(todo', {"free_dev"}) <=> Contains(t, {"free_dev"})
        /\ Contains(todo', {"wipe"}) <=> Contains(t, {"wipe"})
    BY <2>1, <2>2, ContainsConcat
  <2>9. /\ Contains(todo, {"free_dev"}) <=> Contains(t, {"free_dev"})
        /\ Contains(todo, {"wipe"}) <=> Contains(t, {"wipe"})
    <3>1. Head(todo) \notin {"free_dev"} /\ Head(todo) \notin {"wipe"}
      BY <2>1 DEF Loads
    <3> QED
      BY <1>0, <2>1, <3>1, ContainsTail
  <2>10. UNCHANGED <<server, stack, cache, leftover>>
    BY <1>3 DEF Replaces, buildVars
  <2> QED
    BY <2>4, <2>7, <2>8, <2>9, <2>10 DEF DevsAreFresh
<1>4. CASE End
  BY <1>0, <1>4, CurrentScript
  DEF End, launchdVars, buildVars, DashboardInv, DevsAreFresh, history
<1>5. CASE Abandons
  BY <1>0, <1>5, CurrentScript, NoneIsNoScript
<1>6. CASE Moves
  BY <1>0, <1>6, CurrentScript DEF Moves, scriptVars, buildVars, DashboardInv
<1>7. CASE UNCHANGED vars
  BY <1>0, <1>7, CurrentScript
  DEF vars, scriptVars, launchdVars, buildVars, DashboardInv, DevsAreFresh, history
<1> QED
  BY <1>1, <1>2, <1>3, <1>4, <1>5, <1>6, <1>7, ScriptDoes, EnvironmentMoves DEF Next

(* The invariant holds at first ...                                        *)
LEMMA InvInit == Init => SupervisorsInv
<1> SUFFICES ASSUME Init PROVE SupervisorsInv
  OBVIOUS
<1>1. TypeOK
  <2>1. refused \in BOOLEAN
    BY DEF Init
  <2> QED
    BY <2>1, BoundAssumption DEF Init, TypeOK, Gone, Server
<1>2. Bookkeeping
  BY PartsTyped DEF Init, Bookkeeping
<1>3. Current = "none"
  BY DEF Init, Current
<1>4. BackendInv /\ DashboardInv
  BY <1>3, NoneIsNoScript DEF BackendInv, DashboardInv
<1>5. DownInv
  BY <1>3 DEF DownInv, Downs
<1>6. JobInv
  BY DEF Init, JobInv, Mcp
<1> QED
  BY <1>1, <1>2, <1>4, <1>5, <1>6 DEF SupervisorsInv

(* ... and always.                                                         *)
THEOREM InvHolds == Spec => []SupervisorsInv
<1>1. SupervisorsInv /\ [Next]_vars => SupervisorsInv'
  BY TypesKept, BookkeepingKept, JobKept, BackendKept, DownKept, DashboardKept DEF SupervisorsInv
<1> QED
  BY InvInit, <1>1, PTL DEF Spec

(* A script that is reported is over.                                      *)
LEMMA ReportedIsOver ==
  ASSUME SupervisorsInv, reported # "none"
  PROVE  Current = reported /\ todo = <<>>
  BY DEF SupervisorsInv, Bookkeeping, Current

(* Every variable has its type.                                            *)
THEOREM Typing == Spec => []TypeOK
<1>1. SupervisorsInv => TypeOK
  BY DEF SupervisorsInv
<1> QED
  BY <1>1, InvHolds, PTL

(* When a script has reported the backend up or restarted, no agent that   *)
(* listens serves a build older than the one there was as the script       *)
(* began.                                                                  *)
THEOREM BackendServesItsBuild == Spec => []BackendIsFresh
<1>1. SupervisorsInv => BackendIsFresh
  <2> SUFFICES ASSUME SupervisorsInv, reported \in Backends, server["agent"].is = "listening"
               PROVE  server["agent"].of >= began
    BY DEF BackendIsFresh
  <2>1. Current \in Backends /\ todo = <<>>
    BY ReportedIsOver, NoneIsNoScript
  <2>2. AgentIsFresh
    BY <2>1, NothingLeft DEF SupervisorsInv, BackendInv
  <2> QED
    BY <2>2 DEF AgentIsFresh, Gone
<1> QED
  BY <1>1, InvHolds, PTL

(* It is then loaded, so that launchd starts it again if it ends: a        *)
(* fallback for a failed bootstrap never ends without it.                  *)
THEOREM UpStaysUp == Spec => []UpIsKeptAlive
<1>1. SupervisorsInv => UpIsKeptAlive
  <2> SUFFICES ASSUME SupervisorsInv, reported \in Backends PROVE job = "loaded"
    BY DEF UpIsKeptAlive
  <2>1. Current \in Backends /\ todo = <<>>
    BY ReportedIsOver, NoneIsNoScript
  <2> QED
    BY <2>1, NothingLeft DEF SupervisorsInv, BackendInv
<1> QED
  BY <1>1, InvHolds, PTL

(* When a script has reported the backend down, launchd does not start it  *)
(* again, and after mcp-down it does not listen - unless launchd refused   *)
(* to end the job, and the script, which does not look, went on.           *)
THEOREM DownIsFinal == Spec => []DownStaysDown
<1>1. SupervisorsInv => DownStaysDown
  <2> SUFFICES ASSUME SupervisorsInv, reported \in Downs, ~ refused
               PROVE  /\ job # "loaded"
                      /\ reported = "mcp-down" => server["agent"].is # "listening"
    BY DEF DownStaysDown
  <2>1. Current = reported /\ todo = <<>>
    BY ReportedIsOver, NoneIsNoScript
  <2> QED
    BY <2>1, NothingLeft DEF SupervisorsInv, DownInv
<1> QED
  BY <1>1, InvHolds, PTL

(* When a script has reported the dashboard up, no dev server of its own   *)
(* serves a stack older than the one it was brought up for.                *)
THEOREM DashboardServesItsStack == Spec => []DashboardIsFresh
<1>1. SupervisorsInv => DashboardIsFresh
  <2> SUFFICES ASSUME SupervisorsInv, reported \in Dashboards, NEW d \in Listening(Dev) \ leftover
               PROVE  server[d].of = stack
    BY DEF DashboardIsFresh
  <2>1. Current \in Dashboards /\ todo = <<>>
    BY ReportedIsOver, NoneIsNoScript
  <2>2. DevsAreFresh
    BY <2>1, NothingLeft DEF SupervisorsInv, DashboardInv
  <2>3. d \in Dev \ leftover /\ server[d] # Gone
    BY DEF Listening, Gone
  <2> QED
    BY <2>2, <2>3 DEF DevsAreFresh
<1> QED
  BY <1>1, InvHolds, PTL
=============================================================================
