--------------------------- MODULE HostStackProofs ---------------------------
(***************************************************************************)
(* Proofs about HostStack, for every number of process ids and of runs of  *)
(* the scripts, interrupted, failing or reaching their ends.               *)
(*                                                                         *)
(* What a script has reached follows from the steps it has still to do: a  *)
(* service whose pkill is behind and whose start is still ahead does not   *)
(* run; the MCP server's pid file is gone while its kill_pid is behind and *)
(* its record ahead; what stop.sh and clear.sh have passed is stopped and  *)
(* removed. This is inductive because of the order of the steps, which the *)
(* first part shows of every script: a start comes after the pkill of the  *)
(* same service, its pid file is written by the next step, and nothing is  *)
(* started before the last pkill of a script that stops. Then every step   *)
(* of the system is put under one of six kinds, by what it does to the     *)
(* processes and files, and each part of the invariant is shown to be kept *)
(* by each kind.                                                           *)
(***************************************************************************)
EXTENDS HostStack, Lemmas

HostSteps == Verbs \X (Service \cup {"home", "files"})

(* The steps by which a script starts something.                           *)
Starting ==
  {"spawn", "record", "init", "wait_for", "wait_again"} \X (Service \cup {"home", "files"})

(* A spawn and its record are neighbours.                                  *)
Paired(s) ==
  \A i \in 1 .. Len(s) - 1 : \A x \in Service :
    s[i] = <<"spawn", x>> <=> s[i + 1] = <<"record", x>>

(* The script whose effect is under way, or was reported.                  *)
Current == IF script = "none" THEN finished ELSE script

(* A script that is over has nothing to do and its end is known.           *)
Bookkeeping ==
  /\ script = "none" => todo = <<>>
  /\ script # "none" => finished = "none"

(* What every script keeps to, from any of its steps on.                   *)
WellOrdered(steps) ==
  /\ Paired(steps)
  /\ \A s \in Service : Followed(steps, {<<"spawn", s>>}, {<<"record", s>>})
  /\ \A s \in {"chain", "hub"} :
       Before(steps, {<<"spawn", s>>}, {<<"spawn", s>>, <<"pkill", s>>})
  /\ Before(steps, {<<"record", "mcp">>}, {<<"record", "mcp">>, <<"kill_pid", "mcp">>})
  /\ Before(steps, {<<"wait_for", "chain">>}, {<<"spawn", "chain">>, <<"pkill", "chain">>})
  /\ Before(steps, {<<"rm", "files">>}, {<<"kill_pid", "mcp">>, <<"rm", "home">>})
  /\ ~ Contains(steps, {<<"pkill", "mcp">>})

(* The order of what is still to be done, and what it cannot contain.      *)
ScriptInv ==
  /\ WellOrdered(todo)
  /\ Contains(todo, {<<"rm", "files">>}) => Current = "clear"
  /\ Current \in {"stop", "clear"} => ~ Contains(todo, Starting)
  /\ Current = "start" =>
       Followed(todo, {<<"kill_pid", "chain">>, <<"spawn", "chain">>}, {<<"record", "chain">>})

(* At most one chain and one hub is there to stay, none before a start.    *)
InstanceInv == \A s \in {"chain", "hub"} :
  /\ \A p, q \in Live(s) : p = q
  /\ Contains(todo, {<<"spawn", s>>}) /\ ~ Contains(todo, {<<"pkill", s>>}) => Live(s) = {}

(* The MCP server that runs is the one recorded, or about to be.           *)
McpInv ==
  /\ McpIsRecorded
  /\ Contains(todo, {<<"record", "mcp">>}) /\ ~ Contains(todo, {<<"kill_pid", "mcp">>}) =>
       pidfile["mcp"] = NoPid

(* What a script that stops the services has passed is stopped.            *)
StoppedInv ==
  Current \in {"stop", "clear"} =>
    /\ \A s \in {"chain", "hub"} : ~ Contains(todo, {<<"pkill", s>>}) => Live(s) = {}
    /\ ~ Contains(todo, {<<"kill_pid", "mcp">>}) => Running("mcp") \subseteq strays

(* The chain that was started is recorded, or about to be.                 *)
StartedInv ==
  /\ Doing(<<"record", "chain">>) => Live("chain") \subseteq {child}
  /\ Current = "start" /\ ~ Contains(todo, {<<"record", "chain">>}) =>
       Live("chain") \subseteq {pidfile["chain"]}

(* What clear.sh has passed is removed.                                    *)
ClearedInv ==
  Current = "clear" =>
    /\ ~ Contains(todo, {<<"rm", "home">>}) => home = "none"
    /\ ~ Contains(todo, {<<"rm", "files">>}) =>
         home = "none" /\ ~logged /\ \A s \in Service : pidfile[s] = NoPid

HostInv ==
  TypeOK /\ Bookkeeping /\ ScriptInv /\ InstanceInv /\ McpInv /\ StoppedInv
    /\ StartedInv /\ ClearedInv

-----------------------------------------------------------------------------
(* The order of the steps of a script.                                     *)

(* No record without its spawn in front of it.                             *)
Opens(s) == \A x \in Service : Len(s) >= 1 => s[1] # <<"record", x>>

(* Nothing in t that must not come after s.                                *)
MayFollow(s, t) ==
  /\ \A x \in {"chain", "hub"} :
       \/ ~ Contains(s, {<<"spawn", x>>})
       \/ ~ Contains(t, {<<"spawn", x>>, <<"pkill", x>>})
  /\ \/ ~ Contains(s, {<<"record", "mcp">>})
     \/ ~ Contains(t, {<<"record", "mcp">>, <<"kill_pid", "mcp">>})
  /\ \/ ~ Contains(s, {<<"wait_for", "chain">>})
     \/ ~ Contains(t, {<<"spawn", "chain">>, <<"pkill", "chain">>})
  /\ \/ ~ Contains(s, {<<"rm", "files">>})
     \/ ~ Contains(t, {<<"kill_pid", "mcp">>, <<"rm", "home">>})

(* A script keeps its order as its first step is done: ...                 *)
LEMMA PairedTail ==
  ASSUME NEW s \in Seq(HostSteps), s # <<>>, Paired(s)
  PROVE  /\ Paired(Tail(s))
         /\ Tail(s) # <<>> =>
              \A x \in Service : Head(s) = <<"spawn", x>> <=> Head(Tail(s)) = <<"record", x>>
<1> DEFINE t == Tail(s)
           n == Len(s)
<1>1. /\ n \in Nat \ {0} /\ t \in Seq(HostSteps) /\ Len(t) = n - 1 /\ s[1] = Head(s)
      /\ \A i \in 1 .. n - 1 : t[i] = s[i + 1]
  BY TailFacts
<1>2. \A i \in 1 .. n - 1 : \A x \in Service :
        s[i] = <<"spawn", x>> <=> s[i + 1] = <<"record", x>>
  BY DEF Paired
<1>3. t # <<>> => 1 \in 1 .. n - 1 /\ Head(t) = t[1]
  BY <1>1
<1> HIDE DEF t, n
<1>4. ASSUME NEW i \in 1 .. (n - 1) - 1, NEW x \in Service
      PROVE  t[i] = <<"spawn", x>> <=> t[i + 1] = <<"record", x>>
  <2>1. i \in 1 .. n - 1 /\ i + 1 \in 1 .. n - 1
    BY <1>1
  <2> QED
    BY <1>1, <1>2, <2>1
<1>5. t # <<>> => \A x \in Service : s[1] = <<"spawn", x>> <=> Head(t) = <<"record", x>>
  BY <1>1, <1>2, <1>3
<1> QED
  BY <1>1, <1>4, <1>5 DEF Paired, t, n

(* ... so do the other orders.                                             *)
LEMMA WellOrderedTail ==
  ASSUME NEW s \in Seq(HostSteps), s # <<>>, WellOrdered(s)
  PROVE  WellOrdered(Tail(s))
<1>1. Paired(Tail(s))
  BY PairedTail DEF WellOrdered
<1>2. \A x \in Service : Followed(Tail(s), {<<"spawn", x>>}, {<<"record", x>>})
  BY FollowedTail DEF WellOrdered
<1>3. /\ \A x \in {"chain", "hub"} :
           Before(Tail(s), {<<"spawn", x>>}, {<<"spawn", x>>, <<"pkill", x>>})
      /\ Before(Tail(s), {<<"record", "mcp">>}, {<<"record", "mcp">>, <<"kill_pid", "mcp">>})
      /\ Before(Tail(s), {<<"wait_for", "chain">>}, {<<"spawn", "chain">>, <<"pkill", "chain">>})
      /\ Before(Tail(s), {<<"rm", "files">>}, {<<"kill_pid", "mcp">>, <<"rm", "home">>})
  BY BeforeTail DEF WellOrdered
<1>4. ~ Contains(Tail(s), {<<"pkill", "mcp">>})
  BY ContainsTail DEF WellOrdered
<1> QED
  BY <1>1, <1>2, <1>3, <1>4 DEF WellOrdered

(* Two parts that keep to the order do so one after the other, if ...      *)
LEMMA PairedConcat ==
  ASSUME NEW s \in Seq(HostSteps), NEW t \in Seq(HostSteps), Paired(s), Paired(t), Opens(t),
         \A x \in Service : Followed(s, {<<"spawn", x>>}, {<<"record", x>>})
  PROVE  Paired(s \o t)
<1> DEFINE u == s \o t
           m == Len(s)
           n == Len(t)
<1>1. /\ m \in Nat /\ n \in Nat /\ Len(u) = m + n
      /\ \A i \in 1 .. m : u[i] = s[i]
      /\ \A i \in 1 .. n : u[m + i] = t[i]
  BY ConcatFacts
<1>2. /\ \A i \in 1 .. m - 1 : \A x \in Service :
           s[i] = <<"spawn", x>> <=> s[i + 1] = <<"record", x>>
      /\ \A i \in 1 .. n - 1 : \A x \in Service :
           t[i] = <<"spawn", x>> <=> t[i + 1] = <<"record", x>>
      /\ \A x \in Service : n >= 1 => t[1] # <<"record", x>>
  BY DEF Paired, Opens
<1>3. \A x \in Service : \A i \in 1 .. m :
        s[i] \in {<<"spawn", x>>} => \E j \in 1 .. m : i < j /\ s[j] \in {<<"record", x>>}
  BY DEF Followed
<1> HIDE DEF u, m, n
<1>4. ASSUME NEW i \in 1 .. (m + n) - 1, NEW x \in Service
      PROVE  u[i] = <<"spawn", x>> <=> u[i + 1] = <<"record", x>>
  <2>1. CASE i + 1 <= m
    <3>1. i \in 1 .. m - 1 /\ i \in 1 .. m /\ i + 1 \in 1 .. m
      BY <1>1, <2>1
    <3> QED
      BY <1>1, <1>2, <3>1
  <2>2. CASE i = m
    <3>1. m \in 1 .. m /\ n >= 1 /\ 1 \in 1 .. n
      BY <1>1, <2>2
    <3>2. u[i] = s[m] /\ u[i + 1] = t[1]
      BY <1>1, <2>2, <3>1
    <3>3. s[m] # <<"spawn", x>>
      <4>1. \A j \in 1 .. m : ~ (m < j)
        BY <1>1
      <4> QED
        BY <1>3, <3>1, <4>1
    <3> QED
      BY <1>2, <3>1, <3>2, <3>3
  <2>3. CASE i > m
    <3>1. i - m \in 1 .. n - 1 /\ i - m \in 1 .. n /\ (i - m) + 1 \in 1 .. n
      BY <1>1, <2>3
    <3>2. m + (i - m) = i /\ m + ((i - m) + 1) = i + 1
      BY <1>1
    <3>3. u[i] = t[i - m] /\ u[i + 1] = t[(i - m) + 1]
      BY <1>1, <3>1, <3>2
    <3> QED
      BY <1>2, <3>1, <3>3
  <2> QED
    BY <1>1, <2>1, <2>2, <2>3
<1> QED
  BY <1>1, <1>4 DEF Paired, u, m, n

(* ... the second may follow the first.                                    *)
LEMMA WellOrderedConcat ==
  ASSUME NEW s \in Seq(HostSteps), NEW t \in Seq(HostSteps),
         WellOrdered(s), WellOrdered(t), Opens(t), MayFollow(s, t)
  PROVE  WellOrdered(s \o t)
<1>1. Paired(s \o t)
  BY PairedConcat DEF WellOrdered
<1>2. \A x \in Service : Followed(s \o t, {<<"spawn", x>>}, {<<"record", x>>})
  BY FollowedConcat DEF WellOrdered
<1>3. ASSUME NEW x \in {"chain", "hub"}
      PROVE  Before(s \o t, {<<"spawn", x>>}, {<<"spawn", x>>, <<"pkill", x>>})
  BY BeforeConcat DEF WellOrdered, MayFollow
<1>4. Before(s \o t, {<<"record", "mcp">>}, {<<"record", "mcp">>, <<"kill_pid", "mcp">>})
  BY BeforeConcat DEF WellOrdered, MayFollow
<1>5. Before(s \o t, {<<"wait_for", "chain">>}, {<<"spawn", "chain">>, <<"pkill", "chain">>})
  BY BeforeConcat DEF WellOrdered, MayFollow
<1>6. Before(s \o t, {<<"rm", "files">>}, {<<"kill_pid", "mcp">>, <<"rm", "home">>})
  BY BeforeConcat DEF WellOrdered, MayFollow
<1>7. ~ Contains(s \o t, {<<"pkill", "mcp">>})
  BY ContainsConcat DEF WellOrdered
<1> QED
  BY <1>1, <1>2, <1>3, <1>4, <1>5, <1>6, <1>7 DEF WellOrdered

-----------------------------------------------------------------------------
(* The scripts are well ordered.                                           *)

(* Steps that nothing in a script has to come before.                      *)
Plain ==
  (({"kill_pid", "pkill", "init"} \X Service) \cup {<<"rm", "home">>}) \ {<<"pkill", "mcp">>}

(* Steps that only end something, or prepare the home, may come anywhere.  *)
LEMMA PlainSteps ==
  ASSUME NEW s \in Seq(HostSteps), Among(s, Plain)
  PROVE  WellOrdered(s) /\ Opens(s) /\ \A t : MayFollow(s, t)
<1>1. \A S : S \cap Plain = {} => ~ Contains(s, S)
  BY DEF Among, Contains
<1>2. /\ \A x \in Service : ~ Contains(s, {<<"spawn", x>>}) /\ ~ Contains(s, {<<"record", x>>})
      /\ ~ Contains(s, {<<"wait_for", "chain">>}) /\ ~ Contains(s, {<<"rm", "files">>})
      /\ ~ Contains(s, {<<"pkill", "mcp">>})
  BY <1>1 DEF Plain, Service
<1>3. Paired(s) /\ Opens(s)
  <2>1. \A i \in 1 .. Len(s) : \A x \in Service :
          s[i] # <<"spawn", x>> /\ s[i] # <<"record", x>>
    BY <1>2 DEF Contains
  <2>2. Len(s) \in Nat
    OBVIOUS
  <2> QED
    BY <2>1, <2>2 DEF Paired, Opens
<1> QED
  BY <1>2, <1>3, NoneFollowed DEF WellOrdered, MayFollow, Service

(* What is waited for may come after anything.                             *)
LEMMA WaitSteps ==
  ASSUME NEW s \in Service, NEW w \in {"wait_for", "wait_again"}
  PROVE  LET W == << <<w, s>> >> IN
           /\ W \in Seq(HostSteps) /\ WellOrdered(W) /\ Opens(W)
           /\ \A t : MayFollow(t, W)
           /\ \A S : Contains(W, S) <=> <<w, s>> \in S
<1> DEFINE W == << <<w, s>> >>
<1>1. W \in Seq(HostSteps) /\ Len(W) = 1 /\ W[1] = <<w, s>>
  BY DEF HostSteps, Verbs
<1> HIDE DEF W
<1>2. \A S : Contains(W, S) <=> <<w, s>> \in S
  BY <1>1 DEF Contains
<1>3. Paired(W) /\ Opens(W)
  BY <1>1 DEF Paired, Opens
<1>4. \A A, B : Before(W, A, B)
  BY <1>1 DEF Before
<1>5. \A t : MayFollow(t, W)
  BY <1>2 DEF MayFollow
<1>6. \A x \in Service : Followed(W, {<<"spawn", x>>}, {<<"record", x>>})
  BY <1>1 DEF Followed
<1>7. ~ Contains(W, {<<"pkill", "mcp">>})
  BY <1>2
<1>8. WellOrdered(W)
  BY <1>3, <1>4, <1>6, <1>7 DEF WellOrdered
<1> QED
  BY <1>1, <1>2, <1>3, <1>5, <1>8 DEF W

(* A service is started and its pid file written.                          *)
LEMMA LaunchSteps ==
  ASSUME NEW s \in Service
  PROVE  /\ Launch(s) \in Seq(HostSteps) /\ WellOrdered(Launch(s)) /\ Opens(Launch(s))
         /\ \A S : Contains(Launch(s), S) <=> <<"spawn", s>> \in S \/ <<"record", s>> \in S
<1> DEFINE L == Launch(s)
<1>1. /\ L \in Seq(HostSteps) /\ Len(L) = 2
      /\ L[1] = <<"spawn", s>> /\ L[2] = <<"record", s>>
  BY DEF Launch, HostSteps, Verbs
<1> HIDE DEF L
<1>2. \A S : Contains(L, S) <=> <<"spawn", s>> \in S \/ <<"record", s>> \in S
  <2>1. 1 .. 2 = {1, 2}
    OBVIOUS
  <2> QED
    BY <1>1, <2>1 DEF Contains
<1>3. Paired(L) /\ Opens(L)
  <2>1. 1 .. Len(L) - 1 = {1}
    BY <1>1
  <2>2. \A i \in {1} : \A x \in Service : L[i] = <<"spawn", x>> <=> L[i + 1] = <<"record", x>>
    BY <1>1
  <2> QED
    BY <1>1, <2>1, <2>2 DEF Paired, Opens
<1>4. \A x \in Service : Followed(L, {<<"spawn", x>>}, {<<"record", x>>})
  <2>1. ASSUME NEW x \in Service, NEW i \in 1 .. 2, L[i] = <<"spawn", x>>
        PROVE  \E j \in 1 .. 2 : i < j /\ L[j] = <<"record", x>>
    <3>1. i = 1 /\ x = s
      BY <1>1, <2>1
    <3>2. 2 \in 1 .. 2 /\ i < 2 /\ L[2] = <<"record", x>>
      BY <1>1, <3>1
    <3> QED
      BY <3>2
  <2> QED
    BY <1>1, <2>1 DEF Followed
<1>5. \A A, B : <<"record", s>> \notin B => Before(L, A, B)
  <2>1. \A i, j \in 1 .. 2 : i < j => j = 2
    OBVIOUS
  <2> QED
    BY <1>1, <2>1 DEF Before
<1>6. Before(L, {<<"record", "mcp">>}, {<<"record", "mcp">>, <<"kill_pid", "mcp">>})
  <2>1. \A i, j \in 1 .. 2 : i < j => i = 1
    OBVIOUS
  <2> QED
    BY <1>1, <2>1 DEF Before
<1>7. ~ Contains(L, {<<"pkill", "mcp">>})
  BY <1>2
<1>8. WellOrdered(L)
  BY <1>3, <1>4, <1>5, <1>6, <1>7 DEF WellOrdered
<1> QED
  BY <1>1, <1>2, <1>3, <1>8 DEF L

(* A part begins as its first part does.                                   *)
LEMMA OpensConcat ==
  ASSUME NEW s \in Seq(HostSteps), NEW t \in Seq(HostSteps), s # <<>>, Opens(s)
  PROVE  Opens(s \o t) /\ s \o t # <<>> /\ Head(s \o t) = Head(s)
<1>1. /\ Len(s) >= 1 /\ 1 \in 1 .. Len(s) /\ Len(s \o t) >= 1
      /\ (s \o t)[1] = s[1] /\ s \o t \in Seq(HostSteps)
  BY ConcatFacts
<1> QED
  BY <1>1 DEF Opens

(* A service is stopped, started and waited for: every part of start.sh.   *)
Up(K, s, w) == K \o Launch(s) \o << <<w, s>> >>

(* What is common to these parts.                                          *)
LEMMA UpSteps ==
  ASSUME NEW K \in Seq(HostSteps), K # <<>>, Among(K, Plain),
         NEW s \in Service, NEW w \in {"wait_for", "wait_again"}
  PROVE  /\ Up(K, s, w) \in Seq(HostSteps) /\ Up(K, s, w) # <<>>
         /\ WellOrdered(Up(K, s, w)) /\ Opens(Up(K, s, w)) /\ Head(Up(K, s, w)) = Head(K)
         /\ \A S : Contains(Up(K, s, w), S) <=>
                     \/ Contains(K, S)
                     \/ <<"spawn", s>> \in S \/ <<"record", s>> \in S \/ <<w, s>> \in S
         /\ s = "chain" =>
              Followed(Up(K, s, w), {<<"kill_pid", "chain">>, <<"spawn", "chain">>},
                       {<<"record", "chain">>})
<1> DEFINE L == Launch(s)
           W == << <<w, s>> >>
           A == {<<"kill_pid", "chain">>, <<"spawn", "chain">>}
           B == {<<"record", "chain">>}
<1>1. /\ L \in Seq(HostSteps) /\ WellOrdered(L) /\ Opens(L)
      /\ \A S : Contains(L, S) <=> <<"spawn", s>> \in S \/ <<"record", s>> \in S
  BY LaunchSteps
<1>2. /\ W \in Seq(HostSteps) /\ WellOrdered(W) /\ Opens(W) /\ \A t : MayFollow(t, W)
      /\ \A S : Contains(W, S) <=> <<w, s>> \in S
  BY WaitSteps
<1>3. Opens(K) /\ WellOrdered(K) /\ MayFollow(K, L)
  BY PlainSteps
<1>4. s = "chain" => Followed(L, A, B)
  <2>1. CASE s = "chain"
    <3>1. Followed(L, {<<"spawn", "chain">>}, B)
      BY <1>1, <2>1 DEF WellOrdered
    <3>2. ~ Contains(L, {<<"kill_pid", "chain">>})
      BY <1>1
    <3> HIDE DEF L
    <3> QED
      BY <3>1, <3>2 DEF Followed, Contains
  <2> QED
    BY <2>1
<1> HIDE DEF L, W
<1>5. /\ K \o L \in Seq(HostSteps) /\ WellOrdered(K \o L)
      /\ Opens(K \o L) /\ K \o L # <<>> /\ Head(K \o L) = Head(K)
      /\ \A S : Contains(K \o L, S) <=> Contains(K, S) \/ Contains(L, S)
  BY <1>1, <1>3, ConcatFacts, WellOrderedConcat, OpensConcat, ContainsConcat
<1>6. /\ K \o L \o W \in Seq(HostSteps) /\ WellOrdered(K \o L \o W)
      /\ Opens(K \o L \o W) /\ K \o L \o W # <<>> /\ Head(K \o L \o W) = Head(K)
      /\ \A S : Contains(K \o L \o W, S) <=> Contains(K \o L, S) \/ Contains(W, S)
  <2> DEFINE M == K \o L
  <2> HIDE DEF M
  <2>1. M \in Seq(HostSteps) /\ WellOrdered(M) /\ Opens(M) /\ M # <<>> /\ Head(M) = Head(K)
    BY <1>5 DEF M
  <2>2. WellOrdered(M \o W)
    BY <1>2, <2>1, WellOrderedConcat
  <2>3. Opens(M \o W) /\ M \o W # <<>> /\ Head(M \o W) = Head(M)
    BY <1>2, <2>1, OpensConcat
  <2>4. M \o W \in Seq(HostSteps) /\ \A S : Contains(M \o W, S) <=> Contains(M, S) \/ Contains(W, S)
    BY <1>2, <2>1, ConcatFacts, ContainsConcat
  <2> QED
    BY <2>1, <2>2, <2>3, <2>4 DEF M
<1>7. s = "chain" => Followed(K \o L \o W, A, B)
  <2>1. CASE s = "chain"
    <3>1. Contains(L, B) /\ ~ Contains(W, A)
      BY <1>1, <1>2, <2>1
    <3>2. Followed(W, A, B)
      BY <1>2, <3>1, NoneFollowed
    <3>3. Followed(K \o L, A, B)
      BY <1>1, <1>4, <2>1, <3>1, FollowedConcat
    <3> QED
      BY <1>2, <1>5, <3>2, <3>3, FollowedConcat
  <2> QED
    BY <2>1
<1> QED
  BY <1>1, <1>2, <1>5, <1>6, <1>7 DEF Up, L, W

(* What the scripts are put together of.                                   *)
LEMMA ChainUp ==
  /\ ChainSteps \in Seq(HostSteps) /\ ChainSteps # <<>>
  /\ WellOrdered(ChainSteps) /\ Opens(ChainSteps)
  /\ Head(ChainSteps) = <<"kill_pid", "chain">>
  /\ \A S : Contains(ChainSteps, S) <=>
              \/ <<"kill_pid", "chain">> \in S \/ <<"pkill", "chain">> \in S
              \/ <<"init", "chain">> \in S
              \/ <<"spawn", "chain">> \in S \/ <<"record", "chain">> \in S
              \/ <<"wait_for", "chain">> \in S
  /\ Followed(ChainSteps, {<<"kill_pid", "chain">>, <<"spawn", "chain">>}, {<<"record", "chain">>})
<1> DEFINE K == << <<"kill_pid", "chain">>, <<"pkill", "chain">>, <<"init", "chain">> >>
<1>1. K \in Seq(HostSteps) /\ K # <<>> /\ Head(K) = <<"kill_pid", "chain">>
  BY DEF HostSteps, Verbs, Service
<1>2. /\ Among(K, Plain)
      /\ \A S : Contains(K, S) <=>
            \/ <<"kill_pid", "chain">> \in S \/ <<"pkill", "chain">> \in S
            \/ <<"init", "chain">> \in S
  <2>1. 1 .. 3 = {1, 2, 3}
    OBVIOUS
  <2> QED
    BY <2>1 DEF Among, Contains, Plain, Service
<1>3. ChainSteps = Up(K, "chain", "wait_for")
  BY DEF ChainSteps, Up
<1> HIDE DEF K
<1> QED
  BY <1>1, <1>2, <1>3, UpSteps DEF Service

(* The chain is started anew from an empty home.                           *)
LEMMA MitigationUp ==
  /\ MitigationSteps \in Seq(HostSteps) /\ MitigationSteps # <<>>
  /\ WellOrdered(MitigationSteps) /\ Opens(MitigationSteps)
  /\ Head(MitigationSteps) = <<"kill_pid", "chain">>
  /\ \A S : Contains(MitigationSteps, S) <=>
              \/ <<"kill_pid", "chain">> \in S \/ <<"pkill", "chain">> \in S
              \/ <<"rm", "home">> \in S \/ <<"init", "chain">> \in S
              \/ <<"spawn", "chain">> \in S \/ <<"record", "chain">> \in S
              \/ <<"wait_again", "chain">> \in S
  /\ Followed(MitigationSteps, {<<"kill_pid", "chain">>, <<"spawn", "chain">>},
              {<<"record", "chain">>})
<1> DEFINE K == << <<"kill_pid", "chain">>, <<"pkill", "chain">>, <<"rm", "home">>,
                 <<"init", "chain">> >>
<1>1. K \in Seq(HostSteps) /\ K # <<>> /\ Head(K) = <<"kill_pid", "chain">>
  BY DEF HostSteps, Verbs, Service
<1>2. /\ Among(K, Plain)
      /\ \A S : Contains(K, S) <=>
            \/ <<"kill_pid", "chain">> \in S \/ <<"pkill", "chain">> \in S
            \/ <<"rm", "home">> \in S \/ <<"init", "chain">> \in S
  <2>1. 1 .. 4 = {1, 2, 3, 4}
    OBVIOUS
  <2> QED
    BY <2>1 DEF Among, Contains, Plain, Service
<1>3. MitigationSteps = Up(K, "chain", "wait_again")
  BY DEF MitigationSteps, Up
<1> HIDE DEF K
<1> QED
  BY <1>1, <1>2, <1>3, UpSteps DEF Service

(* The hub.                                                                *)
LEMMA HubUp ==
  /\ HubSteps \in Seq(HostSteps) /\ HubSteps # <<>> /\ WellOrdered(HubSteps) /\ Opens(HubSteps)
  /\ Head(HubSteps) = <<"kill_pid", "hub">>
  /\ \A S : Contains(HubSteps, S) <=>
              \/ <<"kill_pid", "hub">> \in S \/ <<"pkill", "hub">> \in S
              \/ <<"spawn", "hub">> \in S \/ <<"record", "hub">> \in S
              \/ <<"wait_for", "hub">> \in S
<1> DEFINE K == << <<"kill_pid", "hub">>, <<"pkill", "hub">> >>
<1>1. K \in Seq(HostSteps) /\ K # <<>> /\ Head(K) = <<"kill_pid", "hub">>
  BY DEF HostSteps, Verbs, Service
<1>2. /\ Among(K, Plain)
      /\ \A S : Contains(K, S) <=>
            \/ <<"kill_pid", "hub">> \in S \/ <<"pkill", "hub">> \in S
  <2>1. 1 .. 2 = {1, 2}
    OBVIOUS
  <2> QED
    BY <2>1 DEF Among, Contains, Plain, Service
<1>3. HubSteps = Up(K, "hub", "wait_for")
  BY DEF HubSteps, Up
<1> HIDE DEF K
<1> QED
  BY <1>1, <1>2, <1>3, UpSteps DEF Service

(* The MCP server, which is ended by its pid file only.                    *)
LEMMA McpUp ==
  /\ McpSteps \in Seq(HostSteps) /\ McpSteps # <<>> /\ WellOrdered(McpSteps) /\ Opens(McpSteps)
  /\ Head(McpSteps) = <<"kill_pid", "mcp">>
  /\ \A S : Contains(McpSteps, S) <=>
              \/ <<"kill_pid", "mcp">> \in S
              \/ <<"spawn", "mcp">> \in S \/ <<"record", "mcp">> \in S
              \/ <<"wait_for", "mcp">> \in S
<1> DEFINE K == << <<"kill_pid", "mcp">> >>
<1>1. K \in Seq(HostSteps) /\ K # <<>> /\ Head(K) = <<"kill_pid", "mcp">>
  BY DEF HostSteps, Verbs, Service
<1>2. /\ Among(K, Plain)
      /\ \A S : Contains(K, S) <=>
            \/ <<"kill_pid", "mcp">> \in S
  <2>1. 1 .. 1 = {1}
    OBVIOUS
  <2> QED
    BY <2>1 DEF Among, Contains, Plain, Service
<1>3. McpSteps = Up(K, "mcp", "wait_for")
  BY DEF McpSteps, Up
<1> HIDE DEF K
<1> QED
  BY <1>1, <1>2, <1>3, UpSteps DEF Service

(* What the invariant needs of the steps t of script s as it begins.       *)
Fits(s, t) ==
  /\ t \in Seq(HostSteps) /\ WellOrdered(t) /\ Opens(t)
  /\ Contains(t, {<<"rm", "files">>}) => s = "clear"
  /\ s \in {"stop", "clear"} =>
       /\ ~ Contains(t, Starting) /\ Contains(t, {<<"kill_pid", "mcp">>})
       /\ Contains(t, {<<"pkill", "chain">>}) /\ Contains(t, {<<"pkill", "hub">>})
  /\ s = "clear" => Contains(t, {<<"rm", "home">>}) /\ Contains(t, {<<"rm", "files">>})
  /\ s = "start" =>
       /\ Followed(t, {<<"kill_pid", "chain">>, <<"spawn", "chain">>}, {<<"record", "chain">>})
       /\ Contains(t, {<<"record", "chain">>})
  /\ \A x \in {"chain", "hub"} : Contains(t, {<<"spawn", x>>}) => Contains(t, {<<"pkill", x>>})
  /\ Contains(t, {<<"record", "mcp">>}) => Contains(t, {<<"kill_pid", "mcp">>})

(* start.sh without the chain.                                             *)
LEMMA SkipChainFits == Fits("skip_chain", HubSteps \o McpSteps)
<1> DEFINE t == HubSteps \o McpSteps
<1>1. MayFollow(HubSteps, McpSteps)
  <2>1. ~ Contains(HubSteps, {<<"spawn", "chain">>})
    BY HubUp
  <2>2. ~ Contains(HubSteps, {<<"record", "mcp">>})
    BY HubUp
  <2>3. ~ Contains(HubSteps, {<<"wait_for", "chain">>}) /\ ~ Contains(HubSteps, {<<"rm", "files">>})
    BY HubUp
  <2>4. ~ Contains(McpSteps, {<<"spawn", "hub">>, <<"pkill", "hub">>})
    BY McpUp
  <2> QED
    BY <2>1, <2>2, <2>3, <2>4 DEF MayFollow
<1>2. t \in Seq(HostSteps) /\ WellOrdered(t) /\ Opens(t)
  BY <1>1, HubUp, McpUp, ConcatFacts, WellOrderedConcat, OpensConcat
<1>3. \A S : Contains(t, S) <=> Contains(HubSteps, S) \/ Contains(McpSteps, S)
  BY HubUp, McpUp, ContainsConcat
<1> HIDE DEF t
<1>4. /\ ~ Contains(t, {<<"rm", "files">>}) /\ Contains(t, {<<"pkill", "hub">>})
      /\ ~ Contains(t, {<<"spawn", "chain">>}) /\ Contains(t, {<<"kill_pid", "mcp">>})
  <2>1. /\ ~ Contains(HubSteps, {<<"rm", "files">>}) /\ Contains(HubSteps, {<<"pkill", "hub">>})
        /\ ~ Contains(HubSteps, {<<"spawn", "chain">>})
    BY HubUp
  <2>2. /\ ~ Contains(McpSteps, {<<"rm", "files">>}) /\ Contains(McpSteps, {<<"kill_pid", "mcp">>})
        /\ ~ Contains(McpSteps, {<<"spawn", "chain">>})
    BY McpUp
  <2> QED
    BY <1>3, <2>1, <2>2
<1> QED
  BY <1>2, <1>4 DEF Fits, t

(* start.sh.                                                               *)
LEMMA StartFits == Fits("start", ChainSteps \o HubSteps \o McpSteps)
<1> DEFINE u == ChainSteps \o HubSteps
           t == u \o McpSteps
           A == {<<"kill_pid", "chain">>, <<"spawn", "chain">>}
           B == {<<"record", "chain">>}
<1>1. MayFollow(ChainSteps, HubSteps)
  <2>1. /\ ~ Contains(ChainSteps, {<<"spawn", "hub">>})
        /\ ~ Contains(ChainSteps, {<<"record", "mcp">>})
        /\ ~ Contains(ChainSteps, {<<"rm", "files">>})
    BY ChainUp
  <2>2. ~ Contains(HubSteps, {<<"spawn", "chain">>, <<"pkill", "chain">>})
    BY HubUp
  <2> QED
    BY <2>1, <2>2 DEF MayFollow
<1>2. u \in Seq(HostSteps) /\ WellOrdered(u) /\ Opens(u) /\ u # <<>>
  BY <1>1, ChainUp, HubUp, ConcatFacts, WellOrderedConcat, OpensConcat
<1>3. \A S : Contains(u, S) <=> Contains(ChainSteps, S) \/ Contains(HubSteps, S)
  BY ChainUp, HubUp, ContainsConcat
<1>4. Followed(u, A, B)
  <2>1. Followed(HubSteps, A, B)
    BY HubUp, NoneFollowed
  <2> QED
    BY <2>1, ChainUp, HubUp, FollowedConcat
<1> HIDE DEF u
<1>5. MayFollow(u, McpSteps)
  <2>1. ~ Contains(ChainSteps, {<<"record", "mcp">>}) /\ ~ Contains(ChainSteps, {<<"rm", "files">>})
    BY ChainUp
  <2>2. ~ Contains(HubSteps, {<<"record", "mcp">>}) /\ ~ Contains(HubSteps, {<<"rm", "files">>})
    BY HubUp
  <2>3. /\ ~ Contains(McpSteps, {<<"spawn", "chain">>, <<"pkill", "chain">>})
        /\ ~ Contains(McpSteps, {<<"spawn", "hub">>, <<"pkill", "hub">>})
    BY McpUp
  <2> QED
    BY <1>3, <2>1, <2>2, <2>3 DEF MayFollow
<1>6. t \in Seq(HostSteps) /\ WellOrdered(t) /\ Opens(t)
  BY <1>2, <1>5, McpUp, ConcatFacts, WellOrderedConcat, OpensConcat
<1>7. \A S : Contains(t, S) <=> Contains(u, S) \/ Contains(McpSteps, S)
  BY <1>2, McpUp, ContainsConcat
<1>8. Followed(t, A, B)
  <2>1. Followed(McpSteps, A, B)
    BY McpUp, NoneFollowed
  <2> QED
    BY <2>1, <1>2, <1>4, McpUp, FollowedConcat
<1> HIDE DEF t
<1>9. /\ ~ Contains(t, {<<"rm", "files">>}) /\ Contains(t, {<<"pkill", "hub">>})
      /\ Contains(t, {<<"pkill", "chain">>}) /\ Contains(t, {<<"kill_pid", "mcp">>})
      /\ Contains(t, B)
  <2>1. /\ ~ Contains(ChainSteps, {<<"rm", "files">>})
        /\ Contains(ChainSteps, {<<"pkill", "chain">>}) /\ Contains(ChainSteps, B)
    BY ChainUp
  <2>2. ~ Contains(HubSteps, {<<"rm", "files">>}) /\ Contains(HubSteps, {<<"pkill", "hub">>})
    BY HubUp
  <2>3. ~ Contains(McpSteps, {<<"rm", "files">>}) /\ Contains(McpSteps, {<<"kill_pid", "mcp">>})
    BY McpUp
  <2> QED
    BY <1>3, <1>7, <2>1, <2>2, <2>3
<1> QED
  BY <1>6, <1>8, <1>9 DEF Fits, t, u

(* stop.sh only ends services.                                             *)
LEMMA StopContains ==
  /\ StopSteps \in Seq(HostSteps) /\ StopSteps # <<>> /\ Among(StopSteps, Plain)
  /\ \A S : Contains(StopSteps, S) <=>
              \/ <<"kill_pid", "mcp">> \in S \/ <<"kill_pid", "hub">> \in S
              \/ <<"kill_pid", "chain">> \in S
              \/ <<"pkill", "hub">> \in S \/ <<"pkill", "chain">> \in S
<1>1. 1 .. 5 = {1, 2, 3, 4, 5}
  OBVIOUS
<1>2. StopSteps \in Seq(HostSteps) /\ StopSteps # <<>>
  BY DEF StopSteps, HostSteps, Verbs, Service
<1> QED
  BY <1>1, <1>2 DEF StopSteps, Among, Contains, Plain, Service

(* stop.sh.                                                                *)
LEMMA StopFits == Fits("stop", StopSteps)
<1>1. WellOrdered(StopSteps) /\ Opens(StopSteps)
  BY StopContains, PlainSteps
<1>2. ~ Contains(StopSteps, Starting)
  BY StopContains DEF Starting
<1>3. /\ ~ Contains(StopSteps, {<<"rm", "files">>}) /\ ~ Contains(StopSteps, {<<"record", "mcp">>})
      /\ Contains(StopSteps, {<<"kill_pid", "mcp">>})
      /\ Contains(StopSteps, {<<"pkill", "chain">>}) /\ Contains(StopSteps, {<<"pkill", "hub">>})
  BY StopContains
<1>4. StopSteps \in Seq(HostSteps)
  BY StopContains
<1> QED
  BY <1>1, <1>2, <1>3, <1>4 DEF Fits

(* clear.sh: the files go last.                                            *)
LEMMA ClearFits == Fits("clear", ClearSteps)
<1> DEFINE r == << <<"rm", "home">>, <<"rm", "files">> >>
<1>1. r \in Seq(HostSteps) /\ Len(r) = 2 /\ r[1] = <<"rm", "home">> /\ r[2] = <<"rm", "files">>
  BY DEF HostSteps, Verbs
<1> HIDE DEF r
<1>2. \A S : Contains(r, S) <=> <<"rm", "home">> \in S \/ <<"rm", "files">> \in S
  <2>1. 1 .. 2 = {1, 2}
    OBVIOUS
  <2> QED
    BY <1>1, <2>1 DEF Contains
<1>3. \A A, B : <<"rm", "files">> \notin B => Before(r, A, B)
  <2>1. \A i, j \in 1 .. 2 : i < j => j = 2
    OBVIOUS
  <2> QED
    BY <1>1, <2>1 DEF Before
<1>4. Paired(r) /\ Opens(r)
  <2>1. 1 .. Len(r) - 1 = {1}
    BY <1>1
  <2>2. \A i \in {1} : \A x \in Service : r[i] = <<"spawn", x>> <=> r[i + 1] = <<"record", x>>
    BY <1>1
  <2> QED
    BY <1>1, <2>1, <2>2 DEF Paired, Opens
<1>5. \A x \in Service : Followed(r, {<<"spawn", x>>}, {<<"record", x>>})
  BY <1>1, <1>2, NoneFollowed
<1>6. WellOrdered(r)
  BY <1>2, <1>3, <1>4, <1>5 DEF WellOrdered
<1>7. WellOrdered(StopSteps) /\ Opens(StopSteps) /\ MayFollow(StopSteps, r)
  BY StopContains, PlainSteps
<1> DEFINE t == StopSteps \o r
<1>8. t \in Seq(HostSteps) /\ WellOrdered(t) /\ Opens(t)
  BY <1>1, <1>4, <1>6, <1>7, StopContains, ConcatFacts, WellOrderedConcat, OpensConcat
<1>9. \A S : Contains(t, S) <=> Contains(StopSteps, S) \/ Contains(r, S)
  BY <1>1, StopContains, ContainsConcat
<1> HIDE DEF t
<1>10. ~ Contains(t, Starting)
  BY <1>2, <1>9, StopContains DEF Starting
<1>11. /\ Contains(t, {<<"kill_pid", "mcp">>}) /\ Contains(t, {<<"pkill", "chain">>})
       /\ Contains(t, {<<"pkill", "hub">>})
       /\ Contains(t, {<<"rm", "home">>}) /\ Contains(t, {<<"rm", "files">>})
  BY <1>2, <1>9, StopContains
<1>12. t = ClearSteps
  BY DEF t, r, ClearSteps
<1> QED
  BY <1>8, <1>10, <1>11, <1>12 DEF Fits

(* So do all the scripts.                                                  *)
LEMMA ScriptsFit ==
  ASSUME NEW s \in Scripts
  PROVE  Fits(s, Steps(s))
<1>1. CASE s = "start"
  BY <1>1, StartFits DEF Steps
<1>2. CASE s = "skip_chain"
  BY <1>2, SkipChainFits DEF Steps
<1>3. CASE s = "stop"
  BY <1>3, StopFits DEF Steps
<1>4. CASE s = "clear"
  BY <1>4, ClearFits DEF Steps
<1> QED
  BY <1>1, <1>2, <1>3, <1>4 DEF Scripts

-----------------------------------------------------------------------------
(* What a step does to the processes and the files.                        *)

Shrinks ==
  /\ \A s \in Service : Running(s)' \subseteq Running(s) /\ Live(s)' \subseteq Live(s)
  /\ (Running("mcp") \ strays)' \subseteq Running("mcp") \ strays

Starts(s) == \E q \in Running("free") :
  /\ Running(s)' = Running(s) \cup {q} /\ Live(s)' = Live(s) \cup {q}
  /\ \A t \in Service \ {s} : Running(t)' = Running(t) /\ Live(t)' = Live(t)
  /\ strays' = strays /\ (s # "hub" => child' = q)

(* A step of a script that is not its last, by its name.                   *)
Does(x) ==
  /\ x \in HostSteps /\ Doing(x) /\ todo' = Tail(todo) /\ UNCHANGED <<script, finished, runs>>
  /\ x \in {"spawn"} \X Service \/ (Shrinks /\ child' = child)
  /\ \A s \in Service :
       /\ x = <<"spawn", s>> => Starts(s)
       /\ x = <<"pkill", s>> => Live(s)' = {}
       /\ x = <<"kill_pid", s>> =>
            /\ pidfile' = [pidfile EXCEPT ![s] = NoPid]
            /\ pidfile[s] \notin (Running(s) \ strays)'
       /\ x = <<"record", s>> => pidfile' = [pidfile EXCEPT ![s] = child]
  /\ x = <<"rm", "files">> => ~ logged' /\ pidfile' = [s \in Service |-> NoPid]
  /\ x \notin ({"kill_pid", "record"} \X Service) \cup {<<"rm", "files">>} => pidfile' = pidfile
  /\ x = <<"rm", "home">> /\ script = "clear" => home' = "none"
  /\ x # <<"init", "chain">> /\ home = "none" => home' = "none"
  /\ logged' => logged

(* The chain is started anew.                                              *)
Mitigates ==
  /\ Doing(<<"wait_for", "chain">>) /\ todo' = MitigationSteps \o Tail(todo)
  /\ UNCHANGED <<script, finished, runs, child, procVars, pidfile, chainVars>>

(* The script ends before its end.                                         *)
Abandons ==
  /\ Abandon /\ script # "none" /\ pidfile' = pidfile /\ Shrinks
  /\ Doing(<<"record", "mcp">>) => child \notin (Running("mcp") \ strays)'

(* What happens to the processes by themselves.                            *)
Moves ==
  /\ UNCHANGED <<scriptVars, pidfile>> /\ Shrinks
  /\ home = "none" => home' = "none" /\ logged' = logged

(* Where processes end, none of a service comes to be.                     *)
LEMMA EndedShrinks ==
  ASSUME TypeOK, NEW P, Ended(P)
  PROVE  Shrinks /\ \A s \in Service : P \cap Running(s)' = {}
<1>1. \A s \in Service : Running(s)' = Running(s) \ P
  <2>1. \A p \in Pid : proc'[p] = IF p \in P THEN "free" ELSE proc[p]
    BY DEF Ended
  <2> QED
    BY <2>1 DEF Running, Service
<1>2. dying' = dying \ P /\ strays' = strays \ P
  BY DEF Ended
<1> QED
  BY <1>1, <1>2 DEF Shrinks, Live, Service

(* Nor where the processes are left alone.                                 *)
LEMMA NoneMoves ==
  ASSUME UNCHANGED <<proc, dying, strays>>
  PROVE  Shrinks /\ \A s \in Service : Running(s)' = Running(s) /\ Live(s)' = Live(s)
  BY DEF Shrinks, Running, Live

(* Every step about a service is one of these.                             *)
LEMMA ServiceDoes ==
  ASSUME TypeOK, Bookkeeping, NEW s \in Service, ServiceStep(s)
  PROVE  (\E x \in HostSteps : Does(x)) \/ Abandons
<1> USE DEF HostSteps, Verbs, GoOn
<1>1. CASE KillPid(s)
  <2> DEFINE P == {pidfile[s]} \cap Pid
             x == <<"kill_pid", s>>
  <2>1. Shrinks /\ P \cap Running(s)' = {}
    BY <1>1, EndedShrinks DEF KillPid
  <2>2. Running(s)' \subseteq Pid
    BY DEF Running
  <2>3. pidfile[s] \notin (Running(s) \ strays)'
    BY <2>1, <2>2
  <2>4. home = "none" => home' = "none"
    BY <1>1 DEF KillPid, Damage
  <2>5. Does(x)
    BY <1>1, <2>1, <2>3, <2>4 DEF KillPid, Does
  <2> QED
    BY <2>5
<1>2. CASE Pkill(s)
  <2>1. Running(s)' = Running(s) /\ \A t \in Service : Running(t)' = Running(t)
    BY <1>2 DEF Pkill, Running
  <2>2. Live(s)' = {} /\ \A t \in Service : Live(t)' \subseteq Live(t)
    BY <1>2, <2>1 DEF Pkill, Live
  <2>3. Shrinks
    BY <1>2, <2>1, <2>2 DEF Shrinks, Pkill, Service
  <2>4. Does(<<"pkill", s>>)
    BY <1>2, <2>2, <2>3 DEF Pkill, Does, chainVars
  <2> QED
    BY <2>4
<1>3. CASE Spawn(s)
  <2>1. PICK p \in Running("free"), q \in Running("free") :
          /\ p = q \/ s = "hub"
          /\ proc' = [proc EXCEPT ![p] = "shell", ![q] = s]
          /\ child' = p
    BY <1>3 DEF Spawn
  <2>2. /\ p \in Pid /\ q \in Pid /\ proc[p] = "free" /\ proc[q] = "free"
        /\ proc \in [Pid -> Runs] /\ dying' = dying /\ strays' = strays
        /\ q \notin dying
    BY <1>3 DEF Spawn, Running, TypeOK
  <2>3. \A r \in Pid : proc'[r] = IF r = q THEN s ELSE IF r = p THEN "shell" ELSE proc[r]
    BY <2>1, <2>2
  <2>4. Running(s)' = Running(s) \cup {q} /\ \A t \in Service \ {s} : Running(t)' = Running(t)
    BY <2>2, <2>3 DEF Running, Service
  <2>5. Live(s)' = Live(s) \cup {q} /\ \A t \in Service \ {s} : Live(t)' = Live(t)
    BY <2>2, <2>4 DEF Live
  <2>6. Starts(s)
    BY <2>1, <2>2, <2>4, <2>5 DEF Starts
  <2>7. Does(<<"spawn", s>>)
    BY <1>3, <2>6 DEF Spawn, Does, chainVars
  <2> QED
    BY <2>7
<1>4. CASE Record(s)
  <2>1. Shrinks
    BY <1>4, NoneMoves DEF Record, procVars
  <2>2. Does(<<"record", s>>)
    BY <1>4, <2>1 DEF Record, Does, chainVars
  <2> QED
    BY <2>2
<1>5. CASE Healthy(s)
  <2>1. Shrinks
    BY <1>5, NoneMoves DEF Healthy, procVars
  <2>2. Does(<<"wait_for", s>>)
    BY <1>5, <2>1 DEF Healthy, Does, chainVars
  <2> QED
    BY <2>2
<1>6. CASE Unhealthy(s)
  <2>1. Shrinks
    BY <1>6, NoneMoves DEF Unhealthy, procVars
  <2>2. script # "none" /\ ~ Doing(<<"record", "mcp">>)
    BY <1>6 DEF Unhealthy, Doing, Bookkeeping
  <2> QED
    BY <1>6, <2>1, <2>2 DEF Unhealthy, Abandons
<1> QED
  BY <1>1, <1>2, <1>3, <1>4, <1>5, <1>6 DEF ServiceStep

(* So is every other step of a script.                                     *)
LEMMA OtherDoes ==
  ASSUME TypeOK, Bookkeeping,
         InitChain \/ ChainUnhealthy \/ WaitAgain \/ RemoveHome \/ RemoveFiles \/ Interrupt
  PROVE  (\E x \in HostSteps : Does(x)) \/ Mitigates \/ Abandons
<1> USE DEF HostSteps, Verbs, GoOn
<1>1. CASE InitChain
  <2>1. Shrinks
    BY <1>1, NoneMoves DEF InitChain, procVars
  <2>2. script # "none" /\ ~ Doing(<<"record", "mcp">>)
    BY <1>1 DEF InitChain, Doing, Bookkeeping
  <2>3. CASE Abandon
    BY <1>1, <2>1, <2>2, <2>3 DEF InitChain, Abandons
  <2>4. CASE GoOn /\ child' = child
    <3>1. Does(<<"init", "chain">>)
      BY <1>1, <2>1, <2>4 DEF InitChain, Does, Service
    <3> QED
      BY <3>1 DEF Service
  <2> QED
    BY <1>1, <2>3, <2>4 DEF InitChain
<1>2. CASE ChainUnhealthy
  <2>1. CASE logged
    BY <1>2, <2>1 DEF ChainUnhealthy, Mitigates
  <2>2. CASE ~ logged
    <3>1. Shrinks
      BY <1>2, NoneMoves DEF ChainUnhealthy, procVars
    <3>2. todo' = Tail(todo)
      <4>1. todo' = <<>> \o Tail(todo) /\ todo # <<>>
        BY <1>2, <2>2 DEF ChainUnhealthy, Doing
      <4>2. Tail(todo) \in Seq(HostSteps)
        BY <4>1, TailFacts DEF TypeOK
      <4> QED
        BY <4>1, <4>2
    <3>3. Does(<<"wait_for", "chain">>)
      BY <1>2, <3>1, <3>2 DEF ChainUnhealthy, Does, Service, chainVars
    <3> QED
      BY <3>3 DEF Service
  <2> QED
    BY <2>1, <2>2
<1>3. CASE WaitAgain
  <2>1. Shrinks
    BY <1>3, NoneMoves DEF WaitAgain, procVars
  <2>2. Does(<<"wait_again", "chain">>)
    BY <1>3, <2>1 DEF WaitAgain, Does, Service, chainVars
  <2> QED
    BY <2>2 DEF Service
<1>4. CASE RemoveHome
  <2>1. Shrinks
    BY <1>4, NoneMoves DEF RemoveHome, procVars
  <2>2. Does(<<"rm", "home">>)
    BY <1>4, <2>1 DEF RemoveHome, Does, Service
  <2> QED
    BY <2>2
<1>5. CASE RemoveFiles
  <2>1. Shrinks
    BY <1>5, NoneMoves DEF RemoveFiles, procVars
  <2>2. Does(<<"rm", "files">>)
    BY <1>5, <2>1 DEF RemoveFiles, Does, Service
  <2> QED
    BY <2>2
<1>6. CASE Interrupt
  <2>1. \A s \in Service : Running(s)' = Running(s) /\ Live(s)' = Live(s)
    BY <1>6 DEF Interrupt, Running, Live
  <2>2. strays \subseteq strays'
    BY <1>6 DEF Interrupt
  <2>3. Shrinks
    BY <2>1, <2>2 DEF Shrinks, Service
  <2>4. Doing(<<"record", "mcp">>) => child \notin (Running("mcp") \ strays)'
    BY <1>6, <2>1 DEF Interrupt, Service
  <2> QED
    BY <1>6, <2>3, <2>4 DEF Interrupt, Abandons
<1> QED
  BY <1>1, <1>2, <1>3, <1>4, <1>5, <1>6

(* And what processes do by themselves.                                    *)
LEMMA ProcessMoves ==
  ASSUME TypeOK, NEW p \in Pid, Exit(p) \/ Foreign(p)
  PROVE  Moves
<1>1. CASE Exit(p)
  <2>1. Shrinks
    BY <1>1, EndedShrinks DEF Exit
  <2>2. home = "none" => home' = "none" /\ logged' = logged
    BY <1>1 DEF Exit, Damage, TypeOK
  <2> QED
    BY <1>1, <2>1, <2>2 DEF Exit, Moves
<1>2. CASE Foreign(p)
  <2>1. \A s \in Service : Running(s)' = Running(s)
    BY <1>2 DEF Foreign, Running, Service, TypeOK
  <2>2. Shrinks
    BY <1>2, <2>1 DEF Foreign, Shrinks, Live, Service
  <2> QED
    BY <1>2, <2>2 DEF Foreign, Moves, chainVars
<1> QED
  BY <1>1, <1>2

(* Every step is one of these.                                             *)
LEMMA StepKinds ==
  ASSUME TypeOK, Bookkeeping, Next
  PROVE  (\E s \in Scripts : Begin(s)) \/ (\E x \in HostSteps : Does(x))
           \/ Mitigates \/ Abandons \/ Moves \/ End
  BY ServiceDoes, OtherDoes, ProcessMoves DEF Next

-----------------------------------------------------------------------------
(* The invariant is kept.                                                  *)

(* Where processes end, the types stay.                                    *)
LEMMA EndedTypes ==
  ASSUME TypeOK, NEW P, Ended(P)
  PROVE  /\ proc' \in [Pid -> Runs]
         /\ dying' \in SUBSET (Running("chain") \cup Running("hub"))'
         /\ strays' \in SUBSET Running("mcp")'
<1>1. proc \in [Pid -> Runs] /\ \A p \in Pid : proc'[p] = IF p \in P THEN "free" ELSE proc[p]
  BY DEF Ended, TypeOK
<1>2. proc' \in [Pid -> Runs]
  BY <1>1 DEF Ended, Runs
<1>3. \A s \in Service : Running(s) \ P \subseteq Running(s)'
  BY <1>1 DEF Running
<1> QED
  BY <1>2, <1>3 DEF Ended, TypeOK, Service

(* Every step keeps the types: no MCP server is told to end by pattern, as *)
(* pkill is for the chain and the hub only.                                *)
LEMMA TypesKept ==
  ASSUME TypeOK, Bookkeeping, ScriptInv, [Next]_vars
  PROVE  TypeOK'
<1> USE DEF TypeOK
<1>0. /\ \A s \in Seq(HostSteps) : s # <<>> => Tail(s) \in Seq(HostSteps)
      /\ <<>> \in Seq(HostSteps)
  BY TailFacts
<1>1. ASSUME NEW s \in Scripts, Begin(s) PROVE TypeOK'
  <2>1. Steps(s) \in Seq(HostSteps)
    BY ScriptsFit DEF Fits
  <2>2. runs' \in 0 .. MaxRuns
    BY <1>1, PidAssumption DEF Begin
  <2> QED
    BY <1>1, <2>1, <2>2 DEF Begin, procVars, chainVars, HostSteps, Running
<1>2. ASSUME NEW s \in Service, KillPid(s) PROVE TypeOK'
  BY <1>0, <1>2, EndedTypes DEF KillPid, Doing, GoOn, Damage, Homes, HostSteps
<1>3. ASSUME NEW s \in Service, Pkill(s) PROVE TypeOK'
  <2>1. s # "mcp"
    <3>1. todo # <<>> /\ Head(todo) = <<"pkill", s>>
      BY <1>3 DEF Pkill, Doing
    <3>2. ~ Contains(todo, {<<"pkill", "mcp">>})
      BY DEF ScriptInv, WellOrdered
    <3> QED
      BY <3>1, <3>2, ContainsTail
  <2>2. dying' \subseteq Running("chain") \cup Running("hub")
    BY <1>3, <2>1 DEF Pkill, Service
  <2> QED
    BY <1>0, <1>3, <2>2 DEF Pkill, Doing, GoOn, HostSteps, chainVars, Running
<1>4. ASSUME NEW s \in Service, Spawn(s) PROVE TypeOK'
  <2>1. PICK p \in Running("free"), q \in Running("free") :
          proc' = [proc EXCEPT ![p] = "shell", ![q] = s] /\ child' = p
    BY <1>4 DEF Spawn
  <2>2. p \in Pid /\ q \in Pid /\ proc[p] = "free" /\ proc[q] = "free"
    BY DEF Running
  <2>3. \A r \in Pid : proc'[r] = IF r = q THEN s ELSE IF r = p THEN "shell" ELSE proc[r]
    BY <2>1, <2>2
  <2>4. \A t \in Service : Running(t) \subseteq Running(t)'
    BY <2>2, <2>3 DEF Running, Service
  <2>5. proc' \in [Pid -> Runs]
    BY <2>1 DEF Runs
  <2> QED
    BY <1>0, <1>4, <2>1, <2>2, <2>4, <2>5
    DEF Spawn, Doing, GoOn, HostSteps, chainVars, Service
<1>5. ASSUME NEW s \in Service, Record(s) PROVE TypeOK'
  BY <1>0, <1>5 DEF Record, Doing, GoOn, HostSteps, chainVars, procVars, Running
<1>6. ASSUME NEW s \in Service, Healthy(s) \/ Unhealthy(s) PROVE TypeOK'
  BY <1>0, <1>6 DEF Healthy, Unhealthy, Doing, GoOn, Abandon, HostSteps, chainVars, procVars, Running
<1>7. CASE InitChain
  BY <1>0, <1>7 DEF InitChain, Doing, GoOn, Abandon, Homes, HostSteps, procVars, Running
<1>8. CASE ChainUnhealthy
  <2>1. MitigationSteps \o Tail(todo) \in Seq(HostSteps) /\ <<>> \o Tail(todo) \in Seq(HostSteps)
    BY <1>0, <1>8, MitigationUp, ConcatFacts DEF ChainUnhealthy, Doing, HostSteps
  <2> QED
    BY <1>8, <2>1 DEF ChainUnhealthy, HostSteps, procVars, chainVars, Running
<1>9. CASE WaitAgain
  BY <1>0, <1>9 DEF WaitAgain, Doing, GoOn, HostSteps, procVars, chainVars, Running
<1>10. CASE RemoveHome \/ RemoveFiles
  BY <1>0, <1>10 DEF RemoveHome, RemoveFiles, Doing, GoOn, Homes, HostSteps, procVars, Running
<1>11. CASE End
  BY <1>11 DEF End, procVars, chainVars, Running
<1>12. CASE Interrupt
  BY <1>0, <1>12 DEF Interrupt, Abandon, Homes, HostSteps, Running
<1>13. ASSUME NEW p \in Pid, Exit(p) PROVE TypeOK'
  BY <1>13, EndedTypes DEF Exit, Damage, Homes, scriptVars
<1>14. ASSUME NEW p \in Pid, Foreign(p) PROVE TypeOK'
  <2>1. \A t \in Service : Running(t) \subseteq Running(t)'
    BY <1>14 DEF Foreign, Running, Service
  <2>2. proc' \in [Pid -> Runs]
    BY <1>14 DEF Foreign, Runs
  <2> QED
    BY <1>14, <2>1, <2>2 DEF Foreign, Service, scriptVars, chainVars
<1>15. CASE UNCHANGED vars
  BY <1>15 DEF vars, scriptVars, procVars, chainVars, Running
<1> QED
  BY <1>1, <1>2, <1>3, <1>4, <1>5, <1>6, <1>7, <1>8, <1>9, <1>10, <1>11, <1>12, <1>13, <1>14, <1>15
  DEF Next, ServiceStep

(* What is still to be done after a step that is not the last.             *)
LEMMA DoesFacts ==
  ASSUME TypeOK, Bookkeeping, ScriptInv, NEW x, Does(x)
  PROVE  /\ todo \in Seq(HostSteps) /\ todo # <<>> /\ Head(todo) = x /\ todo' = Tail(todo)
         /\ todo' \in Seq(HostSteps) /\ WellOrdered(todo)
         /\ \A S : Contains(todo, S) <=> x \in S \/ Contains(todo', S)
         /\ script # "none" /\ Current = script /\ Current' = Current
  BY ContainsTail, TailFacts
  DEF Does, Doing, TypeOK, HostSteps, Bookkeeping, Current, ScriptInv

(* What is to be done as the chain is started anew.                        *)
LEMMA MitigatesFacts ==
  ASSUME TypeOK, Bookkeeping, ScriptInv, Mitigates
  PROVE  /\ Tail(todo) \in Seq(HostSteps) /\ WellOrdered(Tail(todo)) /\ Opens(Tail(todo))
         /\ Contains(todo, {<<"wait_for", "chain">>})
         /\ ~ Contains(Tail(todo), {<<"spawn", "chain">>, <<"pkill", "chain">>})
         /\ \A S : Contains(todo, S) <=> <<"wait_for", "chain">> \in S \/ Contains(Tail(todo), S)
         /\ \A S : Contains(todo', S) <=> Contains(MitigationSteps, S) \/ Contains(Tail(todo), S)
         /\ todo' = MitigationSteps \o Tail(todo) /\ todo' # <<>>
         /\ Head(todo') = <<"kill_pid", "chain">>
         /\ script # "none" /\ Current = script /\ Current' = Current
<1>1. /\ todo \in Seq(HostSteps) /\ todo # <<>> /\ Head(todo) = <<"wait_for", "chain">>
      /\ Tail(todo) \in Seq(HostSteps) /\ WellOrdered(todo) /\ todo' = MitigationSteps \o Tail(todo)
      /\ script # "none" /\ Current = script /\ Current' = Current
  BY TailFacts DEF Mitigates, Doing, TypeOK, HostSteps, Bookkeeping, Current, ScriptInv
<1>2. \A S : Contains(todo, S) <=> <<"wait_for", "chain">> \in S \/ Contains(Tail(todo), S)
  BY <1>1, ContainsTail
<1>3. \A S : Contains(todo', S) <=> Contains(MitigationSteps, S) \/ Contains(Tail(todo), S)
  BY <1>1, MitigationUp, ContainsConcat
<1>4. ~ Contains(Tail(todo), {<<"spawn", "chain">>, <<"pkill", "chain">>})
  BY <1>1, BeforeTail DEF WellOrdered
<1>5. WellOrdered(Tail(todo))
  BY <1>1, WellOrderedTail
<1>6. Opens(Tail(todo))
  <2>1. Tail(todo) # <<>> => \A x \in Service : Head(Tail(todo)) # <<"record", x>>
    <3>1. Paired(todo)
      BY <1>1 DEF WellOrdered
    <3> QED
      BY <1>1, <3>1, PairedTail
  <2>2. Tail(todo) # <<>> => Head(Tail(todo)) = Tail(todo)[1]
    BY <1>1, TailFacts
  <2>3. CASE Tail(todo) = <<>>
    BY <2>3 DEF Opens
  <2>4. CASE Tail(todo) # <<>>
    BY <2>1, <2>2, <2>4 DEF Opens
  <2> QED
    BY <2>3, <2>4
<1>7. todo' # <<>> /\ Head(todo') = <<"kill_pid", "chain">>
  <2>1. /\ MitigationSteps \in Seq(HostSteps) /\ MitigationSteps # <<>> /\ Opens(MitigationSteps)
        /\ Head(MitigationSteps) = <<"kill_pid", "chain">>
    BY MitigationUp
  <2> QED
    BY <1>1, <2>1, OpensConcat
<1> QED
  BY <1>1, <1>2, <1>3, <1>4, <1>5, <1>6, <1>7

(* A script that is over has nothing to do.                                *)
LEMMA BookkeepingKept ==
  ASSUME TypeOK, Bookkeeping, ScriptInv, [Next]_vars
  PROVE  Bookkeeping'
<1>1. ASSUME NEW s \in Scripts, Begin(s) PROVE Bookkeeping'
  BY <1>1 DEF Begin, Bookkeeping, Scripts
<1>2. ASSUME NEW x \in HostSteps, Does(x) PROVE Bookkeeping'
  BY <1>2 DEF Does, Doing, Bookkeeping
<1>3. CASE Mitigates
  BY <1>3 DEF Mitigates, Doing, Bookkeeping
<1>4. CASE Abandons
  BY <1>4 DEF Abandons, Abandon, Bookkeeping
<1>5. CASE Moves
  BY <1>5 DEF Moves, scriptVars, Bookkeeping
<1>6. CASE End
  BY <1>6 DEF End, Bookkeeping
<1>7. CASE UNCHANGED vars
  BY <1>7 DEF vars, scriptVars, Bookkeeping
<1> QED
  BY <1>1, <1>2, <1>3, <1>4, <1>5, <1>6, <1>7, StepKinds

(* After the last step.                                                    *)
LEMMA NothingWellOrdered == WellOrdered(<<>>)
<1>1. Paired(<<>>)
  BY DEF Paired
<1> QED
  BY <1>1, NothingLeft DEF WellOrdered

(* Every step leaves a well-ordered rest.                                  *)
LEMMA ScriptKept ==
  ASSUME TypeOK, Bookkeeping, ScriptInv, [Next]_vars
  PROVE  ScriptInv'
<1> DEFINE A == {<<"kill_pid", "chain">>, <<"spawn", "chain">>}
           B == {<<"record", "chain">>}
<1>1. ASSUME NEW s \in Scripts, Begin(s) PROVE ScriptInv'
  <2>1. todo' = Steps(s) /\ Current' = s
    BY <1>1 DEF Begin, Current, Scripts
  <2> QED
    BY <2>1, ScriptsFit DEF Fits, ScriptInv
<1>2. ASSUME NEW x \in HostSteps, Does(x) PROVE ScriptInv'
  <2>1. /\ todo \in Seq(HostSteps) /\ todo # <<>> /\ todo' = Tail(todo) /\ Current' = Current
        /\ WellOrdered(todo) /\ \A S : Contains(todo', S) => Contains(todo, S)
    BY <1>2, DoesFacts
  <2>2. WellOrdered(todo')
    BY <2>1, WellOrderedTail
  <2>3. Followed(todo, A, B) => Followed(todo', A, B)
    BY <2>1, FollowedTail
  <2> QED
    BY <2>1, <2>2, <2>3 DEF ScriptInv
<1>3. CASE Mitigates
  <2> DEFINE t == Tail(todo)
  <2>1. /\ t \in Seq(HostSteps) /\ WellOrdered(t) /\ Opens(t) /\ todo' = MitigationSteps \o t
        /\ Contains(todo, {<<"wait_for", "chain">>}) /\ todo \in Seq(HostSteps) /\ todo # <<>>
        /\ ~ Contains(t, {<<"spawn", "chain">>, <<"pkill", "chain">>})
        /\ Contains(t, {<<"rm", "files">>}) => Contains(todo, {<<"rm", "files">>})
        /\ Current' = Current
    <3>1. todo \in Seq(HostSteps) /\ todo # <<>>
      BY <1>3 DEF TypeOK, HostSteps, Mitigates, Doing
    <3> QED
      BY <1>3, <3>1, MitigatesFacts
  <2>2. Contains(todo, Starting)
    <3>1. {<<"wait_for", "chain">>} \subseteq Starting
      BY DEF Starting, Service
    <3> QED
      BY <2>1, <3>1, ContainsSubset
  <2>3. Followed(todo, A, B) => Followed(t, A, B)
    BY <2>1, FollowedTail
  <2> HIDE DEF t
  <2>4. MayFollow(MitigationSteps, t)
    <3>1. /\ ~ Contains(MitigationSteps, {<<"spawn", "hub">>})
          /\ ~ Contains(MitigationSteps, {<<"record", "mcp">>})
          /\ ~ Contains(MitigationSteps, {<<"wait_for", "chain">>})
          /\ ~ Contains(MitigationSteps, {<<"rm", "files">>})
      BY MitigationUp
    <3> QED
      BY <2>1, <3>1 DEF MayFollow
  <2>5. WellOrdered(todo')
    BY <2>1, <2>4, MitigationUp, WellOrderedConcat
  <2>6. Followed(todo, A, B) => Followed(todo', A, B)
    BY <2>1, <2>3, MitigationUp, FollowedConcat
  <2>7. Contains(todo', {<<"rm", "files">>}) => Contains(todo, {<<"rm", "files">>})
    <3>1. ~ Contains(MitigationSteps, {<<"rm", "files">>}) /\ MitigationSteps \in Seq(HostSteps)
      BY MitigationUp
    <3> QED
      BY <2>1, <3>1, ContainsConcat
  <2> QED
    BY <2>1, <2>2, <2>5, <2>6, <2>7 DEF ScriptInv
<1>4. CASE Abandons
  <2>1. todo' = <<>>
    BY <1>4 DEF Abandons, Abandon
  <2> QED
    BY <2>1, NothingLeft, NothingWellOrdered DEF ScriptInv
<1>5. CASE Moves
  BY <1>5 DEF Moves, scriptVars, ScriptInv, Current
<1>6. CASE End
  <2>1. todo' = todo /\ Current' = Current
    BY <1>6 DEF End, Current
  <2> QED
    BY <2>1 DEF ScriptInv
<1>7. CASE UNCHANGED vars
  BY <1>7 DEF vars, scriptVars, ScriptInv, Current
<1> QED
  BY <1>1, <1>2, <1>3, <1>4, <1>5, <1>6, <1>7, StepKinds

(* Every step keeps at most one chain and one hub to stay.                 *)
LEMMA InstanceKept ==
  ASSUME TypeOK, Bookkeeping, ScriptInv, InstanceInv, [Next]_vars
  PROVE  InstanceInv'
<1> SUFFICES ASSUME NEW s \in {"chain", "hub"}
             PROVE  /\ \A p, q \in Live(s)' : p = q
                    /\ Contains(todo', {<<"spawn", s>>}) /\ ~ Contains(todo', {<<"pkill", s>>}) =>
                         Live(s)' = {}
  BY DEF InstanceInv
<1>0. /\ \A p, q \in Live(s) : p = q
      /\ Contains(todo, {<<"spawn", s>>}) /\ ~ Contains(todo, {<<"pkill", s>>}) => Live(s) = {}
      /\ s \in Service
  BY DEF InstanceInv, Service
<1>1. ASSUME NEW c \in Scripts, Begin(c)
      PROVE  /\ Live(s)' = Live(s)
             /\ Contains(todo', {<<"spawn", s>>}) => Contains(todo', {<<"pkill", s>>})
  <2>1. UNCHANGED <<proc, dying, strays>> /\ todo' = Steps(c)
    BY <1>1 DEF Begin, procVars
  <2> QED
    BY <1>0, <2>1, NoneMoves, ScriptsFit DEF Fits
<1>2. ASSUME NEW x \in HostSteps, Does(x), x = <<"spawn", s>>
      PROVE  /\ \A p, q \in Live(s)' : p = q
             /\ ~ Contains(todo', {<<"spawn", s>>})
  <2>1. /\ todo \in Seq(HostSteps) /\ todo # <<>> /\ Head(todo) = x
        /\ todo' = Tail(todo) /\ todo' \in Seq(HostSteps)
        /\ \A S : Contains(todo, S) <=> x \in S \/ Contains(todo', S)
        /\ Before(todo, {<<"spawn", s>>}, {<<"spawn", s>>, <<"pkill", s>>})
    BY <1>2, DoesFacts DEF WellOrdered
  <2>2. ~ Contains(todo', {<<"spawn", s>>, <<"pkill", s>>})
    BY <1>2, <2>1, BeforeTail
  <2>3. ~ Contains(todo', {<<"spawn", s>>}) /\ ~ Contains(todo', {<<"pkill", s>>})
    BY <2>1, <2>2, ContainsSubset
  <2>4. Contains(todo, {<<"spawn", s>>}) /\ ~ Contains(todo, {<<"pkill", s>>})
    BY <1>2, <2>1, <2>3
  <2>5. PICK q \in Running("free") : Live(s)' = Live(s) \cup {q}
    BY <1>0, <1>2 DEF Does, Starts
  <2> QED
    BY <1>0, <2>3, <2>4, <2>5
<1>3. ASSUME NEW x \in HostSteps, Does(x), x # <<"spawn", s>>
      PROVE  /\ Live(s)' \subseteq Live(s)
             /\ Contains(todo', {<<"spawn", s>>}) /\ ~ Contains(todo', {<<"pkill", s>>}) =>
                  Live(s)' = {}
  <2>1. Live(s)' \subseteq Live(s)
    <3>1. CASE x \in {"spawn"} \X Service
      <4>1. PICK t \in Service : x = <<"spawn", t>>
        BY <3>1
      <4>2. Starts(t) /\ t # s
        BY <1>3, <4>1 DEF Does
      <4> QED
        BY <1>0, <4>2 DEF Starts
    <3>2. CASE Shrinks
      BY <1>0, <3>2 DEF Shrinks
    <3> QED
      BY <1>3, <3>1, <3>2 DEF Does
  <2>2. \A S : Contains(todo, S) <=> x \in S \/ Contains(todo', S)
    BY <1>3, DoesFacts
  <2>3. CASE x = <<"pkill", s>>
    BY <1>0, <1>3, <2>1, <2>3 DEF Does
  <2>4. CASE x # <<"pkill", s>>
    BY <1>0, <2>1, <2>2, <2>4
  <2> QED
    BY <2>1, <2>3, <2>4
<1>4. CASE Mitigates
  <2>1. Live(s)' = Live(s)
    BY <1>0, <1>4, NoneMoves DEF Mitigates, procVars
  <2>2. /\ \A S : Contains(todo, S) <=> <<"wait_for", "chain">> \in S \/ Contains(Tail(todo), S)
        /\ \A S : Contains(todo', S) <=> Contains(MitigationSteps, S) \/ Contains(Tail(todo), S)
    BY <1>4, MitigatesFacts
  <2>3. CASE s = "chain"
    <3>1. Contains(MitigationSteps, {<<"pkill", "chain">>})
      BY MitigationUp
    <3> QED
      BY <1>0, <2>1, <2>2, <2>3, <3>1
  <2>4. CASE s = "hub"
    <3>1. ~ Contains(MitigationSteps, {<<"spawn", "hub">>})
      BY MitigationUp
    <3> QED
      BY <1>0, <2>1, <2>2, <2>4, <3>1
  <2> QED
    BY <2>3, <2>4
<1>5. CASE Abandons
  <2>1. todo' = <<>> /\ Live(s)' \subseteq Live(s)
    BY <1>0, <1>5 DEF Abandons, Abandon, Shrinks
  <2> QED
    BY <1>0, <2>1, NothingLeft
<1>6. CASE Moves
  <2>1. todo' = todo /\ Live(s)' \subseteq Live(s)
    BY <1>0, <1>6 DEF Moves, Shrinks, scriptVars
  <2> QED
    BY <1>0, <2>1
<1>7. CASE End \/ UNCHANGED vars
  <2>1. todo' = todo /\ Live(s)' = Live(s)
    BY <1>0, <1>7, NoneMoves DEF End, vars, scriptVars, procVars
  <2> QED
    BY <1>0, <2>1
<1> QED
  BY <1>0, <1>1, <1>2, <1>3, <1>4, <1>5, <1>6, <1>7, StepKinds

(* As the pid file of the MCP server is written, it was removed before.    *)
LEMMA RecordIsLate ==
  ASSUME NEW s \in Seq(HostSteps), s # <<>>, WellOrdered(s), Head(s) = <<"record", "mcp">>
  PROVE  ~ Contains(s, {<<"kill_pid", "mcp">>}) /\ ~ Contains(Tail(s), {<<"record", "mcp">>})
<1>1. ~ Contains(Tail(s), {<<"record", "mcp">>, <<"kill_pid", "mcp">>})
  BY BeforeTail DEF WellOrdered
<1>2. Tail(s) \in Seq(HostSteps)
  BY TailFacts
<1>3. ~ Contains(Tail(s), {<<"record", "mcp">>}) /\ ~ Contains(Tail(s), {<<"kill_pid", "mcp">>})
  BY <1>1, <1>2, ContainsSubset
<1> QED
  BY <1>3, ContainsTail

(* What the pid file of the MCP server, and the child about to be written  *)
(* to it, name.                                                            *)
LEMMA McpKept ==
  ASSUME TypeOK, Bookkeeping, ScriptInv, McpInv, StoppedInv, [Next]_vars
  PROVE  McpInv'
<1> DEFINE Here == Running("mcp") \ strays
           Late == Contains(todo, {<<"record", "mcp">>})
                     /\ ~ Contains(todo, {<<"kill_pid", "mcp">>})
           Now == Doing(<<"record", "mcp">>)
<1>0. /\ Here \subseteq {pidfile["mcp"]} \cup (IF Now THEN {child} ELSE {})
      /\ Late => pidfile["mcp"] = NoPid
      /\ Here \subseteq Pid /\ NoPid \notin Pid
      /\ pidfile \in [Service -> Pid \cup {NoPid}] /\ "mcp" \in Service
  BY PidAssumption DEF McpInv, McpIsRecorded, Running, TypeOK, Service
<1> SUFFICES /\ Here' \subseteq {pidfile'["mcp"]} \cup (IF Now' THEN {child'} ELSE {})
             /\ Late' => pidfile'["mcp"] = NoPid
  BY DEF McpInv, McpIsRecorded
<1> HIDE DEF Here, Late, Now
<1>1. ASSUME NEW c \in Scripts, Begin(c)
      PROVE  Here' = Here /\ pidfile' = pidfile /\ ~ Late' /\ ~ Now
  <2>1. todo = <<>>
    BY <1>1 DEF Begin, Bookkeeping
  <2>2. Contains(todo', {<<"record", "mcp">>}) => Contains(todo', {<<"kill_pid", "mcp">>})
    BY <1>1, ScriptsFit DEF Begin, Fits
  <2> QED
    BY <1>1, <2>1, <2>2 DEF Begin, procVars, Here, Late, Now, Doing, Running
<1>2. ASSUME NEW x \in HostSteps, Does(x)
      PROVE  /\ todo \in Seq(HostSteps) /\ todo # <<>> /\ Head(todo) = x /\ todo' = Tail(todo)
             /\ WellOrdered(todo) /\ (Now <=> x = <<"record", "mcp">>)
             /\ Late => x = <<"record", "mcp">> \/ Late'
             /\ Late' => x = <<"kill_pid", "mcp">> \/ Late
             /\ Now => Late
  <2>1. /\ todo \in Seq(HostSteps) /\ todo # <<>> /\ Head(todo) = x /\ todo' = Tail(todo)
        /\ WellOrdered(todo) /\ \A S : Contains(todo, S) <=> x \in S \/ Contains(todo', S)
    BY <1>2, DoesFacts
  <2>2. Now <=> x = <<"record", "mcp">>
    BY <2>1 DEF Now, Doing
  <2>3. x = <<"record", "mcp">> => ~ Contains(todo, {<<"kill_pid", "mcp">>})
    BY <2>1, RecordIsLate
  <2>4. Late => x = <<"record", "mcp">> \/ Late'
    BY <2>1 DEF Late
  <2>5. Late' => x = <<"kill_pid", "mcp">> \/ Late
    BY <2>1 DEF Late
  <2>6. Now => Late
    BY <2>1, <2>2, <2>3 DEF Late
  <2> QED
    BY <2>1, <2>2, <2>4, <2>5, <2>6
<1>3. ASSUME NEW x \in HostSteps, Does(x), x = <<"spawn", "mcp">>
      PROVE  Now' /\ Here' \subseteq {child'} /\ Late /\ pidfile' = pidfile
  <2>1. todo' \in Seq(HostSteps) /\ WellOrdered(todo')
    BY <1>2, <1>3, TailFacts, WellOrderedTail
  <2>2. todo' # <<>> /\ Head(todo') = <<"record", "mcp">>
    <3>1. /\ Paired(todo) /\ Followed(todo, {<<"spawn", "mcp">>}, {<<"record", "mcp">>})
          /\ todo \in Seq(HostSteps) /\ todo # <<>> /\ Head(todo) = x /\ todo' = Tail(todo)
      BY <1>0, <1>2, <1>3 DEF WellOrdered
    <3>2. Contains(Tail(todo), {<<"record", "mcp">>})
      BY <1>3, <3>1, FollowedTail
    <3>3. Tail(todo) # <<>>
      BY <3>2, NothingLeft
    <3> QED
      BY <1>0, <1>3, <3>1, <3>3, PairedTail
  <2>3. Now' /\ Late'
    <3>1. ~ Contains(todo', {<<"kill_pid", "mcp">>})
      BY <2>1, <2>2, RecordIsLate
    <3>2. Contains(todo', {<<"record", "mcp">>})
      BY <2>1, <2>2, ContainsTail
    <3> QED
      BY <2>2, <3>1, <3>2 DEF Now, Late, Doing
  <2>4. Late /\ ~ Now
    BY <1>2, <1>3, <2>3
  <2>5. Here = {}
    BY <1>0, <2>4
  <2>6. Starts("mcp") /\ pidfile' = pidfile
    BY <1>0, <1>3 DEF Does
  <2>7. Here' \subseteq {child'}
    BY <2>5, <2>6 DEF Starts, Here
  <2> QED
    BY <2>3, <2>4, <2>6, <2>7
<1>4. ASSUME NEW x \in HostSteps, Does(x), x # <<"spawn", "mcp">>
      PROVE  Here' \subseteq Here
  <2>1. CASE x \in {"spawn"} \X Service
    <3>1. PICK t \in Service : x = <<"spawn", t>>
      BY <2>1
    <3>2. Starts(t) /\ t # "mcp"
      BY <1>4, <3>1 DEF Does
    <3> QED
      BY <1>0, <3>2 DEF Starts, Here
  <2>2. CASE Shrinks
    BY <2>2 DEF Shrinks, Here
  <2> QED
    BY <1>4, <2>1, <2>2 DEF Does
<1>5. ASSUME NEW x \in HostSteps, Does(x), x = <<"record", "mcp">>
      PROVE  Here' \subseteq {pidfile'["mcp"]} /\ ~ Late'
  <2>1. pidfile["mcp"] = NoPid /\ Here \subseteq {child}
    BY <1>0, <1>2, <1>5
  <2>2. pidfile'["mcp"] = child
    BY <1>0, <1>5 DEF Does
  <2>3. ~ Late'
    <3>1. ~ Contains(Tail(todo), {<<"record", "mcp">>})
      BY <1>2, <1>5, RecordIsLate
    <3> QED
      BY <1>2, <1>5, <3>1 DEF Late
  <2> QED
    BY <1>4, <1>5, <2>1, <2>2, <2>3
<1>6. ASSUME NEW x \in HostSteps, Does(x), x = <<"kill_pid", "mcp">>
      PROVE  Here' = {} /\ pidfile'["mcp"] = NoPid
  <2>1. pidfile'["mcp"] = NoPid /\ pidfile["mcp"] \notin Here'
    BY <1>0, <1>6 DEF Does, Here
  <2>2. Here' \subseteq {pidfile["mcp"]}
    BY <1>0, <1>2, <1>4, <1>6
  <2> QED
    BY <2>1, <2>2
<1>7. ASSUME NEW x \in HostSteps, Does(x), x = <<"rm", "files">>
      PROVE  Here' = {} /\ pidfile'["mcp"] = NoPid
  <2>1. /\ todo \in Seq(HostSteps) /\ todo # <<>> /\ WellOrdered(todo) /\ Head(todo) = x
        /\ \A S : Contains(todo, S) <=> x \in S \/ Contains(Tail(todo), S)
    BY <1>7, DoesFacts
  <2>2. Current = "clear"
    BY <1>7, <2>1 DEF ScriptInv
  <2>3. ~ Contains(Tail(todo), {<<"kill_pid", "mcp">>, <<"rm", "home">>})
    BY <1>7, <2>1, BeforeTail DEF WellOrdered
  <2>4. ~ Contains(todo, {<<"kill_pid", "mcp">>})
    <3>1. Tail(todo) \in Seq(HostSteps)
      BY <2>1, TailFacts
    <3>2. ~ Contains(Tail(todo), {<<"kill_pid", "mcp">>})
      BY <2>3, <3>1, ContainsSubset
    <3> QED
      BY <1>7, <2>1, <3>2
  <2>5. Here = {}
    BY <2>2, <2>4 DEF StoppedInv, Here
  <2> QED
    BY <1>0, <1>4, <1>7, <2>5 DEF Does
<1>8. ASSUME NEW x \in HostSteps, Does(x),
             x \notin {<<"spawn", "mcp">>, <<"record", "mcp">>, <<"kill_pid", "mcp">>, <<"rm", "files">>}
      PROVE  pidfile'["mcp"] = pidfile["mcp"]
  <2>1. CASE x \in {"kill_pid", "record"} \X Service
    <3>1. PICK v \in {"kill_pid", "record"}, t \in Service : x = <<v, t>>
      BY <2>1
    <3>2. t # "mcp"
      BY <1>8, <3>1
    <3> QED
      BY <1>0, <1>8, <3>1, <3>2 DEF Does
  <2>2. CASE x \notin {"kill_pid", "record"} \X Service
    BY <1>8, <2>2 DEF Does
  <2> QED
    BY <2>1, <2>2
<1>9. ASSUME NEW x \in HostSteps, Does(x)
      PROVE  /\ Here' \subseteq {pidfile'["mcp"]} \cup (IF Now' THEN {child'} ELSE {})
             /\ Late' => pidfile'["mcp"] = NoPid
  <2>1. CASE x = <<"spawn", "mcp">>
    BY <1>0, <1>3, <1>9, <2>1
  <2>2. CASE x \in {<<"record", "mcp">>, <<"kill_pid", "mcp">>, <<"rm", "files">>}
    BY <1>5, <1>6, <1>7, <1>9, <2>2
  <2>3. CASE x \notin {<<"spawn", "mcp">>, <<"record", "mcp">>, <<"kill_pid", "mcp">>, <<"rm", "files">>}
    <3>1. ~ Now /\ (Late' => Late) /\ Here' \subseteq Here /\ pidfile'["mcp"] = pidfile["mcp"]
      BY <1>2, <1>4, <1>8, <1>9, <2>3
    <3> QED
      BY <1>0, <3>1
  <2> QED
    BY <2>1, <2>2, <2>3
<1>10. CASE Mitigates
  <2>1. Here' = Here /\ pidfile' = pidfile /\ ~ Now
    BY <1>10 DEF Mitigates, procVars, Here, Now, Running, Doing
  <2>2. Late' => Late
    <3>1. /\ \A S : Contains(todo, S) <=> <<"wait_for", "chain">> \in S \/ Contains(Tail(todo), S)
          /\ \A S : Contains(todo', S) <=> Contains(MitigationSteps, S) \/ Contains(Tail(todo), S)
      BY <1>10, MitigatesFacts
    <3>2. ~ Contains(MitigationSteps, {<<"record", "mcp">>})
      BY MitigationUp
    <3> QED
      BY <3>1, <3>2 DEF Late
  <2> QED
    BY <1>0, <2>1, <2>2
<1>11. CASE Abandons
  <2>1. /\ Here' \subseteq Here /\ pidfile' = pidfile /\ todo' = <<>>
        /\ Now => child \notin Here'
    BY <1>11 DEF Abandons, Abandon, Shrinks, Here, Now
  <2>2. ~ Late' /\ ~ Now'
    BY <2>1, NothingLeft DEF Late, Now, Doing
  <2> QED
    BY <1>0, <2>1, <2>2
<1>12. CASE Moves
  <2>1. Here' \subseteq Here /\ pidfile' = pidfile /\ todo' = todo /\ child' = child
    BY <1>12 DEF Moves, Shrinks, scriptVars, Here
  <2>2. Late' = Late /\ Now' = Now
    BY <2>1 DEF Late, Now, Doing
  <2> QED
    BY <1>0, <2>1, <2>2
<1>13. CASE End \/ UNCHANGED vars
  <2>1. Here' = Here /\ pidfile' = pidfile /\ todo' = todo /\ child' = child
    BY <1>13 DEF End, vars, scriptVars, procVars, Here, Running
  <2>2. Late' = Late /\ Now' = Now
    BY <2>1 DEF Late, Now, Doing
  <2> QED
    BY <1>0, <2>1, <2>2
<1> QED
  BY <1>0, <1>1, <1>9, <1>10, <1>11, <1>12, <1>13, StepKinds

(* A script that stops the services starts nothing.                        *)
LEMMA StoppingDoes ==
  ASSUME TypeOK, Bookkeeping, ScriptInv, NEW x, Does(x), Current' \in {"stop", "clear"}
  PROVE  Shrinks /\ x \notin Starting /\ Current \in {"stop", "clear"}
<1>1. Current \in {"stop", "clear"} /\ \A S : Contains(todo, S) <=> x \in S \/ Contains(todo', S)
  BY DoesFacts
<1>2. x \notin Starting
  BY <1>1 DEF ScriptInv
<1> QED
  BY <1>1, <1>2 DEF Does, Starting

(* So it does not wait for the chain, ...                                  *)
LEMMA StoppingNeverMitigates ==
  ASSUME TypeOK, Bookkeeping, ScriptInv, Mitigates
  PROVE  Current' \notin {"stop", "clear"}
<1>1. Current' = Current /\ todo \in Seq(HostSteps) /\ Contains(todo, {<<"wait_for", "chain">>})
  BY MitigatesFacts DEF TypeOK, HostSteps
<1>2. {<<"wait_for", "chain">>} \subseteq Starting
  BY DEF Starting, Service
<1>3. Contains(todo, Starting)
  BY <1>1, <1>2, ContainsSubset
<1> QED
  BY <1>1, <1>3 DEF ScriptInv

(* ... and one that was interrupted promises nothing.                      *)
LEMMA AbandonedIsNone == Bookkeeping /\ Abandons => Current' = "none"
  BY DEF Bookkeeping, Abandons, Abandon, Current

(* Every step keeps what stop.sh and clear.sh have stopped.                *)
LEMMA StoppedKept ==
  ASSUME TypeOK, Bookkeeping, ScriptInv, McpInv, StoppedInv, [Next]_vars
  PROVE  StoppedInv'
<1> SUFFICES ASSUME Current' \in {"stop", "clear"}
             PROVE  /\ \A s \in {"chain", "hub"} :
                         ~ Contains(todo', {<<"pkill", s>>}) => Live(s)' = {}
                    /\ ~ Contains(todo', {<<"kill_pid", "mcp">>}) =>
                         (Running("mcp") \ strays)' = {}
  BY DEF StoppedInv
<1>0. Current \in {"stop", "clear"} =>
        /\ \A s \in {"chain", "hub"} : ~ Contains(todo, {<<"pkill", s>>}) => Live(s) = {}
        /\ ~ Contains(todo, {<<"kill_pid", "mcp">>}) => Running("mcp") \ strays = {}
  BY DEF StoppedInv
<1>1. ASSUME NEW c \in Scripts, Begin(c)
      PROVE  /\ Contains(todo', {<<"pkill", "chain">>}) /\ Contains(todo', {<<"pkill", "hub">>})
             /\ Contains(todo', {<<"kill_pid", "mcp">>})
  <2>1. todo' = Steps(c) /\ Current' = c
    BY <1>1 DEF Begin, Current, Scripts
  <2> QED
    BY <2>1, ScriptsFit DEF Fits
<1>2. ASSUME NEW x \in HostSteps, Does(x)
      PROVE  /\ \A s \in {"chain", "hub"} :
                  ~ Contains(todo', {<<"pkill", s>>}) => Live(s)' = {}
             /\ ~ Contains(todo', {<<"kill_pid", "mcp">>}) => (Running("mcp") \ strays)' = {}
  <2>1. Shrinks /\ Current \in {"stop", "clear"}
    BY <1>2, StoppingDoes
  <2>2. \A S : Contains(todo, S) <=> x \in S \/ Contains(todo', S)
    BY <1>2, DoesFacts
  <2>3. ASSUME NEW s \in {"chain", "hub"}, ~ Contains(todo', {<<"pkill", s>>})
        PROVE  Live(s)' = {}
    <3>1. CASE x = <<"pkill", s>>
      BY <1>2, <3>1 DEF Does, Service
    <3>2. CASE x # <<"pkill", s>>
      <4>1. Live(s) = {}
        BY <1>0, <2>1, <2>2, <2>3, <3>2
      <4> QED
        BY <2>1, <4>1 DEF Shrinks, Service
    <3> QED
      BY <3>1, <3>2
  <2>4. ASSUME ~ Contains(todo', {<<"kill_pid", "mcp">>})
        PROVE  (Running("mcp") \ strays)' = {}
    <3>1. CASE x = <<"kill_pid", "mcp">>
      <4>1. ~ Doing(<<"record", "mcp">>)
        BY <1>2, <3>1 DEF Does, Doing
      <4>2. Running("mcp") \ strays \subseteq {pidfile["mcp"]}
        BY <4>1 DEF McpInv, McpIsRecorded
      <4>3. pidfile["mcp"] \notin (Running("mcp") \ strays)'
        BY <1>2, <3>1 DEF Does, Service
      <4> QED
        BY <2>1, <4>2, <4>3 DEF Shrinks
    <3>2. CASE x # <<"kill_pid", "mcp">>
      <4>1. Running("mcp") \ strays = {}
        BY <1>0, <2>1, <2>2, <2>4, <3>2
      <4> QED
        BY <2>1, <4>1 DEF Shrinks
    <3> QED
      BY <3>1, <3>2
  <2> QED
    BY <2>3, <2>4
<1>3. ~ Mitigates /\ ~ Abandons
  BY StoppingNeverMitigates, AbandonedIsNone
<1>4. CASE Moves
  <2>1. Shrinks /\ todo' = todo /\ Current' = Current
    BY <1>4 DEF Moves, scriptVars, Current
  <2> QED
    BY <1>0, <2>1 DEF Shrinks, Service
<1>5. CASE End \/ UNCHANGED vars
  <2>1. UNCHANGED <<proc, dying, strays>> /\ todo' = todo /\ Current' = Current
    BY <1>5 DEF End, vars, scriptVars, procVars, Current
  <2>2. Shrinks
    BY <2>1, NoneMoves
  <2> QED
    BY <1>0, <2>1, <2>2 DEF Shrinks, Service
<1> QED
  BY <1>1, <1>2, <1>3, <1>4, <1>5, StepKinds

(* Every step keeps what start.sh has recorded.                            *)
LEMMA StartedKept ==
  ASSUME TypeOK, Bookkeeping, ScriptInv, InstanceInv, StartedInv, [Next]_vars
  PROVE  StartedInv'
<1> DEFINE Now == Doing(<<"record", "chain">>)
           Late == ~ Contains(todo, {<<"record", "chain">>})
<1>0. /\ Now => Live("chain") \subseteq {child}
      /\ Current = "start" /\ Late => Live("chain") \subseteq {pidfile["chain"]}
      /\ pidfile \in [Service -> Pid \cup {NoPid}] /\ "chain" \in Service
  BY DEF StartedInv, TypeOK, Service
<1> SUFFICES /\ Now' => Live("chain")' \subseteq {child'}
             /\ Current' = "start" /\ Late' => Live("chain")' \subseteq {pidfile'["chain"]}
  BY DEF StartedInv
<1> HIDE DEF Now, Late
<1>1. ASSUME NEW c \in Scripts, Begin(c)
      PROVE  ~ Now' /\ (Current' = "start" => ~ Late')
  <2>1. todo' = Steps(c) /\ Current' = c
    BY <1>1 DEF Begin, Current, Scripts
  <2>2. Fits(c, Steps(c))
    BY ScriptsFit
  <2>3. ~ Now'
    <3>1. Steps(c) \in Seq(HostSteps) /\ Opens(Steps(c))
      BY <2>2 DEF Fits
    <3>2. ASSUME Steps(c) # <<>> PROVE Head(Steps(c)) # <<"record", "chain">>
      <4>1. Len(Steps(c)) >= 1 /\ Steps(c)[1] = Head(Steps(c))
        BY <3>1, <3>2, TailFacts
      <4> QED
        BY <1>0, <3>1, <4>1 DEF Opens
    <3> QED
      BY <2>1, <3>2 DEF Now, Doing
  <2> QED
    BY <2>1, <2>2, <2>3 DEF Fits, Late
<1>2. ASSUME NEW x \in HostSteps, Does(x)
      PROVE  /\ Now' => Live("chain")' \subseteq {child'}
             /\ Current' = "start" /\ Late' => Live("chain")' \subseteq {pidfile'["chain"]}
  <2>1. /\ todo \in Seq(HostSteps) /\ todo # <<>> /\ Head(todo) = x /\ todo' = Tail(todo)
        /\ WellOrdered(todo) /\ \A S : Contains(todo, S) <=> x \in S \/ Contains(todo', S)
        /\ Current' = Current
    BY <1>2, DoesFacts
  <2>2. ASSUME Now' PROVE Live("chain")' \subseteq {child'}
    <3>1. todo' # <<>> /\ Head(todo') = <<"record", "chain">>
      BY <2>2 DEF Now, Doing
    <3>2. x = <<"spawn", "chain">>
      BY <1>0, <2>1, <3>1, PairedTail DEF WellOrdered
    <3>3. Live("chain") = {}
      <4>1. ~ Contains(todo', {<<"spawn", "chain">>, <<"pkill", "chain">>})
        BY <2>1, <3>2, BeforeTail DEF WellOrdered
      <4>2. todo' \in Seq(HostSteps)
        BY <2>1, TailFacts
      <4>3. ~ Contains(todo', {<<"pkill", "chain">>})
        BY <4>1, <4>2, ContainsSubset
      <4> QED
        BY <2>1, <3>2, <4>3 DEF InstanceInv
    <3>4. Starts("chain")
      BY <1>0, <1>2, <3>2 DEF Does
    <3> QED
      BY <3>3, <3>4 DEF Starts
  <2>3. ASSUME Current' = "start", Late' PROVE Live("chain")' \subseteq {pidfile'["chain"]}
    <3>1. Followed(todo, {<<"kill_pid", "chain">>, <<"spawn", "chain">>}, {<<"record", "chain">>})
      BY <2>1, <2>3 DEF ScriptInv
    <3>2. x # <<"kill_pid", "chain">> /\ x # <<"spawn", "chain">>
      BY <2>1, <2>3, <3>1, FollowedTail DEF Late
    <3>3. Live("chain")' \subseteq Live("chain")
      <4>1. CASE x \in {"spawn"} \X Service
        <5>1. PICK t \in Service : x = <<"spawn", t>>
          BY <4>1
        <5>2. Starts(t) /\ t # "chain"
          BY <1>2, <3>2, <5>1 DEF Does
        <5> QED
          BY <1>0, <5>2 DEF Starts
      <4>2. CASE Shrinks
        BY <1>0, <4>2 DEF Shrinks
      <4> QED
        BY <1>2, <4>1, <4>2 DEF Does
    <3>4. CASE x = <<"record", "chain">>
      <4>1. Live("chain") \subseteq {child} /\ pidfile'["chain"] = child
        BY <1>0, <1>2, <2>1, <3>4 DEF Does, Now, Doing
      <4> QED
        BY <3>3, <4>1
    <3>5. CASE x # <<"record", "chain">>
      <4>1. Late
        BY <2>1, <2>3, <3>5 DEF Late
      <4>2. x # <<"rm", "files">>
        <5>1. x = <<"rm", "files">> => Contains(todo, {<<"rm", "files">>})
          BY <2>1
        <5> QED
          BY <2>1, <2>3, <5>1 DEF ScriptInv
      <4>3. pidfile'["chain"] = pidfile["chain"]
        <5>1. CASE x \in {"kill_pid", "record"} \X Service
          <6>1. PICK v \in {"kill_pid", "record"}, t \in Service : x = <<v, t>>
            BY <5>1
          <6>2. t # "chain"
            BY <3>2, <3>5, <6>1
          <6> QED
            BY <1>0, <1>2, <6>1, <6>2 DEF Does
        <5>2. CASE x \notin {"kill_pid", "record"} \X Service
          BY <1>2, <4>2, <5>2 DEF Does
        <5> QED
          BY <5>1, <5>2
      <4> QED
        BY <1>0, <2>1, <2>3, <3>3, <4>1, <4>3
    <3> QED
      BY <3>4, <3>5
  <2> QED
    BY <2>2, <2>3
<1>3. CASE Mitigates
  <2>1. /\ todo' # <<>> /\ Head(todo') = <<"kill_pid", "chain">>
        /\ \A S : Contains(todo', S) <=> Contains(MitigationSteps, S) \/ Contains(Tail(todo), S)
    BY <1>3, MitigatesFacts
  <2>2. Contains(MitigationSteps, {<<"record", "chain">>})
    BY MitigationUp
  <2> QED
    BY <2>1, <2>2 DEF Now, Late, Doing
<1>4. CASE Abandons
  <2>1. todo' = <<>> /\ Current' = "none"
    BY <1>4, AbandonedIsNone DEF Abandons, Abandon
  <2> QED
    BY <2>1 DEF Now, Doing
<1>5. CASE Moves
  <2>1. /\ todo' = todo /\ child' = child /\ pidfile' = pidfile /\ Current' = Current
        /\ Live("chain")' \subseteq Live("chain")
    BY <1>0, <1>5 DEF Moves, Shrinks, scriptVars, Current
  <2>2. Now' = Now /\ Late' = Late
    BY <2>1 DEF Now, Late, Doing
  <2> QED
    BY <1>0, <2>1, <2>2
<1>6. CASE End \/ UNCHANGED vars
  <2>1. /\ todo' = todo /\ child' = child /\ pidfile' = pidfile /\ Current' = Current
        /\ Live("chain")' = Live("chain")
    BY <1>0, <1>6, NoneMoves DEF End, vars, scriptVars, procVars, Current
  <2>2. Now' = Now /\ Late' = Late
    BY <2>1 DEF Now, Late, Doing
  <2> QED
    BY <1>0, <2>1, <2>2
<1> QED
  BY <1>1, <1>2, <1>3, <1>4, <1>5, <1>6, StepKinds

(* Every step keeps what clear.sh has removed.                             *)
LEMMA ClearedKept ==
  ASSUME TypeOK, Bookkeeping, ScriptInv, ClearedInv, [Next]_vars
  PROVE  ClearedInv'
<1> DEFINE NoFiles == \A s \in Service : pidfile[s] = NoPid
<1>0. Current = "clear" =>
        /\ ~ Contains(todo, {<<"rm", "home">>}) => home = "none"
        /\ ~ Contains(todo, {<<"rm", "files">>}) => home = "none" /\ ~ logged /\ NoFiles
  BY DEF ClearedInv
<1> SUFFICES ASSUME Current' = "clear"
             PROVE  /\ ~ Contains(todo', {<<"rm", "home">>}) => home' = "none"
                    /\ ~ Contains(todo', {<<"rm", "files">>}) =>
                         home' = "none" /\ ~ logged' /\ NoFiles'
  BY DEF ClearedInv
<1> HIDE DEF NoFiles
<1>1. ASSUME NEW c \in Scripts, Begin(c)
      PROVE  Contains(todo', {<<"rm", "home">>}) /\ Contains(todo', {<<"rm", "files">>})
  <2>1. todo' = Steps(c) /\ Current' = c
    BY <1>1 DEF Begin, Current, Scripts
  <2> QED
    BY <2>1, ScriptsFit DEF Fits
<1>2. ASSUME NEW x \in HostSteps, Does(x)
      PROVE  /\ ~ Contains(todo', {<<"rm", "home">>}) => home' = "none"
             /\ ~ Contains(todo', {<<"rm", "files">>}) => home' = "none" /\ ~ logged' /\ NoFiles'
  <2>1. /\ todo \in Seq(HostSteps) /\ todo # <<>> /\ Head(todo) = x /\ todo' = Tail(todo)
        /\ WellOrdered(todo) /\ \A S : Contains(todo, S) <=> x \in S \/ Contains(todo', S)
        /\ Current = "clear"
    BY <1>2, DoesFacts
  <2>2. x \notin Starting
    BY <1>2, StoppingDoes
  <2>3. home = "none" => home' = "none"
    BY <1>2, <2>2 DEF Does, Starting, Service
  <2>4. ~ Contains(todo', {<<"rm", "home">>}) => home' = "none"
    <3>1. CASE x = <<"rm", "home">>
      <4>1. script = "clear"
        BY <2>1 DEF Bookkeeping, Current
      <4> QED
        BY <1>2, <3>1, <4>1 DEF Does
    <3>2. CASE x # <<"rm", "home">>
      BY <1>0, <2>1, <2>3, <3>2
    <3> QED
      BY <3>1, <3>2
  <2>5. CASE x = <<"rm", "files">>
    <3>1. ~ Contains(todo', {<<"kill_pid", "mcp">>, <<"rm", "home">>})
      BY <2>1, <2>5, BeforeTail DEF WellOrdered
    <3>2. todo' \in Seq(HostSteps)
      BY <2>1, TailFacts
    <3>3. ~ Contains(todo', {<<"rm", "home">>})
      BY <3>1, <3>2, ContainsSubset
    <3>4. ~ logged' /\ NoFiles'
      BY <1>2, <2>5 DEF Does, NoFiles
    <3> QED
      BY <2>4, <3>3, <3>4
  <2>6. CASE x # <<"rm", "files">>
    <3>1. NoFiles => NoFiles'
      <4>1. CASE x \in {"kill_pid", "record"} \X Service
        <5>1. PICK v \in {"kill_pid", "record"}, t \in Service : x = <<v, t>>
          BY <4>1
        <5>2. v = "kill_pid"
          BY <2>2, <5>1 DEF Starting
        <5>3. pidfile' = [pidfile EXCEPT ![t] = NoPid] /\ pidfile \in [Service -> Pid \cup {NoPid}]
          BY <1>2, <5>1, <5>2 DEF Does, TypeOK
        <5> QED
          BY <5>3 DEF NoFiles
      <4>2. CASE x \notin {"kill_pid", "record"} \X Service
        BY <1>2, <2>6, <4>2 DEF Does, NoFiles
      <4> QED
        BY <4>1, <4>2
    <3>2. logged' => logged
      BY <1>2 DEF Does
    <3> QED
      BY <1>0, <2>1, <2>3, <2>4, <2>6, <3>1, <3>2
  <2> QED
    BY <2>5, <2>6
<1>3. ~ Mitigates /\ ~ Abandons
  BY StoppingNeverMitigates, AbandonedIsNone
<1>4. CASE Moves
  <2>1. /\ todo' = todo /\ Current' = Current /\ pidfile' = pidfile
        /\ home = "none" => home' = "none" /\ logged' = logged
    BY <1>4 DEF Moves, scriptVars, Current
  <2>2. NoFiles' = NoFiles
    BY <2>1 DEF NoFiles
  <2> QED
    BY <1>0, <2>1, <2>2
<1>5. CASE End \/ UNCHANGED vars
  <2>1. /\ todo' = todo /\ Current' = Current /\ pidfile' = pidfile
        /\ home' = home /\ logged' = logged
    BY <1>5 DEF End, vars, scriptVars, chainVars, Current
  <2>2. NoFiles' = NoFiles
    BY <2>1 DEF NoFiles
  <2> QED
    BY <1>0, <2>1, <2>2
<1> QED
  BY <1>1, <1>2, <1>3, <1>4, <1>5, StepKinds

-----------------------------------------------------------------------------
(* What the scripts promise.                                               *)

(* The invariant holds.                                                    *)
THEOREM InvHolds == Spec => []HostInv
<1>1. Init => HostInv
  <2> SUFFICES ASSUME Init PROVE HostInv
    OBVIOUS
  <2>1. \A s \in Service : Running(s) = {} /\ Live(s) = {}
    BY DEF Init, Running, Live, Service
  <2>2. Current = "none" /\ todo = <<>>
    BY DEF Init, Current
  <2>3. TypeOK /\ Bookkeeping
    <3>1. runs \in 0 .. MaxRuns
      BY PidAssumption DEF Init
    <3>2. proc \in [Pid -> Runs] /\ pidfile \in [Service -> Pid \cup {NoPid}]
      BY DEF Init, Runs
    <3>3. todo \in Seq(Verbs \X (Service \cup {"home", "files"}))
      BY <2>2
    <3> QED
      BY <3>1, <3>2, <3>3 DEF Init, TypeOK, Bookkeeping, Homes
  <2>4. ScriptInv /\ InstanceInv
    BY <2>1, <2>2, NothingLeft, NothingWellOrdered DEF ScriptInv, InstanceInv, Service
  <2>5. McpInv /\ StoppedInv /\ StartedInv /\ ClearedInv
    BY <2>1, <2>2, NothingLeft
    DEF McpInv, McpIsRecorded, StoppedInv, StartedInv, ClearedInv, Doing, Service
  <2> QED
    BY <2>3, <2>4, <2>5 DEF HostInv
<1>2. HostInv /\ [Next]_vars => HostInv'
  BY TypesKept, BookkeepingKept, ScriptKept, InstanceKept, McpKept, StoppedKept, StartedKept,
     ClearedKept
  DEF HostInv
<1> QED
  BY <1>1, <1>2, PTL DEF Spec

(* Every variable has its type.                                            *)
THEOREM Typing == Spec => []TypeOK
<1>1. HostInv => TypeOK
  BY DEF HostInv
<1> QED
  BY <1>1, InvHolds, PTL

(* However often the scripts are interrupted, fail or are run again, there *)
(* is one chain and one hub to stay: no chain or hub is started but after  *)
(* a pkill of all there are.                                               *)
THEOREM OneOfEach == Spec => []OneInstance
<1>1. ASSUME TypeOK, InstanceInv PROVE OneInstance
  <2> SUFFICES ASSUME NEW s \in {"chain", "hub"} PROVE Cardinality(Live(s)) <= 1
    BY DEF OneInstance
  <2>1. \A p, q \in Live(s) : p = q
    BY <1>1 DEF InstanceInv
  <2>2. CASE Live(s) = {}
    BY <2>2, FS_EmptySet
  <2>3. CASE Live(s) # {}
    <3>1. PICK p : p \in Live(s)
      BY <2>3
    <3>2. Live(s) = {p}
      BY <2>1, <3>1
    <3> QED
      BY <3>2, FS_Singleton
  <2> QED
    BY <2>2, <2>3
<1> QED
  BY <1>1, InvHolds, PTL DEF HostInv

(* When stop.sh or clear.sh has come to its end, no chain and no hub stays *)
(* and no MCP server that the scripts can know of.                         *)
THEOREM StopStopsAll == Spec => []StoppedIsStopped
<1>1. ASSUME Bookkeeping, StoppedInv, ScriptInv PROVE StoppedIsStopped
  <2> SUFFICES ASSUME finished \in {"stop", "clear"}
               PROVE  Live("chain") = {} /\ Live("hub") = {} /\ Running("mcp") \subseteq strays
    BY DEF StoppedIsStopped
  <2>1. todo = <<>> /\ Current = finished
    BY <1>1 DEF Bookkeeping, Current
  <2> QED
    BY <1>1, <2>1, NothingLeft DEF StoppedInv
<1> QED
  BY <1>1, InvHolds, PTL DEF HostInv

(* When start.sh has come to its end, the chain that stays is the one its  *)
(* pid file names, also when it was started anew on the way.               *)
THEOREM StartRecordsChain == Spec => []StartedIsRecorded
<1>1. ASSUME Bookkeeping, StartedInv PROVE StartedIsRecorded
  <2> SUFFICES ASSUME finished = "start" PROVE Live("chain") \subseteq {pidfile["chain"]}
    BY DEF StartedIsRecorded
  <2>1. todo = <<>> /\ Current = "start"
    BY <1>1 DEF Bookkeeping, Current
  <2> QED
    BY <1>1, <2>1, NothingLeft DEF StartedInv
<1> QED
  BY <1>1, InvHolds, PTL DEF HostInv

(* An MCP server that no pid file names was left by a start.sh that was    *)
(* interrupted between its start and the write of its pid file.            *)
THEOREM McpServersRecorded == Spec => []McpIsRecorded
<1>1. HostInv => McpIsRecorded
  BY DEF HostInv, McpInv
<1> QED
  BY <1>1, InvHolds, PTL

(* When clear.sh has come to its end, there is no home, no log that makes  *)
(* a later start reset the chain, and no pid file.                         *)
THEOREM ClearClears == Spec => []ClearedIsClean
<1>1. ASSUME Bookkeeping, ClearedInv PROVE ClearedIsClean
  <2> SUFFICES ASSUME finished = "clear"
               PROVE  home = "none" /\ ~ logged /\ \A s \in Service : pidfile[s] = NoPid
    BY DEF ClearedIsClean
  <2>1. todo = <<>> /\ Current = "clear"
    BY <1>1 DEF Bookkeeping, Current
  <2> QED
    BY <1>1, <2>1, NothingLeft DEF ClearedInv
<1> QED
  BY <1>1, InvHolds, PTL DEF HostInv
=============================================================================
