------------------------------ MODULE ReplayRun ------------------------------
(***************************************************************************)
(* One empirical replay run (harness.run in                                *)
(* scripts/empirical_replay/main.go): seed the initial cohort, then, once  *)
(* per replay epoch, read the chain's epoch, add contributions, serve and  *)
(* deny memories, wait until the hub has relayed that traffic to the chain *)
(* and wait for the chain's next epoch; at the end measure survival.       *)
(*                                                                         *)
(* The chain's epoch clock and the hub's relay run by themselves.  The     *)
(* chain assesses the traffic stamped with epoch N when its epoch becomes  *)
(* N + Settle: what has not landed by then does not count.                 *)
(***************************************************************************)
EXTENDS MemoryLifecycle

CONSTANTS
  TotalEpochs,       (* REPLAY_TOTAL_EPOCHS.                               *)
  MinEarlyStop,      (* minEpochsBeforeEarlyStop.                          *)
  MaxServes,         (* Serves of one epoch: qPerEpoch times servePer.     *)
  Settle,            (* The chain's IdleDecaySettleEpochs.                 *)
  MaxEpoch,          (* Bound of the model: the last epoch of the chain.   *)
  NoMem              (* No memory served yet: firstServedCID is empty.     *)

ASSUME RunAssumption ==
  /\ TotalEpochs \in Nat \ {0}
  /\ MinEarlyStop \in Nat \ {0, 1}
  /\ MaxServes \in Nat
  /\ Settle \in Nat \ {0}
  /\ MaxEpoch \in Nat
  /\ NoMem \notin Mem

VARIABLES
  pc,           (* The phase of harness.run.                               *)
  e,            (* The epoch loop's counter.                               *)
  stamp,        (* currentEpoch, as read at the head of the loop.          *)
  sent,         (* Serves recorded in this iteration.                      *)
  fresh,        (* Whether the last of them may still be denied.           *)
  firstServed,  (* h.firstServedCID.                                       *)
  epoch,        (* The chain's current epoch.                              *)
  queue,        (* Serves and denials the hub has not relayed yet.         *)
  posted,       (* History: every serve and denial the hub accepted.       *)
  missed,       (* History: those not landed when they were assessed.      *)
  slow          (* History: the iterations in which the chain went on by   *)
                (* Settle epochs or more before the traffic was drained.   *)

harnessVars == <<pc, e, stamp, sent, fresh, firstServed>>
relayVars == <<queue, posted, missed>>
chainVars == <<epoch, slow>>
vars == <<lifecycleVars, harnessVars, relayVars, chainVars>>

Phases == {"seed", "start", "influx", "traffic", "drain", "advance", "sanity",
           "next", "measure", "done", "failed"}
Over == {"done", "failed"}

(* From the moment the chain's epoch is read until the relay is drained.   *)
Window == {"influx", "traffic", "drain"}

(* A serve or denial, the hub's req-th.  The nullifier a denial shares     *)
(* with the serve it denies is the pair of iter and n.                     *)
Event == [kind : {"serve", "denial"}, mem : Mem, stamp : Nat, iter : Nat,
          n : Nat, req : Nat]
Nullifier(ev) == <<ev.iter, ev.n>>

Landed == posted \ queue

Init ==
  /\ LifecycleInit
  /\ pc = "seed"
  /\ e = 0
  /\ stamp = 0
  /\ sent = 0
  /\ fresh = FALSE
  /\ firstServed = NoMem
  /\ epoch = 0
  /\ slow = {}
  /\ queue = {}
  /\ posted = {}
  /\ missed = {}

Goto(from, to) ==
  /\ pc = from
  /\ pc' = to

-----------------------------------------------------------------------------
(* The harness.                                                            *)

(* What comes before the seeding is in OrgSetup, and leaves nothing behind *)
(* that the rest of the run looks at.                                      *)
SeedBegins ==
  /\ pc = "seed"
  /\ BeginSeed
  /\ UNCHANGED <<harnessVars, relayVars, chainVars>>

(* Traffic is stamped with n; contributions come first.                     *)
StartAt(n) ==
  /\ pc = "start"
  /\ stamp' = n
  /\ sent' = 0
  /\ IF ContRate = 0
     THEN pc' = "traffic" /\ UNCHANGED lifecycleVars
     ELSE pc' = "influx" /\ BeginInflux
  /\ UNCHANGED <<e, fresh, firstServed, chainVars, relayVars>>

(* Faulty variant: the epoch is taken to be the next one, without asking.  *)
StartEpochUnread == StartAt(stamp + 1)

(* The head of the loop: the chain's epoch is read, then contributions are *)
(* made, then traffic.                                                     *)
StartEpoch == StartAt(epoch)

(* The lifecycle of a batch goes on; when it is over the run does.         *)
Lifecycle ==
  /\ pc \in {"seed", "influx"}
  /\ LifecycleStep
  /\ pc' = CASE stage' = "failed"               -> "failed"
             [] stage' = "idle" /\ pc = "seed"   -> "start"
             [] stage' = "idle" /\ pc = "influx" -> "traffic"
             [] OTHER                           -> pc
  /\ UNCHANGED <<e, stamp, sent, fresh, firstServed, relayVars, chainVars>>

(* The hub accepts an event: it is queued for the relay, and too late      *)
(* already if the chain has assessed the epoch it is stamped with.         *)
Record(ev) ==
  /\ posted' = posted \cup {ev}
  /\ queue' = queue \cup {ev}
  /\ missed' = IF ev.stamp + Settle <= epoch THEN missed \cup {ev} ELSE missed

EventNow(kind, m, n) ==
  [kind |-> kind, mem |-> m, stamp |-> stamp, iter |-> e, n |-> n,
   req |-> Cardinality(posted) + 1]

(* A query's result is served, if it is one of h.memories.                 *)
RecordServe(m) ==
  /\ pc = "traffic"
  /\ sent < MaxServes
  /\ m \in pool
  /\ Record(EventNow("serve", m, sent + 1))
  /\ sent' = sent + 1
  /\ fresh' = TRUE
  /\ firstServed' = IF firstServed = NoMem THEN m ELSE firstServed
  /\ UNCHANGED <<pc, e, stamp, chainVars, lifecycleVars>>

(* The serve just recorded is denied under its nullifier; deniable says    *)
(* whether it can be denied once more.                                     *)
DenyLast(deniable) ==
  /\ pc = "traffic"
  /\ fresh
  /\ \E s \in posted :
       /\ s.kind = "serve" /\ Nullifier(s) = <<e, sent>>
       /\ Record(EventNow("denial", s.mem, s.n))
  /\ fresh' = deniable
  /\ UNCHANGED <<pc, e, stamp, sent, firstServed, chainVars, lifecycleVars>>

(* Faulty variant: a denial that the hub has accepted may be sent again.   *)
RecordDenialAgain == DenyLast(TRUE)

(* recordDenial: at most once, right after the serve.                      *)
RecordDenial == DenyLast(FALSE)

(* All queries of the epoch are done.                                      *)
TrafficEnds ==
  /\ Goto("traffic", "drain")
  /\ fresh' = FALSE
  /\ UNCHANGED <<e, stamp, sent, firstServed, relayVars, chainVars,
                 lifecycleVars>>

LeaveDrain ==
  /\ Goto("drain", "advance")
  /\ UNCHANGED <<e, stamp, sent, fresh, firstServed, relayVars, chainVars,
                 lifecycleVars>>

(* Faulty variant: the depth of the queue is only reported.                *)
DrainServeRelayNoWait == LeaveDrain

(* The hub reports an empty serve queue.                                   *)
DrainServeRelay == queue = {} /\ LeaveDrain

(* The chain has reached the next epoch.  After the first epoch it is      *)
(* checked that serves reach the chain.                                    *)
WaitEpochAdvance ==
  /\ Goto("advance", IF e = 0 THEN "sanity" ELSE "next")
  /\ epoch >= stamp + 1
  /\ UNCHANGED <<e, stamp, sent, fresh, firstServed, relayVars, chainVars,
                 lifecycleVars>>

FirstServeLanded ==
  \E s \in Landed : s.kind = "serve" /\ s.mem = firstServed

(* sanityCheckServesReachChain: nothing was served, or the chain counts a  *)
(* serve of the memory served first; otherwise the run fails.              *)
SanityCheck ==
  /\ Goto("sanity", IF firstServed = NoMem \/ FirstServeLanded THEN "next" ELSE "failed")
  /\ UNCHANGED <<e, stamp, sent, fresh, firstServed, relayVars, chainVars,
                 lifecycleVars>>

(* The loop goes on, ends, or is left early after a checkpoint             *)
(* (SurvivalMonitor says when).                                            *)
NextEpoch ==
  /\ pc = "next"
  /\ e' = e + 1
  /\ \/ pc' = "measure" /\ e + 1 \in {TotalEpochs} \cup (MinEarlyStop .. TotalEpochs)
     \/ pc' = "start" /\ e + 1 < TotalEpochs
  /\ UNCHANGED <<stamp, sent, fresh, firstServed, relayVars, chainVars,
                 lifecycleVars>>

(* measureSurvival counts the initial cohort of h.memories (CohortIsSeed    *)
(* says which memories those are) and changes nothing the run looks at.    *)
MeasureSurvival ==
  /\ Goto("measure", "done")
  /\ UNCHANGED <<e, stamp, sent, fresh, firstServed, relayVars, chainVars,
                 lifecycleVars>>

FailIn(phases) ==
  /\ pc \in phases
  /\ pc' = "failed"
  /\ UNCHANGED <<e, stamp, sent, fresh, firstServed, relayVars, chainVars,
                 lifecycleVars>>

(* Faulty variant: drainServeRelay has no timeout.                         *)
FailNotDraining == FailIn(Phases \ (Over \cup {"drain"}))

(* A request fails, a wait times out or the watchdog expires: the run      *)
(* returns the error, whatever it was doing.                               *)
Fail == FailIn(Phases \ Over)

-----------------------------------------------------------------------------
(* The hub and the chain.                                                  *)

Hub ==
  /\ \E m \in Mem : HubProgress(m)
  /\ UNCHANGED <<harnessVars, relayVars, chainVars>>

OrgEpochMoves ==
  /\ RotateEpoch
  /\ UNCHANGED <<harnessVars, relayVars, chainVars>>

(* The relay lands events in any order, but a denial only after the serve  *)
(* whose nullifier it carries: the chain rejects it before.                *)
Relay(ev) ==
  /\ ev \in queue
  /\ ev.kind = "denial"
       => \E s \in Landed : s.kind = "serve" /\ Nullifier(s) = Nullifier(ev)
  /\ queue' = queue \ {ev}
  /\ UNCHANGED <<posted, missed, harnessVars, chainVars, lifecycleVars>>

(* The chain's next epoch begins, whatever the harness is doing, and the   *)
(* traffic of Settle epochs ago is assessed.                               *)
Tick ==
  /\ epoch < MaxEpoch
  /\ epoch' = epoch + 1
  /\ missed' = missed \cup {ev \in queue : ev.stamp + Settle <= epoch + 1}
  /\ slow' = IF pc \in Window /\ stamp + Settle <= epoch + 1 THEN slow \cup {e} ELSE slow
  /\ UNCHANGED <<queue, posted, harnessVars, lifecycleVars>>

-----------------------------------------------------------------------------
Traffic == (\E m \in Mem : RecordServe(m)) \/ RecordDenial \/ TrafficEnds

HarnessStep ==
  \/ SeedBegins \/ StartEpoch \/ Lifecycle \/ Traffic
  \/ DrainServeRelay \/ WaitEpochAdvance \/ SanityCheck \/ NextEpoch
  \/ MeasureSurvival \/ Fail

Environment == Hub \/ OrgEpochMoves \/ (\E ev \in queue : Relay(ev)) \/ Tick

(* Nothing after the end of the run is modelled.                           *)
Next == pc \notin Over /\ (HarnessStep \/ Environment)

(* Every wait of the harness has a timeout, so it can always go on or      *)
(* fail.  Nothing makes the hub or the chain go on.                        *)
Spec == Init /\ [][Next]_vars /\ WF_vars(HarnessStep)

-----------------------------------------------------------------------------
(* Properties.                                                             *)

(* Every variable has its type.                                            *)
TypeOK ==
  /\ LifecycleTypeOK
  /\ pc \in Phases
  /\ e \in 0 .. TotalEpochs
  /\ stamp \in Nat
  /\ sent \in 0 .. MaxServes
  /\ fresh \in BOOLEAN
  /\ firstServed \in Mem \cup {NoMem}
  /\ epoch \in Nat
  /\ slow \in SUBSET Nat
  /\ posted \in SUBSET Event
  /\ queue \in SUBSET posted
  /\ missed \in SUBSET posted

(* R-ONE-PATH across components: every serve and denial is of a memory     *)
(* the chain has committed, also those of the epoch's own contributions.   *)
ServedIsCommitted == \A ev \in posted : at[ev.mem] = Committed

(* recordDenial: "the denial MUST reference the originating serve's        *)
(* nullifier" - each denial the hub accepted carries the nullifier of an   *)
(* accepted serve of the same memory, and no serve is denied twice.  (The  *)
(* comment also wants the live chain epoch, which the code does not send:  *)
(* nothing is said of the denial's stamp.)                                 *)
DenialNamesServe ==
  \A d \in posted : d.kind = "denial" =>
    /\ \E s \in posted : s.kind = "serve" /\ s.mem = d.mem /\ Nullifier(s) = Nullifier(d)
    /\ \A c \in posted : c.kind = "denial" /\ Nullifier(c) = Nullifier(d) => c = d

(* drainServeRelay paces the relay: traffic is produced in rounds, and     *)
(* none begins before the traffic of the one before has landed.            *)
Paced == INSTANCE PacedTraffic WITH
           RoundOf <- LAMBDA ev : ev.iter, round <- e, outstanding <- queue
PacedSpec == Paced!Spec

(* What the pacing gives: traffic misses its assessment only in an         *)
(* iteration during which the chain itself went on by the settle window,   *)
(* from the reading of its epoch to the end of the drain.  An iteration    *)
(* that was quicker loses nothing, also after slow ones, and no backlog    *)
(* is left that a later epoch could overtake.                              *)
SettleWindowHolds == \A ev \in missed : ev.iter \in slow

(* After the drain of the first epoch the sanity check cannot raise a      *)
(* false alarm: what was served first has landed.                          *)
SanityHolds == pc = "sanity" /\ firstServed # NoMem => FirstServeLanded

(* Whatever the hub and the chain do, or fail to do, the run ends.         *)
RunEnds == <>(pc \in Over)
=============================================================================
