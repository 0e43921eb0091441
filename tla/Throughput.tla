------------------------------ MODULE Throughput ------------------------------
(***************************************************************************)
(* The throughput figures of a replay run (harness.run,                    *)
(* getChainBlockHeight and countTxsInBlock in                              *)
(* scripts/empirical_replay/main.go): around the traffic of an epoch the   *)
(* height of the chain is read twice, and the transactions of the blocks   *)
(* in between are asked for, block by block, while the chain goes on.  A   *)
(* request that fails never fails the run: the epoch's sample is skipped.  *)
(* The epochs themselves, and the checkpoints between them, are those of   *)
(* SurvivalMonitor.                                                        *)
(***************************************************************************)
EXTENDS SurvivalMonitor, FiniteSetsExt

CONSTANTS
  MaxHeight,     (* Bound of the model: the blocks of the chain.           *)
  Txs            (* The transactions in each of them.                      *)

ASSUME BlockAssumption ==
  /\ MaxHeight \in Nat
  /\ Txs \in [1 .. MaxHeight -> Nat]

VARIABLES
  height,        (* The chain's height.                                    *)
  place,         (* Where the epoch is: before, in or after its traffic.   *)
  start,         (* startHeight, or Unread.                                *)
  end,           (* endHeight.                                             *)
  next,          (* The height the count of the blocks is at.              *)
  epochTxs,      (* What has been counted of this epoch.                   *)
  totalTxs,
  totalBlocks,
  counted        (* History: the blocks the totals are made of.            *)

sampleVars == <<place, start, end, next, epochTxs, totalTxs, totalBlocks, counted>>
throughputVars == <<vars, height, sampleVars>>

Unread == -1
Places == {"head", "traffic", "count", "sampled"}

ThroughputInit ==
  /\ Init
  /\ height = 0
  /\ place = "head"
  /\ start = Unread
  /\ end = Unread
  /\ next = 0
  /\ epochTxs = 0
  /\ totalTxs = 0
  /\ totalBlocks = 0
  /\ counted = {}

-----------------------------------------------------------------------------
(* At the head of the loop; a height that cannot be read is only warned    *)
(* about.                                                                  *)
ReadStart ==
  /\ pc = "epochs" /\ place = "head"
  /\ start' \in {height, Unread}
  /\ place' = "traffic"
  /\ UNCHANGED <<vars, height, end, next, epochTxs, totalTxs, totalBlocks, counted>>

(* After the epoch's traffic: with both heights its blocks can be counted, *)
(* otherwise there is no sample.                                           *)
ReadEnd ==
  /\ pc = "epochs" /\ place = "traffic"
  /\ \/ /\ start # Unread
        /\ end' = height
        /\ next' = start + 1
        /\ epochTxs' = 0
        /\ place' = "count"
     \/ place' = "sampled" /\ UNCHANGED <<end, next, epochTxs>>
  /\ UNCHANGED <<vars, height, start, totalTxs, totalBlocks, counted>>

(* Faulty variant: what is counted joins the total at once.                *)
CountTxsInBlockAtOnce ==
  /\ pc = "epochs" /\ place = "count"
  /\ next <= end
  /\ \/ /\ totalTxs' = totalTxs + Txs[next]
        /\ next' = next + 1
        /\ UNCHANGED place
     \/ place' = "sampled" /\ UNCHANGED <<next, totalTxs>>
  /\ UNCHANGED <<vars, height, start, end, epochTxs, totalBlocks, counted>>

(* countTxsInBlock: one block; if it cannot be read the sample is skipped. *)
CountTxsInBlock ==
  /\ pc = "epochs" /\ place = "count"
  /\ next <= end
  /\ \/ /\ epochTxs' = epochTxs + Txs[next]
        /\ next' = next + 1
        /\ UNCHANGED place
     \/ place' = "sampled" /\ UNCHANGED <<next, epochTxs>>
  /\ UNCHANGED <<vars, height, start, end, totalTxs, totalBlocks, counted>>

(* All of them were read: the sample counts.                               *)
TakeSample ==
  /\ pc = "epochs" /\ place = "count"
  /\ next > end
  /\ totalTxs' = totalTxs + epochTxs
  /\ totalBlocks' = totalBlocks + (end - start)
  /\ counted' = counted \cup (start + 1 .. end)
  /\ place' = "sampled"
  /\ UNCHANGED <<vars, height, start, end, next, epochTxs>>

(* The epoch is over, and its variables with it; what SurvivalMonitor does *)
(* then follows.                                                           *)
EndOfEpoch ==
  /\ place = "sampled"
  /\ EpochEnds
  /\ place' = "head"
  /\ start' = Unread
  /\ end' = Unread
  /\ next' = 0
  /\ epochTxs' = 0
  /\ UNCHANGED <<height, totalTxs, totalBlocks, counted>>

(* Everything else of SurvivalMonitor.                                     *)
Elsewhere ==
  /\ QueryArchived \/ CheckpointEnds \/ MeasureEnds \/ Fail
       \/ \E m \in Memory : Archive(m)
  /\ UNCHANGED <<height, sampleVars>>

(* The chain commits a block.                                              *)
Block ==
  /\ pc \notin Over
  /\ height < MaxHeight
  /\ height' = height + 1
  /\ UNCHANGED <<vars, sampleVars>>

ThroughputNext ==
  \/ ReadStart \/ ReadEnd \/ CountTxsInBlock \/ TakeSample
  \/ EndOfEpoch \/ Elsewhere \/ Block

ThroughputSpec == ThroughputInit /\ [][ThroughputNext]_throughputVars

-----------------------------------------------------------------------------
(* Properties.                                                             *)

(* Every variable has its type.                                            *)
ThroughputTypeOK ==
  /\ TypeOK
  /\ height \in 0 .. MaxHeight
  /\ place \in Places
  /\ start \in 0 .. MaxHeight \cup {Unread}
  /\ end \in 0 .. MaxHeight \cup {Unread}
  /\ next \in 0 .. MaxHeight + 1
  /\ epochTxs \in Nat
  /\ totalTxs \in Nat
  /\ totalBlocks \in Nat
  /\ counted \in SUBSET (1 .. MaxHeight)

(* "Total txs observed" and "Total blocks" are those of a set of blocks:   *)
(* samples of successive epochs share no block, though each height is read *)
(* twice and the chain goes on, and one that was skipped half way has left *)
(* nothing in the totals.                                                  *)
BlocksCountedOnce ==
  /\ totalBlocks = Cardinality(counted)
  /\ totalTxs = FoldSet(LAMBDA h, sum : Txs[h] + sum, 0, counted)
=============================================================================
