-------------------------- MODULE ReplayLockProofs --------------------------
(***************************************************************************)
(* Theorems about the single-flight lock of the replay harness, for every  *)
(* set of process ids.                                                     *)
(***************************************************************************)
EXTENDS ReplayLock, TLAPS

-----------------------------------------------------------------------------
(* Type correctness.                                                       *)

LEMMA TypeOKInit == Init => TypeOK
<1> SUFFICES ASSUME Init PROVE TypeOK
  OBVIOUS
<1>1. raced \in BOOLEAN
  BY Zenon DEF Init
<1>2. QED
  BY <1>1, AttemptsAssumption DEF Init, TypeOK, Files, NoFile, Outcomes

LEMMA TypeOKStep == TypeOK /\ [Next]_vars => TypeOK'
<1> USE PidAssumption, AttemptsAssumption
<1> SUFFICES ASSUME TypeOK, [Next]_vars
             PROVE  TypeOK'
  OBVIOUS
<1>r. raced' \in BOOLEAN
  BY Zenon DEF TypeOK, Next, vars
<1> USE <1>r
<1> USE DEF TypeOK, Files, NoFile, File, Outcomes, Acquiring, InFlight, Goto, Exit,
            LeaveFile, RemoveFile
<1>1. ASSUME NEW p \in Pid, Start(p) PROVE TypeOK'
  BY <1>1 DEF Start
<1>2. ASSUME NEW p \in Pid, Create(p) PROVE TypeOK'
  BY <1>2 DEF Create
<1>3. ASSUME NEW p \in Pid, CreateExists(p) PROVE TypeOK'
  BY <1>3 DEF CreateExists
<1>4. ASSUME NEW p \in Pid, Write(p) PROVE TypeOK'
  BY <1>4 DEF Write
<1>5. ASSUME NEW p \in Pid, Close(p) PROVE TypeOK'
  BY <1>5 DEF Close
<1>6. ASSUME NEW p \in Pid, WriteOrCloseFails(p) PROVE TypeOK'
  BY <1>6 DEF WriteOrCloseFails
<1>7. ASSUME NEW p \in Pid, Undo(p) PROVE TypeOK'
  BY <1>7 DEF Undo
<1>8. ASSUME NEW p \in Pid, ReadOwner(p) PROVE TypeOK'
  BY <1>8 DEF ReadOwner
<1>9. ASSUME NEW p \in Pid, Refuse(p) PROVE TypeOK'
  BY <1>9 DEF Refuse
<1>10. ASSUME NEW p \in Pid, OwnerGone(p) PROVE TypeOK'
  BY <1>10 DEF OwnerGone
<1>11. ASSUME NEW p \in Pid, RemoveStale(p) PROVE TypeOK'
  BY <1>11 DEF RemoveStale, RemoveThen
<1>12. ASSUME NEW p \in Pid, IoError(p) PROVE TypeOK'
  BY <1>12 DEF IoError
<1>13. ASSUME NEW p \in Pid, RunReturns(p) PROVE TypeOK'
  BY <1>13 DEF RunReturns
<1>14. ASSUME NEW p \in Pid, Release(p) PROVE TypeOK'
  BY <1>14 DEF Release
<1>15. ASSUME NEW p \in Pid, RunFails(p) PROVE TypeOK'
  BY <1>15 DEF RunFails
<1>16. ASSUME NEW p \in Pid, Kill(p) PROVE TypeOK'
  BY <1>16 DEF Kill
<1>17. ASSUME NEW p \in Pid, ForeignStart(p) PROVE TypeOK'
  BY <1>17 DEF ForeignStart
<1>18. ASSUME NEW p \in Pid, ForeignEnd(p) PROVE TypeOK'
  BY <1>18 DEF ForeignEnd
<1>19. CASE UNCHANGED vars
  BY <1>19 DEF vars
<1>20. QED
  BY <1>1, <1>2, <1>3, <1>4, <1>5, <1>6, <1>7, <1>8, <1>9, <1>10, <1>11, <1>12, <1>13,
     <1>14, <1>15, <1>16, <1>17, <1>18, <1>19
  DEF Next, Step, Acquire

(* However starts race, every variable keeps its type.                     *)
THEOREM Typing == Spec => []TypeOK
<1>1. QED
  BY TypeOKInit, TypeOKStep, PTL DEF Spec

-----------------------------------------------------------------------------
(* Racing starts.                                                          *)

LEMMA HoldsOrRobbedStep ==
  TypeOK /\ HoldsOrRobbed /\ [Next]_vars => HoldsOrRobbed'
<1> USE PidAssumption
<1> SUFFICES ASSUME TypeOK, HoldsOrRobbed, [Next]_vars
             PROVE  HoldsOrRobbed'
  OBVIOUS
<1> USE DEF TypeOK, HoldsOrRobbed, Files, NoFile, File, Acquiring, Holding, InFlight,
            Goto, Exit, LeaveFile, RemoveFile
<1>1. ASSUME NEW p \in Pid, Start(p) PROVE HoldsOrRobbed'
  BY <1>1 DEF Start
<1>2. ASSUME NEW p \in Pid, Create(p) PROVE HoldsOrRobbed'
  BY <1>2 DEF Create
<1>3. ASSUME NEW p \in Pid, CreateExists(p) PROVE HoldsOrRobbed'
  BY <1>3 DEF CreateExists
<1>4. ASSUME NEW p \in Pid, Write(p) PROVE HoldsOrRobbed'
  BY <1>4 DEF Write
<1>5. ASSUME NEW p \in Pid, Close(p) PROVE HoldsOrRobbed'
  BY <1>5 DEF Close
<1>6. ASSUME NEW p \in Pid, WriteOrCloseFails(p) PROVE HoldsOrRobbed'
  BY <1>6 DEF WriteOrCloseFails
<1>7. ASSUME NEW p \in Pid, Undo(p) PROVE HoldsOrRobbed'
  BY <1>7 DEF Undo
<1>8. ASSUME NEW p \in Pid, ReadOwner(p) PROVE HoldsOrRobbed'
  BY <1>8 DEF ReadOwner
<1>9. ASSUME NEW p \in Pid, Refuse(p) PROVE HoldsOrRobbed'
  BY <1>9 DEF Refuse
<1>10. ASSUME NEW p \in Pid, OwnerGone(p) PROVE HoldsOrRobbed'
  BY <1>10 DEF OwnerGone
<1>11. ASSUME NEW p \in Pid, RemoveStale(p) PROVE HoldsOrRobbed'
  BY <1>11 DEF RemoveStale, RemoveThen
<1>12. ASSUME NEW p \in Pid, IoError(p) PROVE HoldsOrRobbed'
  BY <1>12 DEF IoError
<1>13. ASSUME NEW p \in Pid, RunReturns(p) PROVE HoldsOrRobbed'
  BY <1>13 DEF RunReturns
<1>14. ASSUME NEW p \in Pid, Release(p) PROVE HoldsOrRobbed'
  BY <1>14 DEF Release
<1>15. ASSUME NEW p \in Pid, RunFails(p) PROVE HoldsOrRobbed'
  BY <1>15 DEF RunFails
<1>16. ASSUME NEW p \in Pid, Kill(p) PROVE HoldsOrRobbed'
  BY <1>16 DEF Kill
<1>17. ASSUME NEW p \in Pid, ForeignStart(p) PROVE HoldsOrRobbed'
  BY <1>17 DEF ForeignStart
<1>18. ASSUME NEW p \in Pid, ForeignEnd(p) PROVE HoldsOrRobbed'
  BY <1>18 DEF ForeignEnd
<1>19. CASE UNCHANGED vars
  BY <1>19 DEF vars
<1>20. QED
  BY <1>1, <1>2, <1>3, <1>4, <1>5, <1>6, <1>7, <1>8, <1>9, <1>10, <1>11, <1>12, <1>13, <1>14, <1>15, <1>16, <1>17, <1>18, <1>19
  DEF Next, Step, Acquire

(* However starts race, two harness runs are in flight at once only after  *)
(* a third party removed the file of one of them.                          *)
THEOREM RacingOverlap == Spec => []OverlapOnlyByRobbery
<1>1. Init => HoldsOrRobbed
  BY DEF Init, HoldsOrRobbed, Holding
<1>2. HoldsOrRobbed => OverlapOnlyByRobbery
  BY DEF HoldsOrRobbed, OverlapOnlyByRobbery, Holding, InFlight
<1>3. QED
  BY <1>1, <1>2, Typing, HoldsOrRobbedStep, PTL DEF Spec

-----------------------------------------------------------------------------
(* Serial starts.                                                          *)

LEMMA SerialInvStep == SerialInv /\ [Next]_vars => SerialInv'
<1> USE PidAssumption, AttemptsAssumption
<1> SUFFICES ASSUME SerialInv, [Next]_vars
             PROVE  SerialInv'
  OBVIOUS
<1>t. TypeOK'
  BY TypeOKStep DEF SerialInv
<1>r. CASE raced'
  BY <1>t, <1>r
  DEF SerialInv, HolderOwnsFile, OneAcquirer, ProbeStaysTrue, SecondPassFindsNoFile
<1>n. CASE ~raced'
  <2>r. ~raced
    BY <1>n DEF Next, vars
  <2> USE <1>t, <2>r DEF SerialInv, TypeOK, HolderOwnsFile, OneAcquirer, ProbeStaysTrue,
          SecondPassFindsNoFile, Files, NoFile, File, Acquiring, Holding, InFlight,
          Alive, Goto, Exit, LeaveFile, RemoveFile
  <2>1. ASSUME NEW p \in Pid, Start(p), ~Races(p) PROVE SerialInv'
    BY <2>1 DEF Start, Races
  <2>2. ASSUME NEW p \in Pid, Create(p) PROVE SerialInv'
    BY <2>2 DEF Create
  <2>3. ASSUME NEW p \in Pid, CreateExists(p) PROVE SerialInv'
    BY <2>3 DEF CreateExists
  <2>4. ASSUME NEW p \in Pid, Write(p) PROVE SerialInv'
    BY <2>4 DEF Write
  <2>5. ASSUME NEW p \in Pid, Close(p) PROVE SerialInv'
    BY <2>5 DEF Close
  <2>6. ASSUME NEW p \in Pid, WriteOrCloseFails(p) PROVE SerialInv'
    BY <2>6 DEF WriteOrCloseFails
  <2>7. ASSUME NEW p \in Pid, Undo(p) PROVE SerialInv'
    BY <2>7 DEF Undo
  <2>8. ASSUME NEW p \in Pid, ReadOwner(p) PROVE SerialInv'
    BY <2>8 DEF ReadOwner
  <2>9. ASSUME NEW p \in Pid, Refuse(p) PROVE SerialInv'
    BY <2>9 DEF Refuse
  <2>10. ASSUME NEW p \in Pid, OwnerGone(p) PROVE SerialInv'
    BY <2>10 DEF OwnerGone
  <2>11. ASSUME NEW p \in Pid, RemoveStale(p) PROVE SerialInv'
    BY <2>11 DEF RemoveStale, RemoveThen
  <2>12. ASSUME NEW p \in Pid, IoError(p) PROVE SerialInv'
    BY <2>12 DEF IoError
  <2>13. ASSUME NEW p \in Pid, RunReturns(p) PROVE SerialInv'
    BY <2>13 DEF RunReturns
  <2>14. ASSUME NEW p \in Pid, Release(p) PROVE SerialInv'
    BY <2>14 DEF Release
  <2>15. ASSUME NEW p \in Pid, RunFails(p) PROVE SerialInv'
    BY <2>15 DEF RunFails
  <2>16. ASSUME NEW p \in Pid, Kill(p) PROVE SerialInv'
    BY <2>16 DEF Kill
  <2>17. ASSUME NEW p \in Pid, ForeignStart(p) PROVE SerialInv'
    BY <2>17 DEF ForeignStart
  <2>18. ASSUME NEW p \in Pid, ForeignEnd(p) PROVE SerialInv'
    BY <2>18 DEF ForeignEnd
  <2>19. CASE UNCHANGED vars
    BY <2>19 DEF vars
  <2>20. QED
    BY <2>1, <2>2, <2>3, <2>4, <2>5, <2>6, <2>7, <2>8, <2>9, <2>10, <2>11, <2>12, <2>13, <2>14, <2>15, <2>16, <2>17, <2>18, <2>19, <1>n
    DEF Next, Step, Acquire
<1>q. QED
  BY <1>r, <1>n

LEMMA SerialInvAlways == Spec => []SerialInv
<1>1. Init => SerialInv
  <2>1. Init => TypeOK
    BY TypeOKInit
  <2>2. QED
    BY <2>1 DEF Init, SerialInv, HolderOwnsFile, OneAcquirer, ProbeStaysTrue,
                SecondPassFindsNoFile, Acquiring, Holding
<1>2. QED
  BY <1>1, SerialInvStep, PTL DEF Spec

(* Harnesses started one after the other never run at the same time,       *)
(* whatever runs fail, are killed at any step or leave their file behind,  *)
(* and whatever process ids the kernel reuses.                             *)
THEOREM UnracedRunsAlone == Spec => []SerialSingleFlight
<1>1. SerialInv => SerialSingleFlight
  BY DEF SerialInv, HolderOwnsFile, SerialSingleFlight, SingleFlight, Holding, InFlight
<1>2. QED
  BY <1>1, SerialInvAlways, PTL

(* A live run is never taken for a stale one when starts are serial: its   *)
(* file stays at the path, with its id in it.                              *)
THEOREM UnracedHolderOwnsFile == Spec => []HolderOwnsFile
<1>1. QED
  BY SerialInvAlways, PTL DEF SerialInv

(* When starts are serial the second pass of the loop always succeeds in   *)
(* creating the file: no start ends "unable to acquire replay lock".       *)
THEOREM UnracedNeverExhausted ==
  ASSUME MaxAttempts > 1
  PROVE  Spec => []NeverExhausted
<1>1. Init => NeverExhausted
  BY DEF Init, NeverExhausted
<1>2. SerialInv /\ NeverExhausted /\ [Next]_vars => NeverExhausted'
  <2> SUFFICES ASSUME SerialInv, NeverExhausted, [Next]_vars, ~raced'
               PROVE  NeverExhausted'
    BY DEF NeverExhausted
  <2>r. ~raced
    BY DEF Next, vars
  <2> USE <2>r DEF SerialInv, TypeOK, NeverExhausted, Goto, Exit
  <2>1. ASSUME NEW p \in Pid, RemoveStale(p) PROVE NeverExhausted'
    <3>1. attempt[p] = 0
      BY <2>1, AttemptsAssumption
      DEF RemoveStale, RemoveThen, SecondPassFindsNoFile, Holding
    <3>2. attempt[p] + 1 < MaxAttempts
      BY <3>1, AttemptsAssumption
    <3>3. UNCHANGED outcome
      BY <2>1, <3>2 DEF RemoveStale, RemoveThen
    <3>4. QED
      BY <3>3
  <2>2. ASSUME NEW p \in Pid, Start(p) \/ Step(p), ~RemoveStale(p)
        PROVE  NeverExhausted'
    BY <2>2
    DEF Step, Acquire, Start, Create, CreateExists, Write, Close, WriteOrCloseFails,
        Undo, ReadOwner, Refuse, OwnerGone, IoError, RunReturns, Release, RunFails,
        Kill, ForeignStart, ForeignEnd
  <2>3. CASE UNCHANGED vars
    BY <2>3 DEF vars
  <2>4. QED
    BY <2>1, <2>2, <2>3 DEF Next
<1>3. QED
  BY <1>1, <1>2, SerialInvAlways, PTL DEF Spec
=============================================================================
