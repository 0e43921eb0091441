--------------------------- MODULE EarnedTrustProofs ---------------------------
(***************************************************************************)
(* Proofs about EarnedTrust, for any cohort, rate of contributions, number *)
(* of keywords, queries and epochs, grace and threshold.                   *)
(***************************************************************************)
EXTENDS EarnedTrust, FiniteSetTheorems, TLAPS

-----------------------------------------------------------------------------
(* Arithmetic.                                                             *)

(* Multiplication by a natural number is monotone.                         *)
LEMMA TimesMonotone ==
  ASSUME NEW a \in Nat, NEW x \in Int, NEW y \in Int, x <= y
  PROVE  a * x <= a * y
  BY SMT

(* Products of natural numbers are natural numbers.                        *)
LEMMA TimesNat ==
  ASSUME NEW x \in Nat, NEW y \in Nat
  PROVE  x * y \in Nat
  BY SMT

(* A fraction of Unit is a natural number.                                 *)
LEMMA ShareNat ==
  ASSUME NEW n \in Nat \ {0}
  PROVE  Share(n) \in Nat
  <1> DEFINE d == 10 * n * n
  <1>1. d \in Nat /\ d > 0
    <2>1. n * n \in Nat /\ n * n > 0
      BY SMT
    <2> QED BY <2>1, SMT
  <1>2. Unit \in Nat
    BY ModelAssumption
  <1> HIDE DEF d
  <1>3. Unit \div d \in Nat
    BY <1>1, <1>2, SMT
  <1> QED BY <1>3 DEF Share, d

(* Neither Full, which every weight starts with, nor the threshold is      *)
(* negative, and Full is the greater.                                      *)
LEMMA FullAboveThreshold ==
  /\ Full \in Nat
  /\ Threshold * Unit \in Nat
  /\ Threshold * Unit < Full
  /\ IdleD * Unit \in Nat
  <1>1. Unit \in Nat /\ Unit > 0 /\ MaxWeight \in Nat /\ Threshold \in Nat /\ Threshold < MaxWeight
    BY ModelAssumption
  <1>2. Full \in Nat /\ Threshold * Unit \in Nat
    BY <1>1, TimesNat DEF Full
  <1>3. IdleD * Unit \in Nat
    BY <1>1, SMT DEF IdleD
  <1>4. Unit * (Threshold + 1) <= Unit * MaxWeight
    BY <1>1, TimesMonotone
  <1>5. Threshold * Unit < MaxWeight * Unit
    BY <1>1, <1>4, SMT
  <1> QED BY <1>2, <1>3, <1>5 DEF Full

-----------------------------------------------------------------------------
(* The memories that have been made are memories.                          *)
LEMMA MadeInMem ==
  ASSUME TypeOK
  PROVE  Made \subseteq Mem /\ made \in Nat
  <1> DEFINE rounds == IF queries = -1 THEN epoch ELSE epoch + 1
  <1>1. rounds \in Nat /\ rounds <= Epochs
    BY ScenarioAssumption DEF TypeOK
  <1> HIDE DEF rounds
  <1>2. ContRate * rounds <= ContRate * Epochs /\ ContRate * rounds \in Nat
    BY <1>1, ScenarioAssumption, TimesMonotone, TimesNat
  <1>3. ContRate * Epochs \in Nat
    BY ScenarioAssumption, TimesNat
  <1>4. made = InitMem + ContRate * rounds
    BY DEF TypeOK, rounds
  <1> QED BY <1>2, <1>3, <1>4, ScenarioAssumption DEF Made, Mem

(* What an epoch adds to and takes from the weight of a keyword.           *)
LEMMA ChangeTyped ==
  ASSUME TypeOK, NEW m \in Mem
  PROVE  /\ Idle(m) \in 0 .. IdleD * Unit
         /\ served[m] > 0 /\ served[m] <= serves[m] => Gain(m) \in Nat
         /\ denied[m] > 0 /\ denied[m] <= denials[m] => Loss(m) \in Nat
  <1> DEFINE n == Total(m)
  <1>1. /\ serves[m] \in Nat /\ denials[m] \in Nat
        /\ served[m] \in Nat /\ denied[m] \in Nat
    BY DEF TypeOK
  <1>2. n \in Nat
    BY <1>1 DEF Total
  <1>3. Idle(m) \in 0 .. IdleD * Unit
    <2>1. IdleD * Unit \in Nat
      BY FullAboveThreshold
    <2>2. ASSUME NEW x \in Nat PROVE x \div 20 \in 0 .. x
      BY SMT
    <2> QED BY <2>1, <2>2 DEF Idle
  <1>4. ASSUME served[m] > 0, served[m] <= serves[m] PROVE Gain(m) \in Nat
    <2>1. n \in Nat \ {0}
      BY <1>1, <1>4 DEF Total
    <2>2. Share(n) \in Nat
      BY <2>1, ShareNat
    <2>3. 4 * (n * n) + 6 * (serves[m] * serves[m]) \in Nat
      <3>1. n * n \in Nat /\ serves[m] * serves[m] \in Nat
        BY <1>1, <1>2, TimesNat
      <3> QED BY <3>1
    <2>4. ServeD * served[m] \in Nat
      BY <1>1 DEF ServeD
    <2>5. ServeD * served[m] * (4 * (n * n) + 6 * (serves[m] * serves[m])) \in Nat
      BY <2>3, <2>4, TimesNat
    <2> HIDE DEF n
    <2> QED BY <2>2, <2>5, TimesNat DEF Gain, n
  <1>5. ASSUME denied[m] > 0, denied[m] <= denials[m] PROVE Loss(m) \in Nat
    <2>1. n \in Nat \ {0}
      BY <1>1, <1>5 DEF Total
    <2>2. Share(n) \in Nat
      BY <2>1, ShareNat
    <2>3. 3 * (n * n) + 7 * (denials[m] * n) \in Nat
      <3>1. n * n \in Nat /\ denials[m] * n \in Nat
        BY <1>1, <1>2, TimesNat
      <3> QED BY <3>1
    <2>4. DenialD * denied[m] \in Nat
      BY <1>1 DEF DenialD
    <2>5. DenialD * denied[m] * (3 * (n * n) + 7 * (denials[m] * n)) \in Nat
      BY <2>3, <2>4, TimesNat
    <2> HIDE DEF n
    <2> QED BY <2>2, <2>5, TimesNat DEF Loss, n
  <1> QED BY <1>3, <1>4, <1>5

(* A weight stays one whatever is added to it.                             *)
LEMMA ClampTyped ==
  ASSUME NEW w \in Int
  PROVE  Clamp(w) \in 0 .. Full
  BY FullAboveThreshold DEF Clamp

-----------------------------------------------------------------------------
(* The decay of one epoch.                                                 *)

(* What an epoch changes is an integer; without denials it is at worst the *)
(* idle decay, and for a memory nobody was ever served it is just that.    *)
LEMMA ChangeBounded ==
  ASSUME TypeOK, DenialsAreServes, CountsConsistent,
         NEW m \in Mem, NEW k \in Keyword
  PROVE  /\ Change(m, k) \in Int
         /\ denials[m] = 0 => Change(m, k) >= 0 - IdleD * Unit
         /\ serves[m] = 0 => Change(m, k) = 0 - IdleD * Unit
  <1> DEFINE idle == IdleD * Unit
             gain == IF served[m] > 0 THEN Gain(m) ELSE 0
             loss == IF denied[m] > 0 THEN Loss(m) ELSE 0
  <1>1. /\ served[m] \in Nat /\ denied[m] \in Nat
        /\ serves[m] \in Nat /\ denials[m] \in Nat
        /\ served[m] <= serves[m] /\ denied[m] <= denials[m]
        /\ matched[m] # {} => served[m] > 0
    BY DEF TypeOK, DenialsAreServes, CountsConsistent
  <1>2. Idle(m) \in 0 .. idle /\ idle \in Nat
    BY ChangeTyped, FullAboveThreshold
  <1>3. gain \in Nat
    BY <1>1, ChangeTyped
  <1>4. loss \in Nat /\ (denials[m] = 0 => loss = 0)
    BY <1>1, ChangeTyped
  <1>5. Change(m, k) = IF k \in matched[m] THEN gain - loss ELSE 0 - Idle(m)
    BY DEF Change
  <1>6. serves[m] = 0 => k \notin matched[m] /\ Idle(m) = idle
    BY <1>1 DEF Idle, TrustEarned, TrustMinServes
  <1> HIDE DEF idle, gain, loss
  <1>7. /\ Change(m, k) \in Int
        /\ denials[m] = 0 => Change(m, k) >= 0 - idle
        /\ serves[m] = 0 => Change(m, k) = 0 - idle
    BY <1>2, <1>3, <1>4, <1>5, <1>6
  <1> QED BY <1>7 DEF idle

(* A memory that is served denied serves only gains nothing by them.       *)
LEMMA DeniedChangeNegative ==
  ASSUME TypeOK, DenialsAreServes, CountsConsistent,
         NEW m \in Mem, NEW k \in Keyword, denied[m] = served[m]
  PROVE  Change(m, k) <= 0
  <1> DEFINE n == Total(m)  s == serves[m]  d == denials[m]  x == served[m]
  <1>1. /\ x \in Nat /\ s \in Nat /\ d \in Nat /\ n = s + d /\ n \in Nat
        /\ x <= s /\ x <= d /\ (matched[m] # {} => x > 0)
    BY DEF TypeOK, DenialsAreServes, CountsConsistent, Total
  <1>2. CASE k \notin matched[m]
    BY <1>2, ChangeTyped, FullAboveThreshold DEF Change
  <1>3. CASE k \in matched[m]
    <2>1. x > 0 /\ n \in Nat \ {0}
      BY <1>1, <1>3
    <2>2. Share(n) \in Nat
      BY <2>1, ShareNat
    <2> DEFINE nn == n * n  ss == s * s  dn == d * n
    <2>3. nn \in Nat /\ ss \in Nat /\ dn \in Nat
      BY <1>1, TimesNat
    <2>4. ss <= nn
      <3>1. s * s <= s * n
        BY <1>1, TimesMonotone
      <3>2. n * s <= n * n
        BY <1>1, TimesMonotone
      <3>3. s * n = n * s
        BY <1>1
      <3>4. s * n \in Nat
        BY <1>1, TimesNat
      <3> QED BY <2>3, <3>1, <3>2, <3>3, <3>4
    <2> DEFINE g == 4 * nn + 6 * ss   l == 3 * nn + 7 * dn
    <2>5. g \in Nat /\ l \in Nat /\ 220 * g <= 900 * l
      <3> HIDE DEF nn, ss, dn
      <3> QED BY <2>3, <2>4
    <2>6. Gain(m) = 220 * x * g * Share(n)
      BY DEF Gain, ServeD
    <2>7. Loss(m) = 900 * x * l * Share(n)
      BY DEF Loss, DenialD
    <2> HIDE DEF n, s, d, x, nn, ss, dn, g, l
    <2>8. x * (220 * g) <= x * (900 * l)
      BY <1>1, <2>5, TimesMonotone
    <2>9. 220 * x * g = x * (220 * g) /\ 900 * x * l = x * (900 * l)
      BY <1>1, <2>5, SMT
    <2>10. 220 * x * g \in Nat /\ 900 * x * l \in Nat
      <3>1. 220 * x \in Nat /\ 900 * x \in Nat
        BY <1>1
      <3> QED BY <3>1, <2>5, TimesNat
    <2> DEFINE G == 220 * x * g  L == 900 * x * l
    <2>11. G \in Nat /\ L \in Nat /\ G <= L
      BY <2>8, <2>9, <2>10
    <2>12. Gain(m) = G * Share(n) /\ Loss(m) = L * Share(n)
      BY <2>6, <2>7
    <2> HIDE DEF G, L
    <2>13. Share(n) * G <= Share(n) * L
      BY <2>2, <2>11, TimesMonotone
    <2>14. G * Share(n) = Share(n) * G /\ L * Share(n) = Share(n) * L
      BY <2>2, <2>11
    <2>15. G * Share(n) \in Nat /\ L * Share(n) \in Nat
      BY <2>2, <2>11, TimesNat
    <2>16. Gain(m) \in Nat /\ Loss(m) \in Nat /\ Gain(m) <= Loss(m)
      BY <2>12, <2>13, <2>14, <2>15
    <2>17. Change(m, k) = Gain(m) - Loss(m)
      BY <1>3, <2>1 DEF Change, x
    <2> QED BY <2>16, <2>17
  <1> QED BY <1>2, <1>3

(* The schedule begins at Full, and each epoch after the grace takes the   *)
(* idle decay from it until nothing is left.                               *)
LEMMA ScheduleFalls ==
  ASSUME NEW aged \in Int
  PROVE  /\ ScheduleAt(aged) \in 0 .. Full
         /\ aged <= 0 => ScheduleAt(aged) = Full
         /\ aged >= 0 => ScheduleAt(aged + 1) =
              IF ScheduleAt(aged) - IdleD * Unit < 0 THEN 0
              ELSE ScheduleAt(aged) - IdleD * Unit
         /\ ScheduleAt(aged + 1) <= ScheduleAt(aged)
  <1> DEFINE idle == IdleD * Unit  drop == idle * aged
  <1>1. idle \in Nat /\ Full \in Nat
    BY FullAboveThreshold
  <1>2. aged >= 0 => drop \in Nat
    BY <1>1, TimesNat
  <1> HIDE DEF idle
  <1>3. idle * (aged + 1) = idle * aged + idle
    BY <1>1, SMT
  <1>4. aged = 0 => drop = 0
    BY <1>1
  <1>5. ScheduleAt(aged) = IF aged <= 0 THEN Full ELSE IF Full - drop < 0 THEN 0 ELSE Full - drop
    BY DEF ScheduleAt, idle
  <1>6. ScheduleAt(aged + 1) =
          IF aged + 1 <= 0 THEN Full ELSE IF Full - (drop + idle) < 0 THEN 0 ELSE Full - (drop + idle)
    BY <1>3 DEF ScheduleAt, idle
  <1> HIDE DEF drop
  <1>7. /\ ScheduleAt(aged) \in 0 .. Full
        /\ aged <= 0 => ScheduleAt(aged) = Full
        /\ aged >= 0 => ScheduleAt(aged + 1) =
             IF ScheduleAt(aged) - idle < 0 THEN 0 ELSE ScheduleAt(aged) - idle
        /\ ScheduleAt(aged + 1) <= ScheduleAt(aged)
    BY <1>1, <1>2, <1>4, <1>5, <1>6
  <1> QED BY <1>7 DEF idle

-----------------------------------------------------------------------------
(* The inductive invariant.                                                *)

LEMMA InitInv == Init => TrustInv
  <1> SUFFICES ASSUME Init PROVE TrustInv
    OBVIOUS
  <1>1. made = InitMem /\ queries = -1 /\ epoch = 0 /\ archived = {}
    BY DEF Init
  <1>2. TypeOK
    <2>1. ContRate * 0 = 0
      BY ScenarioAssumption
    <2>2. weight \in [Mem -> [Keyword -> 0 .. Full]]
      BY FullAboveThreshold DEF Init
    <2>3. kws \in [Mem -> SUBSET Keyword]
      BY DEF Init, KwSets
    <2> QED BY <1>1, <2>1, <2>2, <2>3, ScenarioAssumption DEF Init, TypeOK
  <1>3. Made \subseteq Mem
    BY <1>2, MadeInMem
  <1>4. DenialsAreServes
    BY DEF Init, DenialsAreServes
  <1>5. ASSUME NEW m \in Mem PROVE kws[m] # {}
    <2>1. kws[m] \in KwSets
      BY DEF Init
    <2>2. Cardinality({}) = 0
      BY FS_EmptySet
    <2> QED BY <2>1, <2>2, ScenarioAssumption DEF KwSets
  <1>6. CountsConsistent
    BY <1>5 DEF Init, CountsConsistent
  <1>8. ASSUME NEW m \in Mem PROVE Schedule(m) = Full
    <2>1. epoch - created[m] - Grace \in Int /\ epoch - created[m] - Grace <= 0
      BY ModelAssumption DEF Init
    <2> QED BY <2>1, ScheduleFalls DEF Schedule
  <1>9. ASSUME NEW m \in Mem, NEW k \in Keyword PROVE weight[m][k] = Full
    BY DEF Init
  <1>10. ASSUME NEW m \in Mem PROVE kws[m] \subseteq Keyword
    BY <1>2 DEF TypeOK
  <1>7. GraceHolds
    BY <1>1, <1>3, <1>9, <1>10 DEF GraceHolds
  <1>11. ArchivalSchedule
    BY <1>1, <1>3, <1>8, <1>9, <1>10, FullAboveThreshold DEF ArchivalSchedule
  <1>12. NeglectedOnSchedule
    BY <1>3, <1>8, <1>9, <1>10, FullAboveThreshold DEF NeglectedOnSchedule, Active
  <1> QED BY <1>2, <1>4, <1>6, <1>7, <1>11, <1>12 DEF TrustInv

(* Contributions are made: they start unserved, with all their weight.     *)
LEMMA ContributeInv == TrustInv /\ Contribute => TrustInv'
  <1> SUFFICES ASSUME TrustInv, Contribute PROVE TrustInv'
    OBVIOUS
  <1> USE DEF TrustInv
  <1>1. made \in Nat /\ made' = made + ContRate /\ ContRate \in Nat
    BY MadeInMem, ScenarioAssumption DEF Contribute
  <1>2. TypeOK'
    <2>1. epoch \in Nat /\ epoch < Epochs /\ queries = -1 /\ queries' = 0 /\ epoch' = epoch
      BY DEF TypeOK, Contribute
    <2>2. made' = InitMem + ContRate * (epoch + 1)
      <3>1. made = InitMem + ContRate * epoch
        BY <2>1 DEF TypeOK
      <3>2. ContRate * (epoch + 1) = ContRate * epoch + ContRate /\ ContRate * epoch \in Nat
        BY <1>1, <2>1, SMT
      <3> HIDE DEF TypeOK
      <3>3. ASSUME NEW x \in Nat PROVE (InitMem + x) + ContRate = InitMem + (x + ContRate)
        BY <1>1, ScenarioAssumption
      <3> QED BY <1>1, <3>1, <3>2, <3>3
    <2>3. created' \in [Mem -> Nat]
      BY <2>1 DEF TypeOK, Contribute
    <2>4. archived' \in SUBSET (1 .. made')
      BY <1>1 DEF TypeOK, Contribute, Made
    <2> QED BY <2>1, <2>2, <2>3, <2>4, ScenarioAssumption
            DEF TypeOK, Contribute, Made, countVars
  <1>3. Made \subseteq Made' /\ Made' \subseteq Mem
    <2>1. Made' \subseteq Mem
      <3>1. epoch \in Nat /\ epoch + 1 <= Epochs /\ made' = InitMem + ContRate * (epoch + 1)
        BY ScenarioAssumption, <1>2 DEF TypeOK, Contribute
      <3>2. /\ ContRate * (epoch + 1) <= ContRate * Epochs
            /\ ContRate * (epoch + 1) \in Nat /\ ContRate * Epochs \in Nat
        BY <3>1, ScenarioAssumption, TimesMonotone, TimesNat
      <3> QED BY <3>1, <3>2, ScenarioAssumption DEF Made, Mem
    <2> QED BY <1>1, <2>1 DEF Made
  <1>4. /\ epoch' = epoch /\ kws' = kws /\ weight' = weight /\ archived' = archived
        /\ serves' = serves /\ denials' = denials
        /\ served' = served /\ denied' = denied /\ matched' = matched
    BY DEF Contribute, countVars
  <1>5. /\ \A m \in Made : created'[m] = created[m]
        /\ \A m \in Mem \ Made : m \notin archived /\ serves[m] = 0 /\ denials[m] = 0
                                 /\ weight[m] = [k \in Keyword |-> Full]
        /\ \A m \in Made' \ Made : created'[m] = epoch
    <2>1. Mem \subseteq Nat
      BY <1>1, ScenarioAssumption DEF Mem
    <2>2. created' = [m \in Mem |-> IF m > made THEN epoch ELSE created[m]]
      BY DEF Contribute
    <2>3. \A m \in Mem : m \in Made <=> m <= made /\ m >= 1
      BY <1>1, <2>1 DEF Made
    <2>4. \A m \in Mem : m >= 1
      BY DEF Mem
    <2> QED BY <1>1, <1>3, <2>1, <2>2, <2>3, <2>4 DEF CountsConsistent, TypeOK
  <1>6. DenialsAreServes'
    BY <1>4 DEF DenialsAreServes
  <1>7. CountsConsistent'
    <2>1. \A m \in Mem : created'[m] <= epoch
      <3>1. created' = [m \in Mem |-> IF m > made THEN epoch ELSE created[m]]
        BY DEF Contribute
      <3> QED BY <3>1 DEF CountsConsistent, TypeOK
    <2>2. \A m \in Mem : m \notin Active' => m \notin Active
      BY <1>3, <1>4 DEF Active
    <2> QED BY <1>3, <1>4, <1>5, <2>1, <2>2 DEF CountsConsistent
  <1>8. GraceHolds'
    BY <1>3, <1>4, <1>5 DEF GraceHolds, TypeOK
  <1>9. \A m \in Made : Schedule(m)' = Schedule(m)
    BY <1>4, <1>5 DEF Schedule, ScheduleAt, Full
  <1>10. \A m \in Made' \ Made : Schedule(m)' = Full
    <2> SUFFICES ASSUME NEW m \in Made' \ Made PROVE Schedule(m)' = Full
      OBVIOUS
    <2>1. Schedule(m)' = ScheduleAt(epoch - epoch - Grace)
      BY <1>4, <1>5 DEF Schedule, ScheduleAt, Full
    <2>2. epoch - epoch - Grace \in Int /\ epoch - epoch - Grace <= 0
      BY ModelAssumption DEF TypeOK
    <2> QED BY <2>1, <2>2, ScheduleFalls
  <1>11. ASSUME NEW m \in Made' \ Made, NEW k \in kws[m] PROVE weight[m][k] = Full
    BY <1>3, <1>5, <1>11 DEF TypeOK
  <1>12. ArchivalSchedule'
    <2> SUFFICES ASSUME NEW m \in Made'
                 PROVE /\ denials[m] = 0 /\ m \notin archived =>
                            \A k \in kws[m] : weight[m][k] >= Schedule(m)'
                       /\ denials[m] = 0 /\ m \in archived => Schedule(m)' <= Threshold * Unit
                       /\ serves[m] = 0 /\ Schedule(m)' <= Threshold * Unit => m \in archived
      BY <1>4 DEF ArchivalSchedule
    <2>1. CASE m \in Made
      BY <1>9, <2>1 DEF ArchivalSchedule
    <2>2. CASE m \notin Made
      BY <1>3, <1>5, <1>10, <1>11, <2>2, FullAboveThreshold
    <2> QED BY <2>1, <2>2
  <1>13. NeglectedOnSchedule'
    <2> SUFFICES ASSUME NEW m \in Made', m \notin archived, serves[m] = 0, NEW k \in kws[m]
                 PROVE weight[m][k] <= Schedule(m)'
      BY <1>4 DEF NeglectedOnSchedule, Active
    <2>1. CASE m \in Made
      BY <1>9, <2>1 DEF NeglectedOnSchedule, Active
    <2>2. CASE m \notin Made
      BY <1>10, <1>11, <2>2, FullAboveThreshold
    <2> QED BY <2>1, <2>2
  <1> QED BY <1>2, <1>6, <1>7, <1>8, <1>12, <1>13

(* A query: weights and ages stay, only active memories are served, and    *)
(* only what is served is denied.                                          *)
LEMMA QueryInv == TrustInv /\ Query => TrustInv'
  <1> SUFFICES ASSUME TrustInv, Query PROVE TrustInv'
    OBVIOUS
  <1> USE DEF TrustInv
  <1>1. PICK Q \in SUBSET Keyword : \E D \in SUBSET Ranked(Q) :
             /\ served' = Plus(served, Ranked(Q))
             /\ serves' = Plus(serves, Ranked(Q))
             /\ denied' = Plus(denied, D)
             /\ denials' = Plus(denials, D)
             /\ matched' = [m \in Mem |-> IF m \in Ranked(Q) THEN matched[m] \cup (kws[m] \cap Q)
                                                             ELSE matched[m]]
    BY DEF Query, kSubset
  <1> DEFINE R == Ranked(Q)
  <1>2. R \subseteq Active
    BY DEF Ranked, Candidates
  <1> HIDE DEF R
  <1>3. PICK D \in SUBSET R :
             /\ served' = Plus(served, R)
             /\ serves' = Plus(serves, R)
             /\ denied' = Plus(denied, D)
             /\ denials' = Plus(denials, D)
             /\ matched' = [m \in Mem |-> IF m \in R THEN matched[m] \cup (kws[m] \cap Q)
                                                     ELSE matched[m]]
    BY <1>1 DEF R
  <1>4. /\ epoch' = epoch /\ made' = made /\ created' = created /\ kws' = kws
        /\ weight' = weight /\ archived' = archived
        /\ queries' = queries + 1 /\ queries >= 0 /\ queries < QPerEpoch
    BY DEF Query, memVars
  <1>5. \A m \in Mem :
               /\ m \in R => served'[m] = served[m] + 1 /\ serves'[m] = serves[m] + 1
               /\ m \notin R => /\ served'[m] = served[m] /\ serves'[m] = serves[m]
                                /\ matched'[m] = matched[m] /\ m \notin D
               /\ m \in D => denied'[m] = denied[m] + 1 /\ denials'[m] = denials[m] + 1
               /\ m \notin D => denied'[m] = denied[m] /\ denials'[m] = denials[m]
               /\ served[m] \in Nat /\ serves[m] \in Nat
               /\ denied[m] \in Nat /\ denials[m] \in Nat
    BY <1>3 DEF Plus, TypeOK
  <1>6. TypeOK'
    <2>1. /\ served' \in [Mem -> Nat] /\ serves' \in [Mem -> Nat]
          /\ denied' \in [Mem -> Nat] /\ denials' \in [Mem -> Nat]
      BY <1>3 DEF Plus, TypeOK
    <2>2. matched' \in [Mem -> SUBSET Keyword]
      BY <1>3 DEF TypeOK
    <2>3. queries' \in -1 .. QPerEpoch /\ (queries' >= 0 => epoch < Epochs)
      BY <1>4, ScenarioAssumption DEF TypeOK
    <2>4. made' = InitMem + ContRate * (IF queries' = -1 THEN epoch ELSE epoch + 1)
      BY <1>4, ScenarioAssumption DEF TypeOK
    <2> QED BY <1>4, <2>1, <2>2, <2>3, <2>4 DEF TypeOK, Made
  <1>7. DenialsAreServes'
    BY <1>5 DEF DenialsAreServes
  <1>8. Made' = Made /\ Active' = Active /\ Made \subseteq Mem /\ Active \subseteq Made
    BY <1>4, MadeInMem DEF Made, Active
  <1>9. CountsConsistent'
    <2> SUFFICES ASSUME NEW m \in Mem
                 PROVE /\ denied'[m] <= denials'[m]
                       /\ matched'[m] # {} => served'[m] > 0
                       /\ m \notin Active => served'[m] = 0 /\ denied'[m] = 0
                       /\ m \notin Made => serves'[m] = 0 /\ denials'[m] = 0
      BY <1>4, <1>8 DEF CountsConsistent
    <2>1. /\ denied[m] <= denials[m]
          /\ matched[m] # {} => served[m] > 0
          /\ m \notin Active => served[m] = 0 /\ denied[m] = 0
          /\ m \notin Made => serves[m] = 0 /\ denials[m] = 0
      BY DEF CountsConsistent
    <2>2. m \in D => m \in R
      OBVIOUS
    <2>3. m \in R => m \in Active /\ m \in Made
      BY <1>2, <1>8
    <2> QED BY <1>5, <2>1, <2>2, <2>3
  <1>10. GraceHolds'
    BY <1>4, <1>8 DEF GraceHolds
  <1>11. \A m \in Mem : Schedule(m)' = Schedule(m)
    BY <1>4 DEF Schedule, ScheduleAt, Full
  <1>12. \A m \in Mem : /\ denials'[m] = 0 => denials[m] = 0
                        /\ serves'[m] = 0 => serves[m] = 0
    BY <1>5
  <1>13. ArchivalSchedule'
    BY <1>4, <1>8, <1>11, <1>12 DEF ArchivalSchedule
  <1>14. NeglectedOnSchedule'
    BY <1>4, <1>8, <1>11, <1>12 DEF NeglectedOnSchedule
  <1> QED BY <1>6, <1>7, <1>9, <1>10, <1>13, <1>14

(* The end of an epoch, for one memory.  Its weights are clamped sums, so  *)
(* they stay in range, ...                                                 *)
LEMMA DecayTyped ==
  ASSUME TrustInv, NEW m \in Mem
  PROVE  /\ Decayed(m) \in [Keyword -> 0 .. Full]
         /\ \A k \in Keyword : weight[m][k] \in 0 .. Full
  <1>1. \A k \in Keyword : weight[m][k] \in 0 .. Full
    BY DEF TrustInv, TypeOK
  <1>2. \A k \in Keyword : Change(m, k) \in Int
    BY ChangeBounded DEF TrustInv
  <1>3. \A k \in Keyword : Clamp(weight[m][k] + Change(m, k)) \in 0 .. Full
    BY <1>1, <1>2, ClampTyped, FullAboveThreshold
  <1> QED BY <1>1, <1>3 DEF Decayed

(* ... and follow the schedule: a memory that was never denied does not    *)
(* fall below it, one that was never served not rise above it.             *)
LEMMA DecayOnSchedule ==
  ASSUME TrustInv, NEW m \in Active, NEW k \in kws[m],
         NEW after, after = ScheduleAt(epoch + 1 - created[m] - Grace)
  PROVE  /\ denials[m] = 0 => Decayed(m)[k] >= after
         /\ serves[m] = 0 => Decayed(m)[k] <= after
         /\ epoch + 1 - created[m] <= Grace => Decayed(m)[k] = Full
  <1> DEFINE aged == epoch - created[m] - Grace
             now == ScheduleAt(aged)
             idle == IdleD * Unit
             w == weight[m][k]
             c == Change(m, k)
  <1>1. m \in Mem /\ m \in Made /\ m \notin archived /\ k \in Keyword
    BY MadeInMem DEF TrustInv, Active, TypeOK
  <1>2. /\ epoch \in Nat /\ created[m] \in Nat /\ Grace \in Nat /\ aged \in Int
        /\ epoch + 1 - created[m] - Grace = aged + 1
    BY <1>1, ModelAssumption DEF TrustInv, TypeOK
  <1>3. /\ denials[m] = 0 => w >= now
        /\ serves[m] = 0 => w <= now
        /\ aged <= 0 => w = Full
    <2>1. (denials[m] = 0 => w >= now) /\ (serves[m] = 0 => w <= now)
      BY <1>1 DEF TrustInv, ArchivalSchedule, NeglectedOnSchedule, Schedule
    <2>2. aged <= 0 => epoch - created[m] <= Grace
      BY <1>2
    <2> QED BY <1>1, <2>1, <2>2 DEF TrustInv, GraceHolds
  <1>4. w \in 0 .. Full /\ Full \in Nat /\ idle \in Nat
    BY <1>1, DecayTyped, FullAboveThreshold
  <1>5. Decayed(m)[k] = IF aged < 0 THEN w ELSE Clamp(w + c)
    <2>1. InGrace(m) <=> aged < 0
      BY <1>2 DEF InGrace
    <2> QED BY <1>1, <2>1 DEF Decayed
  <1>6. /\ now \in 0 .. Full
        /\ aged <= 0 => now = Full
        /\ aged < 0 => after = Full
        /\ aged >= 0 => after = IF now - idle < 0 THEN 0 ELSE now - idle
    <2>1. after = ScheduleAt(aged + 1)
      BY <1>2
    <2>2. aged < 0 => ScheduleAt(aged + 1) = Full
      <3>1. aged + 1 \in Int /\ (aged < 0 => aged + 1 <= 0)
        BY <1>2
      <3> QED BY <3>1, ScheduleFalls
    <2> QED BY <1>2, <2>1, <2>2, ScheduleFalls
  <1>7. /\ c \in Int
        /\ denials[m] = 0 => c >= 0 - idle
        /\ serves[m] = 0 => c = 0 - idle
    BY <1>1, ChangeBounded DEF TrustInv
  <1>8. epoch + 1 - created[m] <= Grace => aged < 0
    BY <1>2
  <1>9. aged \in Int
    BY <1>2
  <1> HIDE DEF aged, now, idle, w, c
  <1>10. CASE aged < 0
    BY <1>3, <1>4, <1>5, <1>6, <1>9, <1>10
  <1>11. CASE ~(aged < 0)
    <2>1. Decayed(m)[k] = IF w + c > Full THEN Full ELSE IF w + c < 0 THEN 0 ELSE w + c
      BY <1>5, <1>11 DEF Clamp
    <2>2. aged >= 0
      BY <1>9, <1>11
    <2>3. denials[m] = 0 => Decayed(m)[k] >= after
      BY <1>3, <1>4, <1>6, <1>7, <2>1, <2>2
    <2>4. serves[m] = 0 => Decayed(m)[k] <= after
      BY <1>3, <1>4, <1>6, <1>7, <2>1, <2>2
    <2> QED BY <1>8, <1>11, <2>3, <2>4
  <1> QED BY <1>10, <1>11

(* The end of an epoch.                                                    *)
LEMMA EpochEndsInv == TrustInv /\ EpochEnds => TrustInv'
  <1> SUFFICES ASSUME TrustInv, EpochEnds PROVE TrustInv'
    OBVIOUS
  <1> DEFINE Thr == Threshold * Unit
             after(m) == ScheduleAt(epoch + 1 - created[m] - Grace)
  <1>1. /\ epoch' = epoch + 1 /\ queries' = -1 /\ queries = QPerEpoch
        /\ made' = made /\ created' = created /\ kws' = kws
        /\ serves' = serves /\ denials' = denials
        /\ served' = [m \in Mem |-> 0] /\ denied' = [m \in Mem |-> 0]
        /\ matched' = [m \in Mem |-> {}]
        /\ weight' = [m \in Mem |-> IF m \in Active THEN Decayed(m) ELSE weight[m]]
        /\ archived' = archived \cup {m \in Active : \A k \in kws[m] : weight'[m][k] <= Thr}
    BY DEF EpochEnds, memVars
  <1>2. Made' = Made /\ Made \subseteq Mem /\ Active \subseteq Made /\ Active' \subseteq Active
        /\ archived \subseteq Made
    BY <1>1, MadeInMem DEF Made, Active, TrustInv, TypeOK
  <1>3. \A m \in Mem : /\ m \in Active => weight'[m] = Decayed(m)
                       /\ m \notin Active => weight'[m] = weight[m]
    BY <1>1
  <1>0. epoch' = epoch + 1 /\ queries' = -1 /\ made' = made /\ created' = created /\ kws' = kws
    BY <1>1
  <1>4. \A m \in Mem : Schedule(m)' = after(m)
    <2> SUFFICES ASSUME NEW m \in Mem PROVE Schedule(m)' = after(m)
      OBVIOUS
    <2>1. epoch' - created'[m] - Grace = epoch + 1 - created[m] - Grace
      <3>1. created' = created /\ epoch' = epoch + 1 /\ epoch \in Int /\ created[m] \in Int
        BY <1>0 DEF TrustInv, TypeOK
      <3> QED BY <3>1, ModelAssumption
    <2>2. Schedule(m)' = ScheduleAt(epoch' - created'[m] - Grace)
      BY DEF Schedule, ScheduleAt, Full
    <2> QED BY <2>1, <2>2
  <1>5. \A m \in Mem : /\ after(m) \in 0 .. Full /\ Schedule(m) \in 0 .. Full
                       /\ after(m) <= Schedule(m)
    <2> SUFFICES ASSUME NEW m \in Mem
                 PROVE  /\ after(m) \in 0 .. Full /\ Schedule(m) \in 0 .. Full
                        /\ after(m) <= Schedule(m)
      OBVIOUS
    <2> DEFINE aged == epoch - created[m] - Grace
    <2>1. aged \in Int /\ aged + 1 \in Int /\ epoch + 1 - created[m] - Grace = aged + 1
      BY ModelAssumption DEF TrustInv, TypeOK
    <2>2. after(m) = ScheduleAt(aged + 1) /\ Schedule(m) = ScheduleAt(aged)
      BY <2>1 DEF Schedule
    <2> HIDE DEF after, aged
    <2>3. /\ ScheduleAt(aged) \in 0 .. Full /\ ScheduleAt(aged + 1) \in 0 .. Full
          /\ ScheduleAt(aged + 1) <= ScheduleAt(aged)
      BY <2>1, ScheduleFalls
    <2> QED BY <2>2, <2>3
  <1>6. \A m \in Active : \A k \in kws[m] :
           /\ denials[m] = 0 => Decayed(m)[k] >= after(m)
           /\ serves[m] = 0 => Decayed(m)[k] <= after(m)
           /\ epoch + 1 - created[m] <= Grace => Decayed(m)[k] = Full
    BY DecayOnSchedule
  <1>7. \A m \in Mem : /\ Decayed(m) \in [Keyword -> 0 .. Full]
                       /\ weight[m] \in [Keyword -> 0 .. Full]
                       /\ kws[m] \subseteq Keyword /\ kws[m] # {}
                       /\ epoch \in Nat /\ created[m] \in Nat /\ created[m] <= epoch
    BY DecayTyped DEF TrustInv, TypeOK, CountsConsistent
  <1>8. Full \in Nat /\ Thr \in Nat /\ Thr < Full
    BY FullAboveThreshold
  <1> HIDE DEF Thr, after
  <1>9. TypeOK'
    <2>1. weight' \in [Mem -> [Keyword -> 0 .. Full]]
      BY <1>1, <1>7
    <2>2. archived' \in SUBSET Made'
      BY <1>1, <1>2
    <2>3. epoch + 1 \in 0 .. Epochs /\ queries' \in -1 .. QPerEpoch
      BY <1>1, ScenarioAssumption DEF TrustInv, TypeOK
    <2>4. made = InitMem + ContRate * (epoch + 1)
      <3>1. queries # -1
        BY <1>1, ScenarioAssumption
      <3> QED BY <3>1 DEF TrustInv, TypeOK
    <2>5. made' = InitMem + ContRate * (IF queries' = -1 THEN epoch' ELSE epoch' + 1)
      <3>1. (IF queries' = -1 THEN epoch' ELSE epoch' + 1) = epoch + 1
        BY <1>0
      <3> QED BY <1>0, <2>4, <3>1
    <2>6. epoch' \in 0 .. Epochs /\ queries' \in -1 .. QPerEpoch
          /\ (queries' >= 0 => epoch' < Epochs)
      BY <1>0, <2>3
    <2>7. /\ created' \in [Mem -> Nat] /\ kws' \in [Mem -> SUBSET Keyword]
          /\ serves' \in [Mem -> Nat] /\ denials' \in [Mem -> Nat]
          /\ served' \in [Mem -> Nat] /\ denied' \in [Mem -> Nat]
          /\ matched' \in [Mem -> SUBSET Keyword]
      BY <1>1 DEF TrustInv, TypeOK
    <2> QED BY <2>1, <2>2, <2>5, <2>6, <2>7 DEF TypeOK
  <1>10. DenialsAreServes'
    <2>1. \A m \in Mem : /\ served'[m] = 0 /\ denied'[m] = 0
                         /\ serves'[m] = serves[m] /\ denials'[m] = denials[m]
                         /\ serves[m] \in Nat /\ denials[m] <= serves[m]
      BY <1>1 DEF TrustInv, TypeOK, DenialsAreServes
    <2> QED BY <2>1 DEF DenialsAreServes
  <1>11. CountsConsistent'
    <2> SUFFICES ASSUME NEW m \in Mem
                 PROVE /\ created[m] <= epoch + 1
                       /\ kws[m] # {}
                       /\ denied'[m] <= denials[m]
                       /\ matched'[m] # {} => served'[m] > 0
                       /\ served'[m] = 0 /\ denied'[m] = 0
                       /\ m \notin Made => serves[m] = 0 /\ denials[m] = 0
                                           /\ weight'[m] = [k \in Keyword |-> Full]
      BY <1>1, <1>2 DEF CountsConsistent
    <2>1. denied'[m] = 0 /\ served'[m] = 0 /\ matched'[m] = {} /\ denials[m] \in Nat
      BY <1>1 DEF TrustInv, TypeOK
    <2>2. m \notin Made => serves[m] = 0 /\ denials[m] = 0
                           /\ weight'[m] = [k \in Keyword |-> Full]
      BY <1>2, <1>3 DEF TrustInv, CountsConsistent
    <2> QED BY <1>7, <2>1, <2>2
  <1>12. GraceHolds'
    <2> SUFFICES ASSUME NEW m \in Made, epoch + 1 - created[m] <= Grace
                 PROVE  m \notin archived' /\ \A k \in kws[m] : weight'[m][k] = Full
      BY <1>0, <1>2, <1>7 DEF GraceHolds, Full
    <2>1. epoch - created[m] <= Grace
      BY <1>2, <1>7, ModelAssumption
    <2>2. m \in Active
      BY <2>1 DEF TrustInv, GraceHolds, Active
    <2>3. \A k \in kws[m] : weight'[m][k] = Full
      BY <1>2, <1>3, <1>6, <2>2
    <2>4. m \notin archived'
      <3>1. PICK k \in kws[m] : TRUE
        BY <1>2, <1>7
      <3>2. ~(weight'[m][k] <= Thr)
        BY <1>8, <2>3, <3>1
      <3> QED BY <1>1, <2>2, <3>2 DEF Active
    <2> QED BY <2>3, <2>4
  <1>13. ArchivalSchedule'
    <2> SUFFICES ASSUME NEW m \in Made
                 PROVE /\ denials[m] = 0 /\ m \notin archived' =>
                            \A k \in kws[m] : weight'[m][k] >= after(m)
                       /\ denials[m] = 0 /\ m \in archived' => after(m) <= Thr
                       /\ serves[m] = 0 /\ after(m) <= Thr => m \in archived'
      <3>1. denials' = denials /\ serves' = serves
        BY <1>1
      <3> QED BY <1>0, <1>2, <1>4, <3>1 DEF ArchivalSchedule, Thr
    <2>1. m \in Mem
      BY <1>2
    <2>2. ASSUME denials[m] = 0, m \notin archived', NEW k \in kws[m]
          PROVE  weight'[m][k] >= after(m)
      <3>1. m \in Active
        BY <1>1, <2>2 DEF Active
      <3> QED BY <1>3, <1>6, <2>1, <2>2, <3>1
    <2>3. ASSUME denials[m] = 0, m \in archived' PROVE after(m) <= Thr
      <3>1. CASE m \in archived
        <4>1. Schedule(m) <= Thr
          BY <2>3, <3>1 DEF TrustInv, ArchivalSchedule, Thr
        <4> QED BY <1>5, <1>8, <2>1, <4>1
      <3>2. CASE m \notin archived
        <4>1. m \in Active /\ \A k \in kws[m] : weight'[m][k] <= Thr
          BY <1>1, <2>3, <3>2
        <4>2. PICK k \in kws[m] : TRUE
          BY <1>7, <2>1
        <4>3. weight'[m][k] >= after(m) /\ weight'[m][k] \in 0 .. Full
          BY <1>3, <1>6, <1>7, <2>1, <2>3, <4>1, <4>2
        <4> QED BY <1>5, <1>8, <2>1, <4>1, <4>2, <4>3
      <3> QED BY <3>1, <3>2
    <2>4. ASSUME serves[m] = 0, after(m) <= Thr PROVE m \in archived'
      <3>1. CASE m \in archived
        BY <1>1, <3>1
      <3>2. CASE m \notin archived
        <4>1. m \in Active
          BY <3>2 DEF Active
        <4>2. ASSUME NEW k \in kws[m] PROVE weight'[m][k] <= Thr
          <5>1. weight'[m][k] <= after(m) /\ weight'[m][k] \in 0 .. Full
            BY <1>3, <1>6, <1>7, <2>1, <2>4, <4>1
          <5> QED BY <1>5, <1>8, <2>1, <2>4, <5>1
        <4> QED BY <1>1, <4>1, <4>2
      <3> QED BY <3>1, <3>2
    <2> QED BY <2>2, <2>3, <2>4
  <1>14. NeglectedOnSchedule'
    <2> SUFFICES ASSUME NEW m \in Active, serves[m] = 0, NEW k \in kws[m]
                 PROVE  weight'[m][k] <= after(m)
      BY <1>1, <1>2, <1>4 DEF NeglectedOnSchedule
    <2> QED BY <1>2, <1>3, <1>6
  <1> QED BY <1>9, <1>10, <1>11, <1>12, <1>13, <1>14 DEF TrustInv

(* Steps that change nothing.                                              *)
LEMMA StutterInv == TrustInv /\ UNCHANGED vars => TrustInv'
  BY DEF TrustInv, vars, memVars, countVars, TypeOK, DenialsAreServes, CountsConsistent,
         GraceHolds, ArchivalSchedule, NeglectedOnSchedule, Made, Active, Schedule, ScheduleAt

(* The invariant of the simulation, on which the theorems below rest.      *)
THEOREM TrustInvAlways == Spec => []TrustInv
  <1>1. TrustInv /\ [Next]_vars => TrustInv'
    BY ContributeInv, QueryInv, EpochEndsInv, StutterInv DEF Next
  <1> QED BY <1>1, InitInv, PTL DEF Spec

-----------------------------------------------------------------------------
(* The theorems.                                                           *)

(* Every variable keeps its type: weights stay between 0 and MAX_W.        *)
THEOREM Typing == Spec => []TypeOK
  <1>1. TrustInv => TypeOK
    BY DEF TrustInv
  <1> QED BY <1>1, TrustInvAlways, PTL

(* What is denied has been served: the denial rate is at most one half.    *)
THEOREM ReputationBounded == Spec => []DenialsAreServes
  <1>1. TrustInv => DenialsAreServes
    BY DEF TrustInv
  <1> QED BY <1>1, TrustInvAlways, PTL

(* A memory's first epochs cost it nothing, whenever it was contributed.   *)
THEOREM GraceForEveryMemory == Spec => []GraceHolds
  <1>1. TrustInv => GraceHolds
    BY DEF TrustInv
  <1> QED BY <1>1, TrustInvAlways, PTL

(* Neglect archives a memory on schedule, and retrieval without a denial   *)
(* never does so sooner.                                                   *)
THEOREM ArchivedOnSchedule == Spec => []ArchivalSchedule
  <1>1. TrustInv => ArchivalSchedule
    BY DEF TrustInv
  <1> QED BY <1>1, TrustInvAlways, PTL

(* An archived memory stays archived, unserved, with the weights it had.   *)
THEOREM ArchivalIsFinal == Spec => ArchivedStays
  <1> DEFINE Stays == \A m \in archived :
               /\ m \in archived'
               /\ weight'[m] = weight[m] /\ serves'[m] = serves[m]
  <1>1. TrustInv /\ [Next]_vars => Stays
    <2> SUFFICES ASSUME TrustInv, [Next]_vars, NEW m \in archived
                 PROVE  m \in archived' /\ weight'[m] = weight[m] /\ serves'[m] = serves[m]
      OBVIOUS
    <2>1. m \in Mem /\ m \notin Active
      BY MadeInMem DEF TrustInv, TypeOK, Active
    <2>2. CASE Contribute
      BY <2>2 DEF Contribute, countVars
    <2>3. CASE Query
      <3>1. PICK Q \in SUBSET Keyword : serves' = Plus(serves, Ranked(Q))
        BY <2>3 DEF Query, kSubset
      <3>2. m \notin Ranked(Q)
        BY <2>1 DEF Ranked, Candidates
      <3>3. serves'[m] = serves[m]
        BY <2>1, <3>1, <3>2 DEF Plus
      <3> QED BY <2>3, <3>3 DEF Query
    <2>4. CASE EpochEnds
      BY <2>1, <2>4 DEF EpochEnds
    <2>5. CASE UNCHANGED vars
      BY <2>5 DEF vars, countVars
    <2> QED BY <2>2, <2>3, <2>4, <2>5 DEF Next
  <1>2. Stays => [Stays]_vars
    OBVIOUS
  <1> QED BY <1>1, TrustInvAlways, PTL DEF Spec, ArchivedStays

(* An epoch in which every serve of a memory was denied never raises any   *)
(* of its weights, whatever its reputation is.                             *)
THEOREM DenialOutweighsServe == Spec => DeniedNeverGains
  <1> DEFINE NoGain == \A m \in Mem : denied[m] = served[m] =>
               \A k \in Keyword : weight'[m][k] <= weight[m][k]
  <1>1. TrustInv /\ [Next]_vars => NoGain
    <2> SUFFICES ASSUME TrustInv, [Next]_vars,
                        NEW m \in Mem, denied[m] = served[m], NEW k \in Keyword
                 PROVE  weight'[m][k] <= weight[m][k]
      OBVIOUS
    <2>1. weight[m][k] \in 0 .. Full
      BY DecayTyped
    <2>2. CASE weight' = weight
      BY <2>1, <2>2
    <2>3. CASE EpochEnds
      <3>1. weight'[m] = IF m \in Active THEN Decayed(m) ELSE weight[m]
        BY <2>3 DEF EpochEnds
      <3>2. Change(m, k) <= 0 /\ Change(m, k) \in Int
        BY DeniedChangeNegative, ChangeBounded DEF TrustInv
      <3>3. Clamp(weight[m][k] + Change(m, k)) <= weight[m][k]
        BY <2>1, <3>2, FullAboveThreshold DEF Clamp
      <3>4. Decayed(m)[k] <= weight[m][k]
        BY <2>1, <3>3 DEF Decayed
      <3> QED BY <2>1, <3>1, <3>4
    <2> QED BY <2>2, <2>3 DEF Next, Contribute, Query, vars
  <1> QED BY <1>1, TrustInvAlways, PTL DEF Spec, DeniedNeverGains
=============================================================================
