----------------------------- MODULE RestoreProofs -----------------------------
(***************************************************************************)
(* Theorems of Restore for any jobs, PVs, selections, chunk size and       *)
(* number of tries, and for any number of faults of any kind.              *)
(***************************************************************************)
EXTENDS Restore, FiniteSetTheorems, TLAPS

USE RestoreAssumption

(* Nothing runs for a job before the handler of its POST has come to that;
   arq has a run of the job exactly while its queue says so. *)
Orderly(j) ==
  /\ request[j] = "new" => /\ status[j] = "none"
                           /\ at[<<"arq", j>>] = "idle" /\ at[<<"bg", j>>] = "idle"
                           /\ at[<<"sync", j>>] = "idle"
  /\ request[j] # "done" => queued[j] = "no" /\ tries[j] = 0 /\ at[<<"bg", j>>] = "idle"
  /\ queued[j] = "active" <=> at[<<"arq", j>>] # "idle"
  /\ at[<<"sync", j>>] # "begin"

InOrder == \A j \in Jobs : Orderly(j)

Fresh(r) == at[r] \in {"idle", "begin", "load", "finish"}
Busy(r) == Batch(r) \/ at[r] \in {"progress", "complete"}

Done(r) == ok[r] \cup bad[r]

(* Before a plan is read nothing is in hand.  Then each PV of the plan is in
   exactly one place: not yet in a chunk, in the chunk and to be written now
   or over the other protocol, or done with one of two outcomes; what the
   fallback is to write again has failed before. *)
Sorted(r) ==
  /\ Fresh(r) => rest[r] = {} /\ chunk[r] = {} /\ todo[r] = {} /\ Done(r) = {}
  /\ Busy(r) => ok[r] \cap bad[r] = {} /\ rest[r] \cap Done(r) = {}
  /\ at[r] = "progress" => rest[r] \cup Done(r) = Plan(r[2])
  /\ at[r] = "ca" =>
       /\ chunk[r] \subseteq Plan(r[2]) \ rest[r]
       /\ todo[r] \subseteq chunk[r] \cap (CA \cup Bare)
       /\ Done(r) \cap (todo[r] \cup (chunk[r] \cap PVA)) = {}
       /\ rest[r] \cup Done(r) \cup todo[r] \cup (chunk[r] \cap PVA) = Plan(r[2])
  /\ at[r] = "pva" =>
       /\ chunk[r] \subseteq Plan(r[2]) \ rest[r]
       /\ todo[r] \subseteq chunk[r] \cap PVA
       /\ Done(r) \cap todo[r] = {}
       /\ rest[r] \cup Done(r) \cup todo[r] = Plan(r[2])
  /\ at[r] = "fallback" =>
       /\ chunk[r] \subseteq Done(r)
       /\ todo[r] \subseteq chunk[r] \cap bad[r]
       /\ rest[r] \cup Done(r) = Plan(r[2])
  /\ at[r] = "complete" => Done(r) = Plan(r[2]) \/ (Done(r) = {} /\ r[2] \in deleted)

AllSorted == \A r \in Runs : Sorted(r)

RestoreInv == TypeOK /\ InOrder /\ AllSorted

(* What a run counts as restored has its value, from the put on. *)
Holds == \A r \in Runs : Busy(r) => \A pv \in ok[r] \ foreign[r] : device[pv] = r[2]

(* Somebody works on the job, or will, and it is not yet decided. *)
Underway(j) ==
  queued[j] = "waiting" \/ at[<<"arq", j>>] \notin {"idle", "finish"} \/ at[<<"bg", j>>] # "idle"

(* With mild faults no run fails and no session breaks, and arq has a try
   left: it has used no more than there were restarts. *)
Unharmed ==
  /\ ~severe => \A r \in Runs : ~broken[r] /\ at[r] # "fail"
  /\ ~severe => \A j \in Jobs : /\ queued[j] = "waiting" => tries[j] <= faults
                                /\ queued[j] = "active" => tries[j] <= faults + 1
  /\ Mild => \A j \in Jobs :
               request[j] = "done" /\ status[j] \notin {"none", "completed"} => Underway(j)

-----------------------------------------------------------------------------
Places == {"idle", "begin", "load", "progress", "ca", "pva", "fallback", "complete", "finish",
           "fail"}
PVSets == [Runs -> SUBSET Writable]

LEMMA RunsArePairs ==
  /\ \A r \in Runs : r[1] \in Runners /\ r[2] \in Jobs /\ r = <<r[1], r[2]>>
  /\ \A k \in Runners, j \in Jobs : <<k, j>> \in Runs
BY DEF Runs

LEMMA PlanTyped ==
  ASSUME TypeOK, NEW j \in Jobs
  PROVE  Plan(j) \subseteq Writable
BY DEF TypeOK, Plan, Chosen, Writable

LEMMA FaultTyped ==
  ASSUME TypeOK, NEW kind, Fault(kind)
  PROVE  faults' \in 0..MaxFaults /\ severe' \in BOOLEAN /\ (severe => severe')
         /\ faults' = faults + 1
BY DEF Fault, TypeOK

LEMMA ClearedTyped ==
  ASSUME TypeOK, NEW S, Cleared(S)
  PROVE  /\ rest' \in PVSets /\ chunk' \in PVSets /\ todo' \in PVSets
         /\ ok' \in PVSets /\ bad' \in PVSets
         /\ broken' \in [Runs -> BOOLEAN] /\ retry' \in [Runs -> BOOLEAN]
         /\ foreign' \in [Runs -> SUBSET PVs]
<1>0. /\ rest \in PVSets /\ chunk \in PVSets /\ todo \in PVSets /\ ok \in PVSets /\ bad \in PVSets
      /\ broken \in [Runs -> BOOLEAN] /\ retry \in [Runs -> BOOLEAN]
      /\ foreign \in [Runs -> SUBSET PVs]
  BY DEF TypeOK, PVSets
<1>1. rest' \in PVSets /\ chunk' \in PVSets
  BY <1>0 DEF Cleared, PVSets
<1>2. todo' \in PVSets /\ ok' \in PVSets /\ bad' \in PVSets
  BY <1>0 DEF Cleared, PVSets
<1>3. broken' \in [Runs -> BOOLEAN] /\ retry' \in [Runs -> BOOLEAN]
  BY <1>0 DEF Cleared
<1>4. foreign' \in [Runs -> SUBSET PVs]
  BY <1>0 DEF Cleared
<1> QED
  BY <1>1, <1>2, <1>3, <1>4

LEMMA WrittenTyped ==
  ASSUME TypeOK, NEW pv \in PVs, NEW w \in Jobs \cup {Operator}, Written(pv, w)
  PROVE  device' \in [PVs -> Jobs \cup {Operator}] /\ foreign' \in [Runs -> SUBSET PVs]
<1>1. device' \in [PVs -> Jobs \cup {Operator}]
  BY DEF Written, TypeOK
<1>2. foreign' \in [Runs -> SUBSET PVs]
  BY DEF Written, TypeOK
<1> QED
  BY <1>1, <1>2

(* What is reported of PVs that can be written is a report of them. *)
LEMMA ReportTyped ==
  ASSUME NEW good, NEW wrong, good \subseteq Writable, wrong \subseteq Writable
  PROVE  ResultData(good, wrong) \subseteq Reports
<1>1. IsFiniteSet(good) /\ IsFiniteSet(wrong)
  <2>1. good \subseteq PVs /\ wrong \subseteq PVs
    BY DEF Writable
  <2> QED
    BY <2>1, FS_Subset
<1>2. Cardinality(good) \in Nat /\ Cardinality(wrong) \in Nat
  BY <1>1, FS_CardinalityType
<1> QED
  BY <1>2 DEF ResultData, Named, Reports

(* What the report d says of the PVs restored and the PVs failed. *)
Accounts(d, good, wrong) ==
  /\ d.ok + d.bad = Cardinality(good \cup wrong)
  /\ d.failures \subseteq wrong
  /\ Cardinality(d.failures) = IF d.bad < Listed THEN d.bad ELSE Listed
  /\ good \cup wrong = {} => d = NoReport

(* A report of two disjoint sets accounts for all of their union, and names
   failures as far as there is room. *)
LEMMA ReportAccounts ==
  ASSUME NEW good, NEW wrong, good \cup wrong \subseteq PVs, good \cap wrong = {},
         NEW d \in ResultData(good, wrong)
  PROVE  Accounts(d, good, wrong)
<1>1. IsFiniteSet(good) /\ IsFiniteSet(wrong)
  <2>1. good \subseteq PVs /\ wrong \subseteq PVs
    OBVIOUS
  <2> QED
    BY <2>1, FS_Subset
<1>2. PICK F \in Named(wrong) : d = [ok |-> Cardinality(good), bad |-> Cardinality(wrong), failures |-> F]
  BY DEF ResultData
<1>3. /\ d.ok = Cardinality(good) /\ d.bad = Cardinality(wrong) /\ d.failures = F
      /\ F \subseteq wrong
      /\ Cardinality(F) = IF Cardinality(wrong) < Listed THEN Cardinality(wrong) ELSE Listed
  BY <1>2 DEF Named
<1>4. Cardinality(good) \in Nat /\ Cardinality(wrong) \in Nat
  BY <1>1, FS_CardinalityType
<1>5. Cardinality(good \cup wrong) = Cardinality(good) + Cardinality(wrong)
  <2>1. Cardinality(good \cap wrong) = 0
    BY FS_EmptySet
  <2>2. Cardinality(good \cup wrong)
          = Cardinality(good) + Cardinality(wrong) - Cardinality(good \cap wrong)
    BY <1>1, FS_Union
  <2> QED
    BY <1>4, <2>1, <2>2
<1>6. ASSUME good \cup wrong = {} PROVE d = NoReport
  <2>1. good = {} /\ wrong = {} /\ F = {}
    BY <1>3, <1>6
  <2>2. Cardinality(good) = 0 /\ Cardinality(wrong) = 0
    BY <2>1, FS_EmptySet
  <2> QED
    BY <1>2, <2>1, <2>2 DEF NoReport
<1> QED
  BY <1>3, <1>5, <1>6 DEF Accounts

(* Every step keeps the types. *)
LEMMA TypeStep == TypeOK /\ [Next]_vars => TypeOK'
<1> SUFFICES ASSUME TypeOK, [Next]_vars
             PROVE  TypeOK'
  OBVIOUS
<1> USE DEF table, queue, writes, session, world, trouble
<1>0. /\ rest \in PVSets /\ chunk \in PVSets /\ todo \in PVSets /\ ok \in PVSets /\ bad \in PVSets
      /\ at \in [Runs -> Places] /\ device \in [PVs -> Jobs \cup {Operator}]
      /\ foreign \in [Runs -> SUBSET PVs] /\ late \subseteq Jobs \X Writable
      /\ broken \in [Runs -> BOOLEAN] /\ retry \in [Runs -> BOOLEAN]
  BY DEF TypeOK, PVSets, Places
<1>q. /\ request \in [Jobs -> {"new", "schedule", "done"}] /\ asked \in [Jobs -> Selections \cup {All}]
      /\ queued \in [Jobs -> {"no", "waiting", "active"}] /\ tries \in [Jobs -> 0..MaxTries]
      /\ status \in [Jobs -> {"none", "pending", "running", "completed", "failed"}]
      /\ report \in [Jobs -> Reports]
      /\ deleted \subseteq Jobs /\ faults \in 0..MaxFaults /\ severe \in BOOLEAN
  BY DEF TypeOK
(* The steps change one group of the variables or another. *)
<1> DEFINE QueueOK == /\ request \in [Jobs -> {"new", "schedule", "done"}]
                      /\ asked \in [Jobs -> Selections \cup {All}]
                      /\ queued \in [Jobs -> {"no", "waiting", "active"}]
                      /\ tries \in [Jobs -> 0..MaxTries]
           TableOK == /\ status \in [Jobs -> {"none", "pending", "running", "completed", "failed"}]
                      /\ report \in [Jobs -> Reports]
           AtOK == at \in [Runs -> Places]
           WritesOK == /\ rest \in PVSets /\ chunk \in PVSets /\ todo \in PVSets
                       /\ ok \in PVSets /\ bad \in PVSets
           SessionOK == broken \in [Runs -> BOOLEAN] /\ retry \in [Runs -> BOOLEAN]
           WorldOK == /\ device \in [PVs -> Jobs \cup {Operator}] /\ late \subseteq Jobs \X Writable
                      /\ foreign \in [Runs -> SUBSET PVs]
           TroubleOK == deleted \subseteq Jobs /\ faults \in 0..MaxFaults /\ severe \in BOOLEAN
<1>t. ASSUME QueueOK', TableOK', AtOK', WritesOK', SessionOK', WorldOK', TroubleOK'
      PROVE  TypeOK'
  BY <1>t DEF TypeOK, PVSets, Places
<1>i. QueueOK /\ TableOK /\ AtOK /\ WritesOK /\ SessionOK /\ WorldOK /\ TroubleOK
  BY <1>0, <1>q
<1>f. ASSUME NEW kind, Fault(kind), UNCHANGED deleted PROVE TroubleOK'
  BY <1>q, <1>f, FaultTyped
<1>1. ASSUME NEW j \in Jobs, CreateJob(j) PROVE TypeOK'
  <2>1. QueueOK'
    <3>1. PICK s \in Selections \cup {All} : asked' = [asked EXCEPT ![j] = s]
      BY <1>1 DEF CreateJob
    <3>2. asked' \in [Jobs -> Selections \cup {All}]
      BY <1>q, <3>1
    <3>3. UNCHANGED <<queued, tries>> /\ \E p \in {"schedule", "done"} : request' = [request EXCEPT ![j] = p]
      BY <1>1 DEF CreateJob
    <3> QED
      BY <1>q, <3>2, <3>3
  <2>2. TableOK'
    BY <1>q, <1>1 DEF CreateJob
  <2>3. AtOK'
    BY <1>0, <1>1 DEF CreateJob, Goto, Places
  <2>4. UNCHANGED <<rest, chunk, todo, ok, bad, broken, retry, device, late, foreign, deleted, faults, severe>>
    BY <1>1 DEF CreateJob
  <2> QED
    BY <1>i, <1>t, <2>1, <2>2, <2>3, <2>4
<1>2. ASSUME NEW j \in Jobs, Schedule(j) PROVE TypeOK'
  <2>1. QueueOK'
    BY <1>q, <1>2 DEF Schedule
  <2>2. AtOK'
    BY <1>0, <1>2 DEF Schedule, Goto, Places
  <2>3. TroubleOK'
    BY <1>q, <1>f, <1>2 DEF Schedule
  <2>4. UNCHANGED <<table, writes, session, world>>
    BY <1>2 DEF Schedule
  <2> QED
    BY <1>i, <1>t, <2>1, <2>2, <2>3, <2>4
<1>3. ASSUME NEW j \in Jobs, PickUp(j) PROVE TypeOK'
  <2>1. QueueOK'
    <3>1. queued' \in [Jobs -> {"no", "waiting", "active"}] /\ UNCHANGED <<request, asked>>
      BY <1>q, <1>3 DEF PickUp
    <3>2. tries' \in [Jobs -> 0..MaxTries]
      BY <1>q, <1>3 DEF PickUp
    <3> QED
      BY <1>q, <3>1, <3>2
  <2>2. AtOK'
    BY <1>0, <1>3 DEF PickUp, Goto, Places
  <2>3. UNCHANGED <<table, writes, session, world, deleted, trouble>>
    BY <1>3 DEF PickUp
  <2> QED
    BY <1>i, <1>t, <2>1, <2>2, <2>3
<1>4. ASSUME NEW r \in Runs, Begin(r) PROVE TypeOK'
  <2>1. TableOK' /\ AtOK'
    BY <1>0, <1>q, <1>4 DEF Begin, Goto, Places
  <2>2. UNCHANGED <<queue, writes, session, world, deleted, trouble>>
    BY <1>4 DEF Begin
  <2> QED
    BY <1>i, <1>t, <2>1, <2>2
<1>5. ASSUME NEW r \in Runs, Load(r) PROVE TypeOK'
  <2>1. rest' \in PVSets
    <3>1. \E P \in SUBSET Writable : rest' = [rest EXCEPT ![r] = P]
      BY <1>5, PlanTyped, RunsArePairs DEF Load
    <3> QED
      BY <1>0, <3>1 DEF PVSets
  <2>2. foreign' \in [Runs -> SUBSET PVs] /\ AtOK'
    BY <1>0, <1>5 DEF Load, Goto, Places
  <2>3. UNCHANGED <<table, queue, chunk, todo, ok, bad, session, device, late, deleted, trouble>>
    BY <1>5 DEF Load
  <2> QED
    BY <1>i, <1>t, <2>1, <2>2, <2>3
<1>6. ASSUME NEW r \in Runs, NextChunk(r) PROVE TypeOK'
  <2>1. PICK C \in SUBSET rest[r] :
          /\ chunk' = [chunk EXCEPT ![r] = C] /\ rest' = [rest EXCEPT ![r] = @ \ C]
          /\ todo' = [todo EXCEPT ![r] = C \cap (CA \cup Bare)]
          /\ Goto(r, IF C = {} THEN "complete" ELSE "ca")
    BY <1>6 DEF NextChunk
  <2>2. C \subseteq Writable
    BY <1>0 DEF PVSets
  <2>3. chunk' \in PVSets /\ rest' \in PVSets /\ todo' \in PVSets
    BY <1>0, <2>1, <2>2 DEF PVSets
  <2>4. AtOK'
    BY <1>0, <2>1 DEF Goto, Places
  <2>5. UNCHANGED <<table, queue, ok, bad, session, world, deleted, trouble>>
    BY <1>6 DEF NextChunk
  <2> QED
    BY <1>i, <1>t, <2>3, <2>4, <2>5
<1>7. ASSUME NEW r \in Runs, NEW pv \in PVs, Put(r, pv) PROVE TypeOK'
  <2>0. pv \in Writable /\ r[2] \in Jobs
    BY <1>0, <1>7, RunsArePairs DEF Put, PVSets
  <2>1. UNCHANGED <<table, queue, at, rest, chunk, session, deleted>>
    BY <1>7 DEF Put
  <2>2. todo' \in PVSets
    BY <1>0, <1>7 DEF Put, PVSets
  <2>3. ok' \in PVSets /\ bad' \in PVSets
    BY <1>0, <1>7, <2>0 DEF Put, PVSets
  <2>4. device' \in [PVs -> Jobs \cup {Operator}] /\ foreign' \in [Runs -> SUBSET PVs]
    BY <1>0, <1>7, <2>0, WrittenTyped DEF Put
  <2>5. late' \subseteq Jobs \X Writable
    BY <1>0, <1>7, <2>0 DEF Put
  <2>6. TroubleOK'
    BY <1>q, <1>f, <1>7 DEF Put
  <2> QED
    BY <1>i, <1>t, <2>1, <2>2, <2>3, <2>4, <2>5, <2>6
<1>8. ASSUME NEW r \in Runs, BatchRaises(r) PROVE TypeOK'
  <2>0. InBatch(r) \subseteq Writable
    BY <1>0, <1>8 DEF BatchRaises, Batch, InBatch, PVSets
  <2>1. UNCHANGED <<table, queue, at, rest, chunk, session, device, foreign, deleted>>
    BY <1>8 DEF BatchRaises
  <2>2. todo' \in PVSets /\ ok' \in PVSets /\ bad' \in PVSets
    BY <1>0, <1>8, <2>0 DEF BatchRaises, PVSets
  <2>3. late' \subseteq Jobs \X Writable
    BY <1>0, <1>8, RunsArePairs DEF BatchRaises, PVSets
  <2>4. TroubleOK'
    BY <1>f, <1>8 DEF BatchRaises
  <2> QED
    BY <1>i, <1>t, <2>1, <2>2, <2>3, <2>4
<1>9. ASSUME NEW r \in Runs, EndBatch(r) PROVE TypeOK'
  <2>1. PICK pva \in SUBSET Writable, fallback \in SUBSET Writable : Then(r, pva, fallback)
    <3>1. chunk[r] \cap PVA \in SUBSET Writable
          /\ (IF Fallback THEN bad[r] \cap chunk[r] \cap Bare ELSE {}) \in SUBSET Writable
      BY <1>0 DEF PVSets
    <3> QED
      BY <1>9, <3>1 DEF EndBatch
  <2>2. UNCHANGED <<table, queue, rest, ok, bad, session, world, deleted, trouble>>
    BY <2>1 DEF Then
  <2>3. todo' \in PVSets /\ chunk' \in PVSets
    BY <1>0, <2>1 DEF Then, PVSets
  <2>4. AtOK'
    BY <1>0, <2>1 DEF Then, Goto, Places
  <2> QED
    BY <1>i, <1>t, <2>2, <2>3, <2>4
<1>10. ASSUME NEW r \in Runs, Complete(r) PROVE TypeOK'
  <2>1. TableOK'
    <3>1. ok[r] \subseteq Writable /\ bad[r] \subseteq Writable
      BY <1>0 DEF PVSets
    <3>2. ResultData(ok[r], bad[r]) \subseteq Reports
      BY <3>1, ReportTyped
    <3> QED
      BY SMTT(30), <1>q, <1>10, <3>2 DEF Complete
  <2>2. AtOK'
    BY <1>0, <1>10 DEF Complete, Goto, Places
  <2>3. WritesOK' /\ SessionOK' /\ foreign' \in [Runs -> SUBSET PVs]
    BY <1>10, ClearedTyped DEF Complete
  <2>4. UNCHANGED <<queue, device, late, deleted, trouble>>
    BY <1>10 DEF Complete
  <2> QED
    BY <1>i, <1>t, <2>1, <2>2, <2>3, <2>4
<1>11. ASSUME NEW j \in Jobs, Finish(j) PROVE TypeOK'
  <2>1. QueueOK' /\ AtOK'
    BY <1>0, <1>q, <1>11 DEF Finish, Goto, Places
  <2>2. UNCHANGED <<table, writes, session, world, deleted, trouble>>
    BY <1>11 DEF Finish
  <2> QED
    BY <1>i, <1>t, <2>1, <2>2
<1>12. ASSUME NEW r \in Runs, DatabaseError(r) PROVE TypeOK'
  <2>1. SessionOK'
    BY <1>0, <1>12 DEF DatabaseError
  <2>2. AtOK'
    BY <1>0, <1>12 DEF DatabaseError, Goto, Places
  <2>3. TroubleOK'
    BY <1>f, <1>12 DEF DatabaseError
  <2>4. UNCHANGED <<table, queue, writes, world, deleted>>
    BY <1>12 DEF DatabaseError
  <2> QED
    BY <1>i, <1>t, <2>1, <2>2, <2>3, <2>4
<1>13. ASSUME NEW r \in Runs, CompleteRaises(r) PROVE TypeOK'
  <2>1. AtOK'
    BY <1>0, <1>13 DEF CompleteRaises, Goto, Places
  <2>2. UNCHANGED <<table, queue, writes, session, world, deleted, trouble>>
    BY <1>13 DEF CompleteRaises
  <2> QED
    BY <1>i, <1>t, <2>1, <2>2
<1>14. ASSUME NEW j \in Jobs, Failed(j), UNCHANGED <<report, deleted>> PROVE TableOK' /\ TroubleOK'
  <2>1. TableOK'
    BY <1>q, <1>14 DEF Failed
  <2>2. TroubleOK'
    BY <1>q, <1>f, <1>14 DEF Failed
  <2> QED
    BY <2>1, <2>2
<1>15. ASSUME NEW r \in Runs, FailInApi(r) PROVE TypeOK'
  <2>1. TableOK' /\ TroubleOK'
    BY <1>q, <1>14, <1>15, RunsArePairs DEF FailInApi
  <2>2. AtOK'
    BY <1>0, <1>15 DEF FailInApi, Goto, Places
  <2>3. WritesOK' /\ SessionOK' /\ foreign' \in [Runs -> SUBSET PVs]
    BY <1>15, ClearedTyped DEF FailInApi
  <2>4. UNCHANGED <<queue, device, late, deleted>>
    BY <1>15 DEF FailInApi
  <2> QED
    BY <1>i, <1>t, <2>1, <2>2, <2>3, <2>4
<1>16. ASSUME NEW j \in Jobs, FailInWorker(j) PROVE TypeOK'
  <2>1. TableOK' /\ TroubleOK'
    BY <1>q, <1>14, <1>16 DEF FailInWorker
  <2>2. AtOK'
    BY <1>0, <1>16 DEF FailInWorker, Goto, Places
  <2>3. WritesOK' /\ SessionOK' /\ foreign' \in [Runs -> SUBSET PVs]
    BY <1>16, ClearedTyped DEF FailInWorker
  <2>4. QueueOK'
    BY <1>q, <1>16 DEF FailInWorker
  <2>5. UNCHANGED <<device, late, deleted>>
    BY <1>16 DEF FailInWorker
  <2> QED
    BY <1>i, <1>t, <2>1, <2>2, <2>3, <2>4, <2>5
<1>17. ASSUME NEW S \in SUBSET Runs, Vanish(S), UNCHANGED device PROVE AtOK' /\ WritesOK' /\ SessionOK' /\ WorldOK'
  <2>1. AtOK'
    BY <1>0, <1>17 DEF Vanish, Places
  <2>2. WritesOK' /\ SessionOK' /\ foreign' \in [Runs -> SUBSET PVs]
    BY <1>17, ClearedTyped DEF Vanish
  <2>3. late' \subseteq Jobs \X Writable
    <3>1. \A r \in S : {r[2]} \X todo[r] \subseteq Jobs \X Writable
      BY <1>0, RunsArePairs DEF PVSets
    <3> QED
      BY <1>0, <1>17, <3>1 DEF Vanish
  <2> QED
    BY <1>0, <1>17, <2>1, <2>2, <2>3
<1>18. ASSUME NEW j \in Jobs, Timeout(j) PROVE TypeOK'
  <2>1. AtOK' /\ WritesOK' /\ SessionOK' /\ WorldOK'
    BY <1>17, <1>18, RunsArePairs DEF Timeout, Runners
  <2>2. QueueOK' /\ TroubleOK'
    BY <1>q, <1>f, <1>18 DEF Timeout
  <2>3. UNCHANGED table
    BY <1>18 DEF Timeout
  <2> QED
    BY <1>i, <1>t, <2>1, <2>2, <2>3
<1>19. CASE WorkerRestarts
  <2>1. AtOK' /\ WritesOK' /\ SessionOK' /\ WorldOK'
    BY <1>17, <1>19, RunsArePairs DEF WorkerRestarts, Runners
  <2>2. QueueOK' /\ TroubleOK'
    BY <1>q, <1>f, <1>19 DEF WorkerRestarts
  <2>3. UNCHANGED table
    BY <1>19 DEF WorkerRestarts
  <2> QED
    BY <1>i, <1>t, <2>1, <2>2, <2>3
<1>20. CASE ApiRestarts
  <2>1. AtOK' /\ WritesOK' /\ SessionOK' /\ WorldOK'
    BY <1>17, <1>20 DEF ApiRestarts, Runners, Runs
  <2>2. QueueOK' /\ TroubleOK'
    BY <1>q, <1>f, <1>20 DEF ApiRestarts
  <2>3. UNCHANGED table
    BY <1>20 DEF ApiRestarts
  <2> QED
    BY <1>i, <1>t, <2>1, <2>2, <2>3
<1>21. ASSUME NEW j \in Jobs, NEW pv \in PVs, LateWrite(j, pv) PROVE TypeOK'
  <2>1. device' \in [PVs -> Jobs \cup {Operator}] /\ foreign' \in [Runs -> SUBSET PVs]
    BY <1>21, WrittenTyped DEF LateWrite
  <2>2. UNCHANGED <<table, queue, at, writes, session, deleted, trouble>> /\ late' \subseteq late
    BY <1>21 DEF LateWrite
  <2>3. WorldOK'
    BY <1>0, <2>1, <2>2
  <2> QED
    BY <1>i, <1>t, <2>2, <2>3
<1>22. ASSUME NEW pv \in PVs, OperatorWrites(pv) PROVE TypeOK'
  <2>1. device' \in [PVs -> Jobs \cup {Operator}] /\ foreign' \in [Runs -> SUBSET PVs]
    BY <1>22, WrittenTyped DEF OperatorWrites
  <2>2. UNCHANGED <<table, queue, at, writes, session, late, deleted>>
    BY <1>22 DEF OperatorWrites
  <2>3. TroubleOK'
    BY <1>f, <1>22 DEF OperatorWrites
  <2> QED
    BY <1>i, <1>t, <2>1, <2>2, <2>3
<1>23. ASSUME NEW j \in Jobs, DeleteSnapshot(j) PROVE TypeOK'
  <2>1. UNCHANGED <<table, queue, at, writes, session, world>>
    BY <1>23 DEF DeleteSnapshot
  <2>2. TroubleOK'
    BY <1>q, <1>23, FaultTyped DEF DeleteSnapshot
  <2> QED
    BY <1>i, <1>t, <2>1, <2>2
<1>24. CASE UNCHANGED vars
  BY <1>i, <1>t, <1>24 DEF vars
<1> QED
  BY <1>1, <1>2, <1>3, <1>4, <1>5, <1>6, <1>7, <1>8, <1>9, <1>10, <1>11, <1>12, <1>13, <1>15, <1>16,
     <1>18, <1>19, <1>20, <1>21, <1>22, <1>23, <1>24, RunsArePairs
  DEF Next, Runner, Step

-----------------------------------------------------------------------------
LEMMA InOrderStep == TypeOK /\ InOrder /\ [Next]_vars => InOrder'
<1> SUFFICES ASSUME TypeOK, InOrder, [Next]_vars, NEW i \in Jobs
             PROVE  Orderly(i)'
  BY DEF InOrder
<1> USE DEF table, queue, writes, session, world, trouble
<1> DEFINE arq == <<"arq", i>>
           bg == <<"bg", i>>
           sync == <<"sync", i>>
<1>0. /\ at \in [Runs -> Places] /\ request \in [Jobs -> {"new", "schedule", "done"}]
      /\ queued \in [Jobs -> {"no", "waiting", "active"}] /\ tries \in [Jobs -> 0..MaxTries]
      /\ status \in [Jobs -> {"none", "pending", "running", "completed", "failed"}]
      /\ retry \in [Runs -> BOOLEAN]
  BY DEF TypeOK, Places
<1>p. arq \in Runs /\ bg \in Runs /\ sync \in Runs /\ arq # bg /\ arq # sync /\ bg # sync
  BY RunsArePairs DEF Runners
<1>o. Orderly(i)
  BY DEF InOrder
<1>1. ASSUME UNCHANGED <<at[arq], at[bg], at[sync], request[i], queued[i], tries[i], status[i]>>
      PROVE  Orderly(i)'
  BY <1>o, <1>1 DEF Orderly
(* Only run r goes on, and only its job is marked. *)
<1>2. ASSUME NEW r \in Runs, NEW p \in Places, at[r] # "idle", at' = [at EXCEPT ![r] = p],
             p # "begin", r[1] = "arq" => p # "idle", UNCHANGED <<request, queued, tries>>,
             \A j \in Jobs : j # r[2] => status'[j] = status[j]
      PROVE  Orderly(i)'
  <2>1. CASE r = arq
    BY <1>0, <1>2, <1>o, <1>p, <2>1 DEF Orderly
  <2>2. CASE r = bg
    BY <1>0, <1>2, <1>o, <1>p, <2>2 DEF Orderly
  <2>3. CASE r = sync
    BY <1>0, <1>2, <1>o, <1>p, <2>3 DEF Orderly
  <2>4. CASE r \notin {arq, bg, sync}
    <3>1. r[2] # i
      BY <2>4, RunsArePairs DEF Runners
    <3> QED
      BY <1>0, <1>1, <1>2, <1>p, <2>4, <3>1
  <2> QED
    BY <2>1, <2>2, <2>3, <2>4
<1>3. ASSUME NEW j \in Jobs, CreateJob(j) PROVE Orderly(i)'
  <2>0. request[j] = "new" /\ UNCHANGED <<queued, tries>>
    BY <1>3 DEF CreateJob
  <2>1. CASE /\ request' = [request EXCEPT ![j] = "schedule"] /\ UNCHANGED at
             /\ status' = [status EXCEPT ![j] = "pending"]
    <3>1. CASE j = i
      BY <1>0, <1>o, <2>0, <2>1, <3>1 DEF Orderly
    <3>2. CASE j # i
      BY <1>0, <1>1, <2>0, <2>1, <3>2
    <3> QED
      BY <3>1, <3>2
  <2>2. CASE /\ request' = [request EXCEPT ![j] = "done"] /\ Goto(<<"sync", j>>, "load")
             /\ UNCHANGED status
    <3>1. CASE j = i
      <4>1. at'[arq] = at[arq] /\ at'[bg] = at[bg] /\ at'[sync] = "load" /\ request'[i] = "done"
        BY <1>0, <1>p, <2>2, <3>1 DEF Goto
      <4> QED
        BY <1>o, <2>0, <3>1, <4>1 DEF Orderly
    <3>2. CASE j # i
      <4>1. <<"sync", j>> \notin {arq, bg, sync}
        BY <3>2
      <4> QED
        BY <1>0, <1>1, <1>p, <2>0, <2>2, <3>2, <4>1 DEF Goto
    <3> QED
      BY <3>1, <3>2
  <2> QED
    BY <1>3, <2>1, <2>2 DEF CreateJob
<1>4. ASSUME NEW j \in Jobs, Schedule(j) PROVE Orderly(i)'
  <2>0. /\ request[j] = "schedule" /\ request' = [request EXCEPT ![j] = "done"]
        /\ UNCHANGED <<tries, status>>
    BY <1>4 DEF Schedule
  <2>1. queued' = queued \/ queued' = [queued EXCEPT ![j] = "waiting"]
    BY <1>4 DEF Schedule
  <2>2. at' = at \/ at' = [at EXCEPT ![<<"bg", j>>] = "begin"]
    BY <1>4 DEF Schedule, Goto
  <2>3. CASE j = i
    <3>1. at'[arq] = at[arq] /\ at'[sync] = at[sync]
      BY <1>0, <1>p, <2>2, <2>3
    <3>2. request'[i] = "done" /\ queued'[i] \in {queued[i], "waiting"} /\ request[i] = "schedule"
      BY <1>0, <2>0, <2>1, <2>3
    <3> QED
      BY <1>o, <3>1, <3>2 DEF Orderly
  <2>4. CASE j # i
    <3>1. <<"bg", j>> \notin {arq, bg, sync}
      BY <2>4
    <3>2. UNCHANGED <<at[arq], at[bg], at[sync]>>
      BY <1>0, <1>p, <2>2, <3>1
    <3> QED
      BY <1>0, <1>1, <2>0, <2>1, <2>4, <3>2
  <2> QED
    BY <2>3, <2>4
(* Arq takes up, ends or repeats its run of a job. *)
<1>5. ASSUME NEW j \in Jobs, UNCHANGED request, \A l \in Jobs \ {j} : UNCHANGED <<queued[l], tries[l], status[l]>>,
             NEW p \in Places, at' = [at EXCEPT ![<<"arq", j>>] = p],
             request[j] = "done", queued'[j] = "active" <=> p # "idle"
      PROVE  Orderly(i)'
  <2>1. CASE j = i
    <3>1. at'[arq] = p /\ at'[bg] = at[bg] /\ at'[sync] = at[sync]
      BY <1>0, <1>5, <1>p, <2>1
    <3> QED
      BY <1>5, <1>o, <2>1, <3>1 DEF Orderly
  <2>2. CASE j # i
    <3>1. <<"arq", j>> \notin {arq, bg, sync}
      BY <2>2
    <3>2. UNCHANGED <<at[arq], at[bg], at[sync]>>
      BY <1>0, <1>5, <1>p, <3>1
    <3> QED
      BY <1>1, <1>5, <2>2, <3>2
  <2> QED
    BY <2>1, <2>2
<1>6. ASSUME NEW j \in Jobs, PickUp(j) PROVE Orderly(i)'
  <2>1. queued[j] = "waiting" /\ at[<<"arq", j>>] = "idle" /\ UNCHANGED <<request, status>>
    BY <1>6 DEF PickUp
  <2>2. request[j] = "done"
    BY <1>0, <2>1 DEF InOrder, Orderly
  <2>3. CASE /\ tries' = [tries EXCEPT ![j] = @ + 1] /\ queued' = [queued EXCEPT ![j] = "active"]
             /\ Goto(<<"arq", j>>, "begin")
    BY <1>0, <1>5, <2>1, <2>2, <2>3 DEF Goto, Places
  <2>4. CASE queued' = [queued EXCEPT ![j] = "no"] /\ UNCHANGED <<tries, at>>
    <3>1. CASE j = i
      BY <1>0, <1>o, <2>1, <2>2, <2>4, <3>1 DEF Orderly
    <3>2. CASE j # i
      BY <1>0, <1>1, <2>1, <2>4, <3>2
    <3> QED
      BY <3>1, <3>2
  <2> QED
    BY <1>6, <2>3, <2>4 DEF PickUp
<1>7. ASSUME NEW r \in Runs, Begin(r) \/ Load(r) \/ NextChunk(r) \/ CompleteRaises(r) \/ DatabaseError(r)
      PROVE  Orderly(i)'
  <2>1. UNCHANGED <<request, queued, tries>> /\ at[r] # "idle"
    BY <1>7 DEF Begin, Load, NextChunk, CompleteRaises, DatabaseError
  <2>2. \A j \in Jobs : j # r[2] => status'[j] = status[j]
    BY <1>0, <1>7 DEF Begin, Load, NextChunk, CompleteRaises, DatabaseError
  <2>3. \E p \in Places : p \notin {"begin", "idle"} /\ at' = [at EXCEPT ![r] = p]
    BY <1>7 DEF Begin, Load, NextChunk, CompleteRaises, DatabaseError, Goto, Places
  <2> QED
    BY <1>2, <2>1, <2>2, <2>3
<1>8. ASSUME NEW r \in Runs, EndBatch(r) PROVE Orderly(i)'
  <2>1. UNCHANGED <<request, queued, tries, status>> /\ at[r] # "idle"
    BY <1>8 DEF EndBatch, Then, Batch
  <2>2. \E p \in Places : p \notin {"begin", "idle"} /\ at' = [at EXCEPT ![r] = p]
    BY <1>8 DEF EndBatch, Then, Goto, Places
  <2> QED
    BY <1>2, <2>1, <2>2
<1>9. ASSUME NEW r \in Runs, Complete(r) \/ FailInApi(r) PROVE Orderly(i)'
  <2>1. UNCHANGED <<request, queued, tries>> /\ at[r] # "idle"
    BY <1>9 DEF Complete, FailInApi
  <2>2. \A j \in Jobs : j # r[2] => status'[j] = status[j]
    BY <1>0, <1>9 DEF Complete, FailInApi, Failed
  <2>3. PICK p \in {"finish", "idle"} : at' = [at EXCEPT ![r] = p] /\ (r[1] = "arq" => p # "idle")
    BY <1>9 DEF Complete, FailInApi, Goto
  <2>4. p \in Places /\ p # "begin"
    BY DEF Places
  <2> QED
    BY <1>2, <2>1, <2>2, <2>3, <2>4
<1>10. ASSUME UNCHANGED <<at, request, queued, tries, status>> PROVE Orderly(i)'
  BY <1>1, <1>10
<1>11. ASSUME NEW r \in Runs, NEW pv \in PVs, Put(r, pv) PROVE Orderly(i)'
  BY <1>10, <1>11 DEF Put
<1>12. ASSUME NEW r \in Runs, BatchRaises(r) PROVE Orderly(i)'
  BY <1>10, <1>12 DEF BatchRaises
<1>13. ASSUME NEW j \in Jobs, Finish(j) PROVE Orderly(i)'
  <2>1. /\ at[<<"arq", j>>] = "finish" /\ queued' = [queued EXCEPT ![j] = "no"]
        /\ UNCHANGED <<request, tries, status>> /\ at' = [at EXCEPT ![<<"arq", j>>] = "idle"]
    BY <1>13 DEF Finish, Goto
  <2>2. request[j] = "done"
    BY <1>0, <2>1 DEF InOrder, Orderly
  <2>3. "idle" \in Places
    BY DEF Places
  <2> QED
    BY <1>0, <1>5, <2>1, <2>2, <2>3
<1>14. ASSUME NEW j \in Jobs, FailInWorker(j) PROVE Orderly(i)'
  <2>1. at[<<"arq", j>>] = "fail" /\ UNCHANGED <<request, tries>>
    BY <1>14 DEF FailInWorker
  <2>2. request[j] = "done" /\ queued[j] = "active"
    BY <1>0, <2>1 DEF InOrder, Orderly
  <2>3. \A l \in Jobs \ {j} : status'[l] = status[l] /\ queued'[l] = queued[l]
    BY <1>0, <1>14 DEF FailInWorker, Failed
  <2>4. CASE retry[<<"arq", j>>]
    <3>1. queued'[j] = "waiting"
      BY <1>0, <1>14, <2>4 DEF FailInWorker
    <3>2. at' = [at EXCEPT ![<<"arq", j>>] = "idle"] /\ "idle" \in Places
      BY <1>14, <2>4 DEF FailInWorker, Goto, Places
    <3> QED
      BY <1>5, <2>1, <2>2, <2>3, <3>1, <3>2
  <2>5. CASE ~retry[<<"arq", j>>]
    <3>1. queued'[j] = "active"
      BY <1>0, <1>14, <2>2, <2>5 DEF FailInWorker
    <3>2. at' = [at EXCEPT ![<<"arq", j>>] = "finish"] /\ "finish" \in Places
      BY <1>14, <2>5 DEF FailInWorker, Goto, Places
    <3> QED
      BY <1>5, <2>1, <2>2, <2>3, <3>1, <3>2
  <2> QED
    BY <2>4, <2>5
<1>15. ASSUME NEW j \in Jobs, Timeout(j) PROVE Orderly(i)'
  <2>1. /\ at[<<"arq", j>>] # "idle" /\ queued' = [queued EXCEPT ![j] = "no"]
        /\ UNCHANGED <<request, tries, status>>
    BY <1>15 DEF Timeout
  <2>2. at' = [at EXCEPT ![<<"arq", j>>] = "idle"] /\ "idle" \in Places
    BY <1>0, <1>15 DEF Timeout, Vanish, Places
  <2>3. request[j] = "done"
    BY <1>0, <2>1 DEF InOrder, Orderly
  <2> QED
    BY <1>0, <1>5, <2>1, <2>2, <2>3
<1>16. CASE WorkerRestarts
  <2>1. /\ UNCHANGED <<request, tries, status>>
        /\ queued'[i] = IF queued[i] = "active" THEN "waiting" ELSE queued[i]
    BY <1>16 DEF WorkerRestarts
  <2>2. arq \in {<<"arq", j>> : j \in Jobs} /\ {bg, sync} \cap {<<"arq", j>> : j \in Jobs} = {}
    OBVIOUS
  <2>3. at'[arq] = "idle" /\ at'[bg] = at[bg] /\ at'[sync] = at[sync]
    BY <1>p, <1>16, <2>2 DEF WorkerRestarts, Vanish
  <2> QED
    BY <1>0, <1>o, <2>1, <2>3 DEF Orderly
<1>17. CASE ApiRestarts
  <2>1. /\ UNCHANGED <<queued, tries, status>>
        /\ request'[i] = IF request[i] = "schedule" THEN "done" ELSE request[i]
    BY <1>17 DEF ApiRestarts
  <2>2. arq \notin {"bg", "sync"} \X Jobs /\ bg \in {"bg", "sync"} \X Jobs /\ sync \in {"bg", "sync"} \X Jobs
    OBVIOUS
  <2>3. at'[arq] = at[arq] /\ at'[bg] = "idle" /\ at'[sync] = "idle"
    BY <1>p, <1>17, <2>2 DEF ApiRestarts, Vanish
  <2> QED
    BY <1>0, <1>o, <2>1, <2>3 DEF Orderly
<1>18. ASSUME NEW j \in Jobs, NEW pv \in PVs, LateWrite(j, pv) PROVE Orderly(i)'
  BY <1>10, <1>18 DEF LateWrite
<1>19. ASSUME NEW pv \in PVs, OperatorWrites(pv) PROVE Orderly(i)'
  BY <1>10, <1>19 DEF OperatorWrites
<1>20. ASSUME NEW j \in Jobs, DeleteSnapshot(j) PROVE Orderly(i)'
  BY <1>10, <1>20 DEF DeleteSnapshot
<1>21. CASE UNCHANGED vars
  BY <1>10, <1>21 DEF vars
<1> QED
  BY <1>3, <1>4, <1>6, <1>7, <1>8, <1>9, <1>11, <1>12, <1>13, <1>14, <1>15, <1>16, <1>17, <1>18,
     <1>19, <1>20, <1>21, RunsArePairs
  DEF Next, Runner, Step

-----------------------------------------------------------------------------
(* The PVs of a chunk are finitely many: a chunk is empty only at the end. *)
LEMMA LastChunk ==
  ASSUME TypeOK, NEW r \in Runs, Cardinality({}) = ChunkLength(r)
  PROVE  rest[r] = {}
<1>1. IsFiniteSet(rest[r])
  <2>1. rest[r] \in SUBSET PVs
    BY DEF TypeOK, Writable
  <2>2. IsFiniteSet(PVs)
    BY DEF RestoreAssumption
  <2> QED
    BY <2>1, <2>2, FS_Subset
<1>2. Cardinality(rest[r]) \in Nat /\ Cardinality({}) = 0
  BY <1>1, FS_CardinalityType, FS_EmptySet
<1>3. Cardinality(rest[r]) = 0
  BY <1>2 DEF ChunkLength
<1> QED
  BY <1>1, <1>3, FS_EmptySet

LEMMA ByPrefix ==
  \A C \in SUBSET Writable : /\ C \subseteq (C \cap (CA \cup Bare)) \cup (C \cap PVA)
                             /\ (C \cap (CA \cup Bare)) \cap (C \cap PVA) = {}
BY DEF Writable, PVs

(* What a run has in hand stays sorted while others move. *)
LEMMA SortedFrame ==
  ASSUME NEW q \in Runs, Sorted(q), at'[q] = at[q],
         rest'[q] = rest[q], chunk'[q] = chunk[q], todo'[q] = todo[q],
         ok'[q] = ok[q], bad'[q] = bad[q], asked'[q[2]] = asked[q[2]], deleted \subseteq deleted'
  PROVE  Sorted(q)'
BY DEF Sorted, Fresh, Busy, Batch, Done, Plan, Chosen

LEMMA SortedStep == RestoreInv /\ [Next]_vars => AllSorted'
<1> SUFFICES ASSUME TypeOK, InOrder, AllSorted, [Next]_vars, NEW q \in Runs
             PROVE  Sorted(q)'
  BY DEF RestoreInv, AllSorted
<1> USE DEF table, queue, writes, session, world, trouble
<1>0. /\ rest \in PVSets /\ chunk \in PVSets /\ todo \in PVSets /\ ok \in PVSets /\ bad \in PVSets
      /\ at \in [Runs -> Places] /\ asked \in [Jobs -> Selections \cup {All}]
  BY DEF TypeOK, PVSets, Places
<1>p. q[1] \in Runners /\ q[2] \in Jobs /\ q = <<q[1], q[2]>>
  BY RunsArePairs
<1>s. Sorted(q)
  BY DEF AllSorted
<1>1. ASSUME at'[q] = at[q], UNCHANGED <<writes, asked>>, deleted \subseteq deleted'
      PROVE  Sorted(q)'
  BY <1>s, <1>1, SortedFrame
<1>2. ASSUME Fresh(q), at'[q] \in {"idle", "begin", "load", "finish"}, UNCHANGED writes
      PROVE  Sorted(q)'
  BY <1>s, <1>2 DEF Sorted, Fresh, Busy, Batch, Done
<1>3. ASSUME at'[q] = "fail"
      PROVE  Sorted(q)'
  BY <1>3 DEF Sorted, Fresh, Busy, Batch
<1>4. ASSUME NEW S, Cleared(S), UNCHANGED <<asked, deleted>>,
             q \in S => at'[q] \in {"idle", "finish"}, q \notin S => at'[q] = at[q]
      PROVE  Sorted(q)'
  <2>1. CASE q \in S
    <3>1. rest'[q] = {} /\ chunk'[q] = {} /\ todo'[q] = {} /\ ok'[q] = {} /\ bad'[q] = {}
      BY <1>4, <2>1 DEF Cleared
    <3> QED
      BY <1>4, <2>1, <3>1 DEF Sorted, Fresh, Busy, Batch, Done
  <2>2. CASE q \notin S
    <3>1. /\ rest'[q] = rest[q] /\ chunk'[q] = chunk[q] /\ todo'[q] = todo[q]
          /\ ok'[q] = ok[q] /\ bad'[q] = bad[q]
      BY <1>4, <2>2 DEF Cleared
    <3> QED
      BY <1>s, <1>4, <2>2, <3>1, SortedFrame
  <2> QED
    BY <2>1, <2>2
(* The runs of a job move only once its pvIds are settled. *)
<1>5. ASSUME NEW j \in Jobs, CreateJob(j) PROVE Sorted(q)'
  <2>1. UNCHANGED <<writes, deleted>> /\ request[j] = "new"
    BY <1>5 DEF CreateJob
  <2>2. at' = at \/ at' = [at EXCEPT ![<<"sync", j>>] = "load"]
    BY <1>5 DEF CreateJob, Goto
  <2>3. CASE q[2] = j
    <3>1. /\ at[<<"arq", j>>] = "idle" /\ at[<<"bg", j>>] = "idle" /\ at[<<"sync", j>>] = "idle"
          /\ q \in {<<"arq", j>>, <<"bg", j>>, <<"sync", j>>}
      <4>1. Orderly(j) /\ q \in {<<"arq", j>>, <<"bg", j>>, <<"sync", j>>}
        BY <1>p, <2>3 DEF InOrder, Runners
      <4> QED
        BY <2>1, <4>1 DEF Orderly
    <3> QED
      BY <1>0, <1>2, <2>1, <2>2, <3>1 DEF Fresh
  <2>4. CASE q[2] # j
    <3>1. asked'[q[2]] = asked[q[2]]
      <4>1. PICK s \in Selections \cup {All} : asked' = [asked EXCEPT ![j] = s]
        BY <1>5 DEF CreateJob
      <4> QED
        BY <1>0, <1>p, <2>4, <4>1
    <3>2. at'[q] = at[q]
      BY <1>0, <1>p, <2>2, <2>4
    <3> QED
      BY <1>s, <2>1, <3>1, <3>2, SortedFrame
  <2> QED
    BY <2>3, <2>4
<1>6. ASSUME NEW j \in Jobs, Schedule(j) PROVE Sorted(q)'
  <2>1. UNCHANGED <<writes, asked, deleted>> /\ request[j] = "schedule"
    BY <1>6 DEF Schedule
  <2>2. at' = at \/ at' = [at EXCEPT ![<<"bg", j>>] = "begin"]
    BY <1>6 DEF Schedule, Goto
  <2>3. at[<<"bg", j>>] = "idle"
    BY <2>1 DEF InOrder, Orderly
  <2>4. CASE q = <<"bg", j>>
    BY <1>0, <1>2, <2>1, <2>2, <2>3, <2>4 DEF Fresh
  <2>5. CASE q # <<"bg", j>>
    BY <1>0, <1>1, <2>1, <2>2, <2>5
  <2> QED
    BY <2>4, <2>5
<1>7. ASSUME NEW j \in Jobs, PickUp(j) PROVE Sorted(q)'
  <2>1. UNCHANGED <<writes, asked, deleted>> /\ at[<<"arq", j>>] = "idle"
    BY <1>7 DEF PickUp
  <2>2. at' = at \/ at' = [at EXCEPT ![<<"arq", j>>] = "begin"]
    BY <1>7 DEF PickUp, Goto
  <2>3. CASE q = <<"arq", j>>
    BY <1>0, <1>2, <2>1, <2>2, <2>3 DEF Fresh
  <2>4. CASE q # <<"arq", j>>
    BY <1>0, <1>1, <2>1, <2>2, <2>4
  <2> QED
    BY <2>3, <2>4
<1>8. ASSUME NEW r \in Runs, Begin(r) PROVE Sorted(q)'
  <2>1. UNCHANGED <<writes, asked, deleted>> /\ at[r] = "begin" /\ at' = [at EXCEPT ![r] = "load"]
    BY <1>8 DEF Begin, Goto
  <2> QED
    BY <1>0, <1>1, <1>2, <2>1 DEF Fresh
<1>9. ASSUME NEW r \in Runs, Load(r) PROVE Sorted(q)'
  <2>1. UNCHANGED <<chunk, todo, ok, bad, asked, deleted>> /\ at[r] = "load"
    BY <1>9 DEF Load
  <2>2. CASE q = r
    <3>1. Done(q) = {} /\ chunk'[q] = {} /\ todo'[q] = {} /\ ok'[q] = {} /\ bad'[q] = {}
      BY <1>s, <2>1, <2>2 DEF Sorted, Fresh, Done
    <3>2. CASE q[2] \in deleted
      <4>1. rest'[q] = {} /\ at'[q] = "complete"
        BY <1>0, <1>9, <2>2, <3>2 DEF Load, Goto, PVSets
      <4> QED
        BY <2>1, <3>1, <3>2, <4>1 DEF Sorted, Fresh, Busy, Batch, Done
    <3>3. CASE q[2] \notin deleted
      <4>1. rest'[q] = Plan(q[2]) /\ at'[q] = "progress" /\ Plan(q[2])' = Plan(q[2])
        BY <1>0, <1>9, <2>1, <2>2, <3>3 DEF Load, Goto, PVSets, Plan, Chosen
      <4> QED
        BY <3>1, <4>1 DEF Sorted, Fresh, Busy, Batch, Done
    <3> QED
      BY <3>2, <3>3
  <2>3. CASE q # r
    <3>1. rest'[q] = rest[q] /\ at'[q] = at[q]
      BY <1>0, <1>9, <2>3 DEF Load, Goto, PVSets
    <3> QED
      BY <1>s, <2>1, <3>1, SortedFrame
  <2> QED
    BY <2>2, <2>3
<1>10. ASSUME NEW r \in Runs, NextChunk(r) PROVE Sorted(q)'
  <2>1. UNCHANGED <<ok, bad, asked, deleted>> /\ at[r] = "progress"
    BY <1>10 DEF NextChunk
  <2>2. PICK C \in SUBSET rest[r] :
          /\ Cardinality(C) = ChunkLength(r)
          /\ chunk' = [chunk EXCEPT ![r] = C] /\ rest' = [rest EXCEPT ![r] = @ \ C]
          /\ todo' = [todo EXCEPT ![r] = C \cap (CA \cup Bare)]
          /\ Goto(r, IF C = {} THEN "complete" ELSE "ca")
    BY <1>10 DEF NextChunk
  <2>3. CASE q = r
    <3>1. /\ chunk'[q] = C /\ rest'[q] = rest[q] \ C /\ todo'[q] = C \cap (CA \cup Bare)
          /\ ok'[q] = ok[q] /\ bad'[q] = bad[q] /\ Plan(q[2])' = Plan(q[2])
      BY <1>0, <2>1, <2>2, <2>3 DEF PVSets, Plan, Chosen
    <3>2. /\ ok[q] \cap bad[q] = {} /\ rest[q] \cap Done(q) = {}
          /\ rest[q] \cup Done(q) = Plan(q[2])
      BY <1>s, <2>1, <2>3 DEF Sorted, Busy
    <3>3. CASE C = {}
      <4>1. rest[q] = {} /\ at'[q] = "complete"
        BY <1>0, <2>2, <2>3, <3>3, LastChunk DEF Goto
      <4> QED
        BY <3>1, <3>2, <3>3, <4>1 DEF Sorted, Fresh, Busy, Batch, Done
    <3>4. CASE C # {}
      <4>1. at'[q] = "ca"
        BY <1>0, <2>2, <2>3, <3>4 DEF Goto
      <4>2. C \subseteq rest[q] /\ C \in SUBSET Writable
        BY <1>0, <2>3 DEF PVSets
      <4>3. /\ C \subseteq (C \cap (CA \cup Bare)) \cup (C \cap PVA)
            /\ (C \cap (CA \cup Bare)) \cap (C \cap PVA) = {}
        BY <4>2, ByPrefix
      <4>4. /\ Done(q) \cap (todo'[q] \cup (C \cap PVA)) = {}
            /\ (rest[q] \ C) \cup Done(q) \cup todo'[q] \cup (C \cap PVA) = Plan(q[2])
            /\ C \subseteq Plan(q[2]) \ (rest[q] \ C)
        BY <3>1, <3>2, <4>2, <4>3
      <4> QED
        BY <3>1, <3>2, <4>1, <4>4 DEF Sorted, Fresh, Busy, Batch, Done
    <3> QED
      BY <3>3, <3>4
  <2>4. CASE q # r
    <3>1. rest'[q] = rest[q] /\ at'[q] = at[q] /\ chunk'[q] = chunk[q] /\ todo'[q] = todo[q]
      BY <1>0, <2>2, <2>4 DEF Goto, PVSets
    <3> QED
      BY <1>s, <2>1, <3>1, SortedFrame
  <2> QED
    BY <2>3, <2>4
<1>11. ASSUME NEW r \in Runs, NEW pv \in PVs, Put(r, pv) PROVE Sorted(q)'
  <2>1. UNCHANGED <<at, rest, chunk, asked, deleted>> /\ pv \in todo[r] /\ Batch(r)
    BY <1>11 DEF Put
  <2>2. /\ todo' = [todo EXCEPT ![r] = @ \ {pv}]
        /\ \/ ok' = [ok EXCEPT ![r] = @ \cup {pv}] /\ bad' = [bad EXCEPT ![r] = @ \ {pv}]
           \/ bad' = [bad EXCEPT ![r] = @ \cup {pv}] /\ ok' = ok
    BY <1>11 DEF Put
  <2>3. CASE q = r
    <3>1. /\ todo'[q] = todo[q] \ {pv} /\ Plan(q[2])' = Plan(q[2])
          /\ \/ ok'[q] = ok[q] \cup {pv} /\ bad'[q] = bad[q] \ {pv}
             \/ ok'[q] = ok[q] /\ bad'[q] = bad[q] \cup {pv}
      BY <1>0, <2>1, <2>2, <2>3 DEF PVSets, Plan, Chosen
    <3>2. Done(q)' = Done(q) \cup {pv}
      BY <3>1 DEF Done
    <3>3. ok[q] \cap bad[q] = {} /\ rest[q] \cap Done(q) = {}
      BY <1>s, <2>1, <2>3 DEF Sorted, Busy
    <3>4. CASE at[q] = "ca"
      <4>1. /\ chunk[q] \subseteq Plan(q[2]) \ rest[q]
            /\ todo[q] \subseteq chunk[q] \cap (CA \cup Bare)
            /\ Done(q) \cap (todo[q] \cup (chunk[q] \cap PVA)) = {}
            /\ rest[q] \cup Done(q) \cup todo[q] \cup (chunk[q] \cap PVA) = Plan(q[2])
        BY <1>s, <3>4 DEF Sorted
      <4>2. pv \notin PVA
        BY <2>1, <2>3, <4>1 DEF RestoreAssumption
      <4>3. pv \in todo[q] /\ pv \notin ok[q] /\ pv \notin bad[q] /\ pv \notin rest[q]
        BY <2>1, <2>3, <4>1 DEF Done
      <4>4. ok'[q] \cap bad'[q] = {}
        BY <3>1, <3>3, <4>3
      <4>5. rest[q] \cap Done(q)' = {}
        BY <3>2, <3>3, <4>3
      <4>6. /\ todo'[q] \subseteq chunk[q] \cap (CA \cup Bare)
            /\ Done(q)' \cap (todo'[q] \cup (chunk[q] \cap PVA)) = {}
            /\ rest[q] \cup Done(q)' \cup todo'[q] \cup (chunk[q] \cap PVA) = Plan(q[2])
        BY <3>1, <3>2, <4>1, <4>2, <4>3
      <4>7. at'[q] = "ca" /\ rest'[q] = rest[q] /\ chunk'[q] = chunk[q]
        BY <2>1, <3>4
      <4> QED
        BY <3>1, <4>1, <4>4, <4>5, <4>6, <4>7 DEF Sorted, Fresh
    <3>5. CASE at[q] = "pva"
      <4>1. /\ chunk[q] \subseteq Plan(q[2]) \ rest[q]
            /\ todo[q] \subseteq chunk[q] \cap PVA
            /\ Done(q) \cap todo[q] = {}
            /\ rest[q] \cup Done(q) \cup todo[q] = Plan(q[2])
        BY <1>s, <3>5 DEF Sorted
      <4>3. pv \in todo[q] /\ pv \notin ok[q] /\ pv \notin bad[q] /\ pv \notin rest[q]
        BY <2>1, <2>3, <4>1 DEF Done
      <4>4. ok'[q] \cap bad'[q] = {}
        BY <3>1, <3>3, <4>3
      <4>5. rest[q] \cap Done(q)' = {}
        BY <3>2, <3>3, <4>3
      <4>6. /\ todo'[q] \subseteq chunk[q] \cap PVA
            /\ Done(q)' \cap todo'[q] = {}
            /\ rest[q] \cup Done(q)' \cup todo'[q] = Plan(q[2])
        BY <3>1, <3>2, <4>1, <4>3
      <4>7. at'[q] = "pva" /\ rest'[q] = rest[q] /\ chunk'[q] = chunk[q]
        BY <2>1, <3>5
      <4> QED
        BY <3>1, <4>1, <4>4, <4>5, <4>6, <4>7 DEF Sorted, Fresh
    <3>6. CASE at[q] = "fallback"
      <4>1. /\ chunk[q] \subseteq Done(q) /\ todo[q] \subseteq chunk[q] \cap bad[q]
            /\ rest[q] \cup Done(q) = Plan(q[2])
        BY <1>s, <3>6 DEF Sorted
      <4>3. pv \in bad[q] /\ pv \notin ok[q] /\ pv \notin rest[q] /\ pv \in Done(q)
        BY <2>1, <2>3, <3>3, <4>1 DEF Done
      <4>4. ok'[q] \cap bad'[q] = {}
        BY <3>1, <3>3, <4>3
      <4>5. Done(q)' = Done(q)
        BY <3>2, <4>3
      <4>6. todo'[q] \subseteq chunk[q] \cap bad'[q]
        BY <3>1, <4>1
      <4>7. at'[q] = "fallback" /\ rest'[q] = rest[q] /\ chunk'[q] = chunk[q]
        BY <2>1, <3>6
      <4> QED
        BY <3>1, <3>3, <4>1, <4>4, <4>5, <4>6, <4>7 DEF Sorted, Fresh
    <3> QED
      BY <2>1, <2>3, <3>4, <3>5, <3>6 DEF Batch
  <2>4. CASE q # r
    <3>1. /\ rest'[q] = rest[q] /\ at'[q] = at[q] /\ chunk'[q] = chunk[q] /\ todo'[q] = todo[q]
          /\ ok'[q] = ok[q] /\ bad'[q] = bad[q]
      BY <1>0, <2>1, <2>2, <2>4 DEF PVSets
    <3> QED
      BY <1>s, <2>1, <3>1, SortedFrame
  <2> QED
    BY <2>3, <2>4
<1>12. ASSUME NEW r \in Runs, BatchRaises(r) PROVE Sorted(q)'
  <2>1. UNCHANGED <<at, rest, chunk, asked, deleted>> /\ Batch(r)
    BY <1>12 DEF BatchRaises
  <2>2. CASE q = r
    <3>1. /\ todo'[q] = {} /\ Plan(q[2])' = Plan(q[2])
          /\ ok'[q] = ok[q] \ InBatch(q) /\ bad'[q] = bad[q] \cup InBatch(q)
      BY <1>0, <1>12, <2>1, <2>2 DEF BatchRaises, PVSets, Plan, Chosen
    <3>2. Done(q)' = Done(q) \cup InBatch(q) /\ ok'[q] \cap bad'[q] = ok[q] \cap bad[q] \cap (ok[q] \ InBatch(q))
      BY <3>1 DEF Done
    <3>3. ok[q] \cap bad[q] = {} /\ rest[q] \cap Done(q) = {}
      BY <1>s, <2>1, <2>2 DEF Sorted, Busy
    <3>4. rest'[q] = rest[q] /\ chunk'[q] = chunk[q] /\ at'[q] = at[q] /\ ok'[q] \cap bad'[q] = {}
      BY <2>1, <3>2, <3>3
    <3>5. CASE at[q] = "ca"
      <4>1. /\ chunk[q] \subseteq Plan(q[2]) \ rest[q]
            /\ todo[q] \subseteq chunk[q] \cap (CA \cup Bare)
            /\ Done(q) \cap (todo[q] \cup (chunk[q] \cap PVA)) = {}
            /\ rest[q] \cup Done(q) \cup todo[q] \cup (chunk[q] \cap PVA) = Plan(q[2])
        BY <1>s, <3>5 DEF Sorted
      <4>2. InBatch(q) = chunk[q] \cap (CA \cup Bare)
        BY <3>5 DEF InBatch
      <4>3. InBatch(q) \cap PVA = {}
        BY <4>2 DEF RestoreAssumption
      <4>4. Done(q)' = Done(q) \cup todo[q]
        BY <3>2, <4>1, <4>2, <4>3
      <4>5. /\ rest[q] \cap Done(q)' = {}
            /\ Done(q)' \cap (chunk[q] \cap PVA) = {}
            /\ rest[q] \cup Done(q)' \cup (chunk[q] \cap PVA) = Plan(q[2])
        BY <3>2, <3>3, <4>1, <4>3, <4>4
      <4> QED
        BY <3>1, <3>4, <3>5, <4>1, <4>5 DEF Sorted, Fresh
    <3>6. CASE at[q] = "pva"
      <4>1. /\ chunk[q] \subseteq Plan(q[2]) \ rest[q]
            /\ todo[q] \subseteq chunk[q] \cap PVA
            /\ Done(q) \cap todo[q] = {}
            /\ rest[q] \cup Done(q) \cup todo[q] = Plan(q[2])
        BY <1>s, <3>6 DEF Sorted
      <4>2. InBatch(q) = chunk[q] \cap PVA
        BY <3>6 DEF InBatch
      <4>4. Done(q)' = Done(q) \cup todo[q]
        BY <3>2, <4>1, <4>2
      <4>5. rest[q] \cap Done(q)' = {} /\ rest[q] \cup Done(q)' = Plan(q[2])
        BY <3>3, <4>1, <4>4
      <4> QED
        BY <3>1, <3>4, <3>6, <4>1, <4>5 DEF Sorted, Fresh
    <3>7. CASE at[q] = "fallback"
      <4>1. /\ chunk[q] \subseteq Done(q) /\ rest[q] \cup Done(q) = Plan(q[2])
        BY <1>s, <3>7 DEF Sorted
      <4>2. Done(q)' = Done(q)
        BY <3>2, <3>7, <4>1 DEF InBatch
      <4> QED
        BY <3>1, <3>3, <3>4, <3>7, <4>1, <4>2 DEF Sorted, Fresh
    <3> QED
      BY <2>1, <2>2, <3>5, <3>6, <3>7 DEF Batch
  <2>3. CASE q # r
    <3>1. /\ rest'[q] = rest[q] /\ at'[q] = at[q] /\ chunk'[q] = chunk[q] /\ todo'[q] = todo[q]
          /\ ok'[q] = ok[q] /\ bad'[q] = bad[q]
      BY <1>0, <1>12, <2>1, <2>3 DEF BatchRaises, PVSets
    <3> QED
      BY <1>s, <2>1, <3>1, SortedFrame
  <2> QED
    BY <2>2, <2>3
<1>13. ASSUME NEW r \in Runs, EndBatch(r) PROVE Sorted(q)'
  <2> DEFINE pva == chunk[r] \cap PVA
             again == IF Fallback THEN bad[r] \cap chunk[r] \cap Bare ELSE {}
  <2>1. UNCHANGED <<rest, ok, bad, asked, deleted>> /\ Batch(r) /\ todo[r] = {}
    BY <1>13 DEF EndBatch, Then
  <2>2. \/ /\ at[r] = "ca" /\ pva # {} /\ at' = [at EXCEPT ![r] = "pva"]
           /\ todo' = [todo EXCEPT ![r] = pva] /\ UNCHANGED chunk
        \/ /\ at[r] = "ca" => pva = {}
           /\ at[r] # "fallback" /\ at' = [at EXCEPT ![r] = "fallback"]
           /\ todo' = [todo EXCEPT ![r] = again] /\ chunk' = [chunk EXCEPT ![r] = again]
        \/ /\ at[r] = "ca" => pva = {}
           /\ at' = [at EXCEPT ![r] = "progress"] /\ UNCHANGED <<todo, chunk>>
    BY <1>13 DEF EndBatch, Then, Goto
  <2>3. CASE q = r
    <3>1. ok[q] \cap bad[q] = {} /\ rest[q] \cap Done(q) = {}
      BY <1>s, <2>1, <2>3 DEF Sorted, Busy
    <3>2. Plan(q[2])' = Plan(q[2]) /\ Done(q)' = Done(q) /\ rest'[q] = rest[q] /\ ok'[q] = ok[q] /\ bad'[q] = bad[q]
      BY <2>1 DEF Plan, Chosen, Done
    <3>3. CASE at[r] = "ca" /\ pva # {}
      <4>1. at'[q] = "pva" /\ todo'[q] = chunk[q] \cap PVA /\ chunk'[q] = chunk[q]
        BY <1>0, <2>2, <2>3, <3>3 DEF PVSets
      <4>2. /\ chunk[q] \subseteq Plan(q[2]) \ rest[q]
            /\ Done(q) \cap (chunk[q] \cap PVA) = {}
            /\ rest[q] \cup Done(q) \cup (chunk[q] \cap PVA) = Plan(q[2])
        BY <1>s, <2>1, <2>3, <3>3 DEF Sorted
      <4> QED
        BY <3>1, <3>2, <4>1, <4>2 DEF Sorted, Fresh
    <3>4. CASE ~(at[r] = "ca" /\ pva # {})
      <4>1. rest[q] \cup Done(q) = Plan(q[2])
        <5>1. CASE at[q] = "ca"
          BY <1>s, <2>1, <2>3, <3>4, <5>1 DEF Sorted
        <5>2. CASE at[q] = "pva"
          BY <1>s, <2>1, <2>3, <5>2 DEF Sorted
        <5>3. CASE at[q] = "fallback"
          BY <1>s, <5>3 DEF Sorted
        <5> QED
          BY <2>1, <2>3, <5>1, <5>2, <5>3 DEF Batch
      <4>2. CASE at'[q] = "fallback"
        <5>1. todo'[q] = again /\ chunk'[q] = again
          BY <1>0, <2>2, <2>3, <3>4, <4>2 DEF PVSets
        <5>2. again \subseteq bad[q]
          BY <2>3
        <5> QED
          BY <3>1, <3>2, <4>1, <4>2, <5>1, <5>2 DEF Sorted, Fresh, Done
      <4>3. CASE at'[q] = "progress"
        BY <3>1, <3>2, <4>1, <4>3 DEF Sorted, Fresh
      <4> QED
        BY <1>0, <2>2, <2>3, <3>4, <4>2, <4>3
    <3> QED
      BY <3>3, <3>4
  <2>4. CASE q # r
    <3>1. at'[q] = at[q] /\ chunk'[q] = chunk[q] /\ todo'[q] = todo[q]
      BY <1>0, <2>2, <2>4 DEF PVSets
    <3> QED
      BY <1>s, <2>1, <3>1, SortedFrame
  <2> QED
    BY <2>3, <2>4
<1>14. ASSUME NEW r \in Runs, Complete(r) \/ FailInApi(r) PROVE Sorted(q)'
  <2>1. Cleared({r}) /\ UNCHANGED <<asked, deleted>>
    BY <1>14 DEF Complete, FailInApi
  <2>2. \E p \in {"idle", "finish"} : at' = [at EXCEPT ![r] = p]
    BY <1>14 DEF Complete, FailInApi, Goto
  <2> QED
    BY <1>0, <1>4, <2>1, <2>2
<1>15. ASSUME NEW j \in Jobs, FailInWorker(j) PROVE Sorted(q)'
  <2>1. Cleared({<<"arq", j>>}) /\ UNCHANGED <<asked, deleted>>
    BY <1>15 DEF FailInWorker
  <2>2. \E p \in {"idle", "finish"} : at' = [at EXCEPT ![<<"arq", j>>] = p]
    BY <1>15 DEF FailInWorker, Goto
  <2> QED
    BY <1>0, <1>4, <2>1, <2>2
<1>16. ASSUME NEW j \in Jobs, Finish(j) PROVE Sorted(q)'
  <2>1. /\ UNCHANGED <<writes, asked, deleted>> /\ at[<<"arq", j>>] = "finish"
        /\ at' = [at EXCEPT ![<<"arq", j>>] = "idle"]
    BY <1>16 DEF Finish, Goto
  <2> QED
    BY <1>0, <1>1, <1>2, <2>1 DEF Fresh
<1>17. ASSUME NEW r \in Runs, DatabaseError(r) \/ CompleteRaises(r) PROVE Sorted(q)'
  <2>1. /\ UNCHANGED <<writes, asked, deleted>>
        /\ at' = [at EXCEPT ![r] = "fail"] \/ (at[r] = "progress" /\ at' = [at EXCEPT ![r] = "progress"])
    BY <1>17 DEF DatabaseError, CompleteRaises, Goto
  <2> QED
    BY <1>0, <1>1, <1>3, <2>1
<1>18. ASSUME NEW S, Vanish(S), UNCHANGED <<asked, deleted>> PROVE Sorted(q)'
  <2>1. at'[q] = IF q \in S THEN "idle" ELSE at[q]
    BY <1>18 DEF Vanish
  <2>2. Cleared(S)
    BY <1>18 DEF Vanish
  <2> QED
    BY <1>4, <1>18, <2>1, <2>2
<1>19. ASSUME NEW j \in Jobs, Timeout(j) PROVE Sorted(q)'
  BY <1>18, <1>19 DEF Timeout
<1>20. CASE WorkerRestarts
  BY <1>18, <1>20 DEF WorkerRestarts
<1>21. CASE ApiRestarts
  BY <1>18, <1>21 DEF ApiRestarts
<1>22. ASSUME NEW j \in Jobs, NEW pv \in PVs, LateWrite(j, pv) PROVE Sorted(q)'
  BY <1>1, <1>22 DEF LateWrite
<1>23. ASSUME NEW pv \in PVs, OperatorWrites(pv) PROVE Sorted(q)'
  BY <1>1, <1>23 DEF OperatorWrites
<1>24. ASSUME NEW j \in Jobs, DeleteSnapshot(j) PROVE Sorted(q)'
  BY <1>1, <1>24 DEF DeleteSnapshot
<1>25. CASE UNCHANGED vars
  BY <1>1, <1>25 DEF vars
<1> QED
  BY <1>5, <1>6, <1>7, <1>8, <1>9, <1>10, <1>11, <1>12, <1>13, <1>14, <1>15, <1>16, <1>17, <1>19,
     <1>20, <1>21, <1>22, <1>23, <1>24, <1>25, RunsArePairs
  DEF Next, Runner, Step

-----------------------------------------------------------------------------
LEMMA RestoreInit == Init => RestoreInv
<1> SUFFICES ASSUME Init
             PROVE  RestoreInv
  OBVIOUS
<1>1. rest \in PVSets /\ chunk \in PVSets /\ todo \in PVSets /\ ok \in PVSets /\ bad \in PVSets
  BY DEF Init, NoPVs, PVSets
<1>2. /\ status \in [Jobs -> {"none", "pending", "running", "completed", "failed"}]
      /\ report \in [Jobs -> Reports]
      /\ request \in [Jobs -> {"new", "schedule", "done"}]
      /\ asked \in [Jobs -> Selections \cup {All}]
      /\ queued \in [Jobs -> {"no", "waiting", "active"}]
      /\ tries \in [Jobs -> 0..MaxTries]
  BY DEF Init, NoReport, Reports, RestoreAssumption
<1>3. /\ at \in [Runs -> Places]
      /\ broken \in [Runs -> BOOLEAN] /\ retry \in [Runs -> BOOLEAN]
      /\ severe \in BOOLEAN
  BY DEF Init, Places
<1>8. faults \in 0..MaxFaults
  BY DEF Init, RestoreAssumption
<1>7. /\ device \in [PVs -> Jobs \cup {Operator}] /\ late \subseteq Jobs \X Writable
      /\ foreign \in [Runs -> SUBSET PVs] /\ deleted \subseteq Jobs
  BY DEF Init, NoPVs
<1>4. TypeOK
  BY <1>1, <1>2, <1>3, <1>7, <1>8 DEF TypeOK, PVSets, Places
<1>5. InOrder
  BY RunsArePairs DEF Init, InOrder, Orderly, Runners
<1>6. AllSorted
  BY DEF Init, NoPVs, AllSorted, Sorted, Fresh, Busy, Batch, Done
<1> QED
  BY <1>4, <1>5, <1>6 DEF RestoreInv

LEMMA RestoreStep == RestoreInv /\ [Next]_vars => RestoreInv'
BY TypeStep, InOrderStep, SortedStep DEF RestoreInv

LEMMA RestoreInvariant == Spec => []RestoreInv
BY RestoreInit, RestoreStep, PTL DEF Spec

(* Every variable keeps its type, in particular the results of a run and the
   report of a job are PVs that can be written. *)
THEOREM TypeCorrect == Spec => []TypeOK
<1>1. RestoreInv => TypeOK
  BY DEF RestoreInv
<1> QED
  BY <1>1, RestoreInvariant, PTL

(* The invariant gives each PV of a run that is about to report one outcome. *)
LEMMA WholeOutcome == RestoreInv => EveryWriteHasAnOutcome
<1> SUFFICES ASSUME RestoreInv, NEW r \in Runs, at[r] = "complete"
             PROVE  /\ ok[r] \cap bad[r] = {}
                    /\ ok[r] \cup bad[r] = Plan(r[2]) \/ (ok[r] \cup bad[r] = {} /\ r[2] \in deleted)
  BY DEF EveryWriteHasAnOutcome
<1>1. Sorted(r)
  BY DEF RestoreInv, AllSorted
<1> QED
  BY <1>1 DEF Sorted, Busy, Done

(* put_many_with_progress: when a run is about to report, each PV of its plan
   has one outcome, whatever the chunk size, the prefixes and the batches
   that raised (epics_service.py). *)
THEOREM OutcomesAddUp == Spec => []EveryWriteHasAnOutcome
BY WholeOutcome, RestoreInvariant, PTL

-----------------------------------------------------------------------------
LEMMA HoldsStep == RestoreInv /\ Holds /\ [Next]_vars => Holds'
<1> SUFFICES ASSUME RestoreInv, Holds, [Next]_vars, NEW q \in Runs, Busy(q)',
                    NEW x \in ok'[q] \ foreign'[q]
             PROVE  device'[x] = q[2]
  BY DEF Holds
<1> USE DEF table, queue, writes, session, world, trouble
<1>0. /\ ok \in PVSets /\ at \in [Runs -> Places] /\ foreign \in [Runs -> SUBSET PVs]
      /\ device \in [PVs -> Jobs \cup {Operator}]
  BY DEF RestoreInv, TypeOK, PVSets, Places
<1>b. at'[q] \in {"ca", "pva", "fallback", "progress", "complete"}
  BY DEF Busy, Batch
<1>1. ASSUME Busy(q), ok'[q] \subseteq ok[q], foreign[q] \subseteq foreign'[q], UNCHANGED device
      PROVE  device'[x] = q[2]
  BY <1>1 DEF Holds
(* A write of others is remembered while q is busy. *)
<1>2. ASSUME NEW pv \in PVs, NEW w \in Jobs \cup {Operator}, Written(pv, w), UNCHANGED at,
             ok'[q] \subseteq ok[q] \/ (w = q[2] /\ ok'[q] \subseteq ok[q] \cup {pv})
      PROVE  device'[x] = q[2]
  <2>1. Busy(q)
    BY <1>2 DEF Busy, Batch
  <2>2. foreign'[q] = IF q[2] # w THEN foreign[q] \cup {pv} ELSE foreign[q]
    BY <1>2, <2>1 DEF Written, Busy
  <2>3. device' = [device EXCEPT ![pv] = w]
    BY <1>2 DEF Written
  <2>4. CASE w = q[2]
    <3>1. x = pv \/ x \in ok[q] \ foreign[q]
      BY <1>2, <2>2, <2>4
    <3>2. x = pv \/ device[x] = q[2]
      BY <2>1, <3>1 DEF Holds
    <3> QED
      BY <1>0, <2>3, <2>4, <3>2
  <2>5. CASE w # q[2]
    <3>1. x # pv /\ x \in ok[q] \ foreign[q]
      BY <1>2, <2>2, <2>5
    <3>2. device[x] = q[2]
      BY <2>1, <3>1 DEF Holds
    <3> QED
      BY <1>0, <2>3, <3>1, <3>2
  <2> QED
    BY <2>4, <2>5
<1>3. ASSUME NEW r \in Runs, NEW p \in Places, at' = [at EXCEPT ![r] = p], Busy(r) \/ p \notin {"ca", "pva", "fallback", "progress", "complete"},
             UNCHANGED <<ok, device, foreign>>
      PROVE  device'[x] = q[2]
  <2>1. Busy(q)
    BY <1>0, <1>3, <1>b DEF Busy, Batch
  <2> QED
    BY <1>1, <1>3, <2>1
<1>4. ASSUME NEW S, Cleared(S), UNCHANGED device,
             IF q \in S THEN at'[q] \in {"idle", "finish"} ELSE at'[q] = at[q]
      PROVE  device'[x] = q[2]
  <2>1. q \notin S /\ at'[q] = at[q]
    BY <1>4, <1>b
  <2>2. ok'[q] = ok[q] /\ foreign'[q] = foreign[q]
    BY <1>4, <2>1 DEF Cleared
  <2>3. Busy(q)
    BY <2>1, <1>b DEF Busy, Batch
  <2> QED
    BY <1>1, <1>4, <2>2, <2>3
<1>5. ASSUME UNCHANGED <<at, ok, device, foreign>> PROVE device'[x] = q[2]
  <2>1. Busy(q)
    BY <1>5, <1>b DEF Busy, Batch
  <2> QED
    BY <1>1, <1>5, <2>1
<1>6. ASSUME NEW j \in Jobs, CreateJob(j) \/ Schedule(j) \/ PickUp(j) \/ Finish(j)
      PROVE  device'[x] = q[2]
  <2>1. UNCHANGED <<ok, device, foreign>>
    BY <1>6 DEF CreateJob, Schedule, PickUp, Finish
  <2>2. at' = at \/ \E r \in Runs, p \in {"load", "begin", "idle"} : at' = [at EXCEPT ![r] = p]
    BY <1>6, RunsArePairs DEF CreateJob, Schedule, PickUp, Finish, Goto, Runners
  <2>3. {"load", "begin", "idle"} \subseteq Places
    BY DEF Places
  <2> QED
    BY <1>3, <1>5, <2>1, <2>2, <2>3
<1>7. ASSUME NEW r \in Runs, Begin(r) \/ CompleteRaises(r) PROVE device'[x] = q[2]
  <2>1. UNCHANGED <<ok, device, foreign>> /\ \E p \in {"load", "fail"} : at' = [at EXCEPT ![r] = p]
    BY <1>7 DEF Begin, CompleteRaises, Goto
  <2>2. {"load", "fail"} \subseteq Places
    BY DEF Places
  <2> QED
    BY <1>3, <2>1, <2>2
<1>8. ASSUME NEW r \in Runs, Load(r) PROVE device'[x] = q[2]
  <2>1. UNCHANGED <<ok, device>> /\ at[r] = "load" /\ foreign' = [foreign EXCEPT ![r] = {}]
    BY <1>8 DEF Load
  <2>2. q # r
    BY <2>1 DEF RestoreInv, AllSorted, Sorted, Fresh, Done
  <2>3. at'[q] = at[q] /\ foreign'[q] = foreign[q]
    BY <1>0, <1>8, <2>1, <2>2 DEF Load, Goto
  <2>4. Busy(q)
    BY <2>3, <1>b DEF Busy, Batch
  <2> QED
    BY <1>1, <2>1, <2>3, <2>4
<1>9. ASSUME NEW r \in Runs, NextChunk(r) \/ EndBatch(r) PROVE device'[x] = q[2]
  <2>1. UNCHANGED <<ok, device, foreign>> /\ Busy(r)
    BY <1>9 DEF NextChunk, EndBatch, Then, Busy
  <2>2. \E p \in Places : at' = [at EXCEPT ![r] = p]
    BY <1>9 DEF NextChunk, EndBatch, Then, Goto, Places
  <2> QED
    BY <1>3, <2>1, <2>2
<1>10. ASSUME NEW r \in Runs, NEW pv \in PVs, Put(r, pv) PROVE device'[x] = q[2]
  <2>1. UNCHANGED at /\ r[2] \in Jobs
    BY <1>10, RunsArePairs DEF Put
  <2>2. CASE Written(pv, r[2]) /\ ok' = [ok EXCEPT ![r] = @ \cup {pv}]
    <3>1. ok'[q] \subseteq ok[q] \/ (r[2] = q[2] /\ ok'[q] \subseteq ok[q] \cup {pv})
      BY <1>0, <2>2 DEF PVSets
    <3> QED
      BY <1>2, <2>1, <2>2, <3>1
  <2>3. CASE UNCHANGED <<ok, device, foreign>>
    BY <1>5, <2>1, <2>3
  <2> QED
    BY <1>10, <2>2, <2>3 DEF Put
<1>11. ASSUME NEW r \in Runs, BatchRaises(r) PROVE device'[x] = q[2]
  <2>1. UNCHANGED <<at, device, foreign>> /\ ok'[q] \subseteq ok[q]
    BY <1>0, <1>11 DEF BatchRaises, PVSets
  <2>2. Busy(q)
    BY <2>1, <1>b DEF Busy, Batch
  <2> QED
    BY <1>1, <2>1, <2>2
<1>12. ASSUME NEW r \in Runs, Complete(r) \/ FailInApi(r) PROVE device'[x] = q[2]
  <2>1. Cleared({r}) /\ UNCHANGED device
    BY <1>12 DEF Complete, FailInApi
  <2>2. \E p \in {"idle", "finish"} : at' = [at EXCEPT ![r] = p]
    BY <1>12 DEF Complete, FailInApi, Goto
  <2> QED
    BY <1>0, <1>4, <2>1, <2>2
<1>13. ASSUME NEW j \in Jobs, FailInWorker(j) PROVE device'[x] = q[2]
  <2>1. Cleared({<<"arq", j>>}) /\ UNCHANGED device
    BY <1>13 DEF FailInWorker
  <2>2. \E p \in {"idle", "finish"} : at' = [at EXCEPT ![<<"arq", j>>] = p]
    BY <1>13 DEF FailInWorker, Goto
  <2> QED
    BY <1>0, <1>4, <2>1, <2>2
<1>14. ASSUME NEW r \in Runs, DatabaseError(r) PROVE device'[x] = q[2]
  <2>1. UNCHANGED <<ok, device, foreign>>
    BY <1>14 DEF DatabaseError
  <2>2. at' = [at EXCEPT ![r] = "fail"] \/ (at[r] = "progress" /\ at' = [at EXCEPT ![r] = "progress"])
    BY <1>14 DEF DatabaseError, Goto
  <2>3. "fail" \in Places /\ "progress" \in Places
    BY DEF Places
  <2> QED
    BY <1>3, <2>1, <2>2, <2>3 DEF Busy
<1>15. ASSUME NEW S, Vanish(S), UNCHANGED device PROVE device'[x] = q[2]
  <2>1. at'[q] = IF q \in S THEN "idle" ELSE at[q]
    BY <1>15 DEF Vanish
  <2>2. Cleared(S)
    BY <1>15 DEF Vanish
  <2> QED
    BY <1>4, <1>15, <2>1, <2>2
<1>16. ASSUME NEW j \in Jobs, Timeout(j) PROVE device'[x] = q[2]
  BY <1>15, <1>16 DEF Timeout
<1>17. CASE WorkerRestarts
  BY <1>15, <1>17 DEF WorkerRestarts
<1>18. CASE ApiRestarts
  BY <1>15, <1>18 DEF ApiRestarts
<1>19. ASSUME NEW j \in Jobs, NEW pv \in PVs, LateWrite(j, pv) PROVE device'[x] = q[2]
  BY <1>2, <1>19 DEF LateWrite
<1>20. ASSUME NEW pv \in PVs, OperatorWrites(pv) PROVE device'[x] = q[2]
  BY <1>2, <1>20 DEF OperatorWrites
<1>21. ASSUME NEW j \in Jobs, DeleteSnapshot(j) PROVE device'[x] = q[2]
  BY <1>5, <1>21 DEF DeleteSnapshot
<1>22. CASE UNCHANGED vars
  BY <1>5, <1>22 DEF vars
<1> QED
  BY <1>6, <1>7, <1>8, <1>9, <1>10, <1>11, <1>12, <1>13, <1>14, <1>16, <1>17, <1>18, <1>19, <1>20,
     <1>21, <1>22, RunsArePairs
  DEF Next, Runner, Step

(* What a run reports as restored has the snapshot's value, but for PVs that
   others wrote in the meantime: another restore, an operator, or an earlier
   write that had been given up (caput and put of epics_service.py). *)
THEOREM RestoredHolds == Spec => []RestoredUnlessOverwritten
<1>1. Init => Holds
  BY DEF Init, Holds, Busy, Batch
<1>2. RestoreInv /\ Holds /\ [Next]_vars => Holds'
  BY HoldsStep
<1>3. Holds => RestoredUnlessOverwritten
  BY DEF Holds, RestoredUnlessOverwritten, Busy
<1> QED
  BY <1>1, <1>2, <1>3, RestoreInvariant, PTL DEF Spec

-----------------------------------------------------------------------------
(* What ReportIsComplete says of one job. *)
Accounted(j) ==
  \/ /\ report[j].ok + report[j].bad = Cardinality(Plan(j))
     /\ report[j].failures \subseteq Plan(j)
     /\ Cardinality(report[j].failures) = IF report[j].bad < Listed THEN report[j].bad ELSE Listed
  \/ j \in deleted /\ report[j] = NoReport

(* Only the end of a run completes its job, and it leaves the report; once a
   job has a row its pvIds stay as they are. *)
LEMMA ReportStep == RestoreInv /\ ReportIsComplete /\ [Next]_vars => ReportIsComplete'
<1> SUFFICES ASSUME RestoreInv, ReportIsComplete, [Next]_vars, NEW i \in Jobs,
                    status'[i] = "completed"
             PROVE  Accounted(i)'
  BY DEF ReportIsComplete, Accounted
<1> USE DEF table, queue, writes, session, world, trouble
<1>0. /\ status \in [Jobs -> {"none", "pending", "running", "completed", "failed"}]
      /\ report \in [Jobs -> Reports]
      /\ asked \in [Jobs -> Selections \cup {All}]
      /\ ok \in PVSets /\ bad \in PVSets
  BY DEF RestoreInv, TypeOK, PVSets
<1>1. ASSUME status[i] = "completed", report'[i] = report[i], asked'[i] = asked[i],
             deleted \subseteq deleted'
      PROVE  Accounted(i)'
  <2>1. Plan(i)' = Plan(i)
    BY <1>1 DEF Plan, Chosen
  <2>2. Accounted(i)
    BY <1>1 DEF ReportIsComplete, Accounted
  <2> QED
    BY <1>1, <2>1, <2>2 DEF Accounted
<1>2. ASSUME \/ UNCHANGED status
             \/ \E j \in Jobs, s \in {"pending", "running", "failed"} : status' = [status EXCEPT ![j] = s]
      PROVE  status[i] = "completed"
  BY <1>0, <1>2
<1>3. ASSUME NEW j \in Jobs, CreateJob(j)
      PROVE  Accounted(i)'
  <2>1. UNCHANGED <<report, deleted>> /\ request[j] = "new"
    BY <1>3 DEF CreateJob
  <2>2. status' = status \/ status' = [status EXCEPT ![j] = "pending"]
    BY <1>3 DEF CreateJob
  <2>3. status[i] = "completed"
    BY <1>0, <2>2
  <2>4. i # j
    BY <2>1, <2>3 DEF RestoreInv, InOrder, Orderly
  <2>5. PICK s \in Selections \cup {All} : asked' = [asked EXCEPT ![j] = s]
    BY <1>3 DEF CreateJob
  <2>6. asked'[i] = asked[i]
    BY <1>0, <2>4, <2>5
  <2> QED
    BY <1>1, <2>1, <2>3, <2>6
<1>4. ASSUME NEW j \in Jobs, Schedule(j) \/ PickUp(j) \/ Finish(j) \/ Timeout(j) \/ DeleteSnapshot(j)
      PROVE  Accounted(i)'
  <2>1. UNCHANGED <<status, report, asked>> /\ deleted \subseteq deleted'
    BY <1>4 DEF Schedule, PickUp, Finish, Timeout, DeleteSnapshot
  <2> QED
    BY <1>1, <2>1
<1>5. ASSUME NEW r \in Runs, Load(r) \/ NextChunk(r) \/ BatchRaises(r) \/ EndBatch(r)
                             \/ DatabaseError(r) \/ CompleteRaises(r)
      PROVE  Accounted(i)'
  <2>1. UNCHANGED <<status, report, asked, deleted>>
    BY <1>5 DEF Load, NextChunk, BatchRaises, EndBatch, Then, DatabaseError, CompleteRaises
  <2> QED
    BY <1>1, <2>1
<1>6. ASSUME NEW r \in Runs, Begin(r)
      PROVE  Accounted(i)'
  <2>1. UNCHANGED <<report, asked, deleted>> /\ status' = [status EXCEPT ![r[2]] = "running"]
    BY <1>6 DEF Begin
  <2>2. status[i] = "completed"
    BY <1>2, <2>1, RunsArePairs
  <2> QED
    BY <1>1, <2>1, <2>2
<1>7. ASSUME NEW r \in Runs, NEW pv \in PVs, Put(r, pv)
      PROVE  Accounted(i)'
  BY <1>1, <1>7 DEF Put
<1>8. ASSUME NEW r \in Runs, Complete(r)
      PROVE  Accounted(i)'
  <2>1. UNCHANGED <<asked, deleted>> /\ at[r] = "complete" /\ r[2] \in Jobs
    BY <1>8, RunsArePairs DEF Complete
  <2>2. CASE UNCHANGED table
    BY <1>1, <2>1, <2>2
  <2>3. ASSUME NEW d \in ResultData(ok[r], bad[r]),
               status' = [status EXCEPT ![r[2]] = "completed"],
               report' = [report EXCEPT ![r[2]] = d]
        PROVE  Accounted(i)'
    <3>1. CASE r[2] = i
      <4>1. ok[r] \cap bad[r] = {} /\ (Done(r) = Plan(i) \/ (Done(r) = {} /\ i \in deleted))
        BY <2>1, <3>1, WholeOutcome DEF EveryWriteHasAnOutcome, Done
      <4>2. report'[i] = d /\ Plan(i)' = Plan(i) /\ (i \in deleted => i \in deleted')
        BY <1>0, <2>1, <2>3, <3>1 DEF Plan, Chosen
      <4>3. ok[r] \cup bad[r] \subseteq PVs
        BY <1>0 DEF PVSets, Writable
      <4>4. /\ d.ok + d.bad = Cardinality(Done(r)) /\ d.failures \subseteq Done(r)
            /\ Cardinality(d.failures) = IF d.bad < Listed THEN d.bad ELSE Listed
            /\ Done(r) = {} => d = NoReport
        <5>1. ok[r] \cap bad[r] = {}
          BY <4>1
        <5>2. Accounts(d, ok[r], bad[r])
          BY <4>3, <5>1, ReportAccounts, Zenon
        <5> QED
          BY <5>2 DEF Accounts, Done
      <4>5. CASE Done(r) = Plan(i)
        <5>1. /\ report'[i].ok + report'[i].bad = Cardinality(Plan(i)')
              /\ report'[i].failures \subseteq Plan(i)'
              /\ Cardinality(report'[i].failures)
                   = IF report'[i].bad < Listed THEN report'[i].bad ELSE Listed
          BY <4>2, <4>4, <4>5
        <5> QED
          BY <5>1 DEF Accounted
      <4>6. CASE Done(r) = {} /\ i \in deleted
        <5>1. i \in deleted' /\ report'[i] = NoReport
          BY <4>2, <4>4, <4>6
        <5> QED
          BY <5>1 DEF Accounted
      <4> QED
        BY <4>1, <4>5, <4>6
    <3>2. CASE r[2] # i
      BY <1>0, <1>1, <2>1, <2>3, <3>2
    <3> QED
      BY <3>1, <3>2
  <2> QED
    BY <1>8, <2>2, <2>3 DEF Complete
<1>9. ASSUME NEW j \in Jobs, Failed(j)
      PROVE  status[i] = "completed"
  BY <1>2, <1>9 DEF Failed
<1>10. ASSUME NEW r \in Runs, FailInApi(r)
       PROVE  Accounted(i)'
  <2>1. UNCHANGED <<report, asked, deleted>> /\ (Failed(r[2]) \/ UNCHANGED status)
    BY <1>10 DEF FailInApi
  <2>2. status[i] = "completed"
    BY <1>2, <1>9, <2>1, RunsArePairs
  <2> QED
    BY <1>1, <2>1, <2>2
<1>11. ASSUME NEW j \in Jobs, FailInWorker(j)
       PROVE  Accounted(i)'
  <2>1. UNCHANGED <<report, asked, deleted>> /\ (Failed(j) \/ UNCHANGED status)
    BY <1>11 DEF FailInWorker
  <2>2. status[i] = "completed"
    BY <1>2, <1>9, <2>1
  <2> QED
    BY <1>1, <2>1, <2>2
<1>12. CASE WorkerRestarts \/ ApiRestarts
  <2>1. UNCHANGED <<status, report, asked, deleted>>
    BY <1>12 DEF WorkerRestarts, ApiRestarts
  <2> QED
    BY <1>1, <2>1
<1>13. ASSUME NEW j \in Jobs, NEW pv \in PVs, LateWrite(j, pv)
       PROVE  Accounted(i)'
  BY <1>1, <1>13 DEF LateWrite
<1>14. ASSUME NEW pv \in PVs, OperatorWrites(pv)
       PROVE  Accounted(i)'
  BY <1>1, <1>14 DEF OperatorWrites
<1>15. CASE UNCHANGED vars
  BY <1>1, <1>15 DEF vars
<1> QED
  BY <1>3, <1>4, <1>5, <1>6, <1>7, <1>8, <1>10, <1>11, <1>12, <1>13, <1>14, <1>15, RunsArePairs
  DEF Next, Runner, Step

(* The counts of a completed job add up to the PVs that were asked for and
   can be written, and the failures it names, up to the limit of the list,
   are such PVs, whichever of its runs, in the worker or in the API, marked
   it (result_data of snapshot_tasks.py and background_tasks.py). *)
THEOREM ReportsAreComplete == Spec => []ReportIsComplete
<1>1. Init => ReportIsComplete
  BY DEF Init, ReportIsComplete
<1>2. RestoreInv /\ ReportIsComplete /\ [Next]_vars => ReportIsComplete'
  BY ReportStep
<1> QED
  BY <1>1, <1>2, RestoreInvariant, PTL DEF Spec

-----------------------------------------------------------------------------
(* Faults only add up, and one that is not mild is remembered. *)
LEMMA FaultCounts ==
  ASSUME TypeOK, NEW kind, Fault(kind)
  PROVE  /\ faults' = faults + 1 /\ faults \in Nat
         /\ ~severe' => ~severe /\ kind \in MildKinds
<1>1. faults' = faults + 1 /\ faults \in Nat
  BY DEF Fault, TypeOK
<1>2. ~severe' => ~severe /\ kind \in MildKinds
  BY DEF Fault
<1> QED
  BY <1>1, <1>2

LEMMA UnharmedStep == RestoreInv /\ Unharmed /\ [Next]_vars => Unharmed'
<1> SUFFICES ASSUME RestoreInv, Unharmed, [Next]_vars, ~severe'
             PROVE  Unharmed'
  BY DEF Unharmed, Mild
<1> USE DEF table, queue, writes, session, world, trouble
<1>0. /\ at \in [Runs -> Places] /\ request \in [Jobs -> {"new", "schedule", "done"}]
      /\ queued \in [Jobs -> {"no", "waiting", "active"}] /\ tries \in [Jobs -> 0..MaxTries]
      /\ status \in [Jobs -> {"none", "pending", "running", "completed", "failed"}]
      /\ broken \in [Runs -> BOOLEAN] /\ TypeOK /\ InOrder
      /\ faults \in Nat /\ MaxTries \in Nat
  BY DEF RestoreInv, TypeOK, Places, RestoreAssumption
<1>k. /\ {"put", "batch", "enqueue", "delete", "operator", "worker"} = MildKinds
      /\ "database" \notin MildKinds /\ "timeout" \notin MildKinds /\ "api" \notin MildKinds
  BY DEF MildKinds
<1>m. ~severe /\ faults' \in Nat /\ faults <= faults'
  <2> DEFINE Counted == UNCHANGED trouble \/ \E kind \in FaultKinds : Fault(kind)
  <2>1. \A j \in Jobs : CreateJob(j) \/ PickUp(j) \/ Finish(j) => Counted
    BY DEF CreateJob, PickUp, Finish
  <2>2. \A j \in Jobs : Schedule(j) \/ Timeout(j) \/ DeleteSnapshot(j) => Counted
    BY DEF Schedule, Timeout, DeleteSnapshot, FaultKinds, MildKinds
  <2>3. \A r \in Runs : Begin(r) \/ Load(r) \/ NextChunk(r) \/ EndBatch(r) \/ Complete(r)
                        \/ CompleteRaises(r) => Counted
    BY DEF Begin, Load, NextChunk, EndBatch, Then, Complete, CompleteRaises
  <2>4. \A j \in Jobs : Failed(j) => Counted
    BY DEF Failed, FaultKinds
  <2>5. \A r \in Runs : FailInApi(r) => Counted
    BY <2>4, RunsArePairs DEF FailInApi
  <2>6. \A j \in Jobs : FailInWorker(j) => Counted
    BY <2>4 DEF FailInWorker
  <2>7. \A r \in Runs : DatabaseError(r) \/ BatchRaises(r) \/ (\E pv \in PVs : Put(r, pv)) => Counted
    BY DEF DatabaseError, BatchRaises, Put, FaultKinds, MildKinds
  <2>8. \A j \in Jobs, pv \in PVs : LateWrite(j, pv) => Counted
    BY DEF LateWrite
  <2>9. WorkerRestarts \/ ApiRestarts \/ UNCHANGED vars => Counted
    BY DEF WorkerRestarts, ApiRestarts, vars, FaultKinds, MildKinds
  <2>10. \A pv \in PVs : OperatorWrites(pv) => Counted
    BY DEF OperatorWrites, FaultKinds, MildKinds
  <2>11. Counted
    BY <2>1, <2>2, <2>3, <2>5, <2>6, <2>7, <2>8, <2>9, <2>10, RunsArePairs DEF Next, Runner, Step
  <2> QED
    BY <1>0, <2>11, FaultCounts
<1>u. /\ \A r \in Runs : ~broken[r] /\ at[r] # "fail"
      /\ \A j \in Jobs : /\ queued[j] = "waiting" => tries[j] <= faults
                         /\ queued[j] = "active" => tries[j] <= faults + 1
  BY <1>m DEF Unharmed
<1>v. ASSUME NEW j \in Jobs, Mild', request[j] = "done", status[j] \notin {"none", "completed"}
      PROVE  Underway(j)
  BY <1>0, <1>m, <1>v DEF Unharmed, Mild
<1>p. \A j \in Jobs : /\ <<"arq", j>> \in Runs /\ <<"bg", j>> \in Runs /\ <<"sync", j>> \in Runs
                      /\ Orderly(j)
  BY <1>0, RunsArePairs DEF Runners, InOrder
<1>w. ASSUME \A r \in Runs : ~broken'[r] /\ at'[r] # "fail",
             \A j \in Jobs : /\ queued'[j] = "waiting" => tries'[j] <= faults'
                             /\ queued'[j] = "active" => tries'[j] <= faults' + 1,
             Mild' => \A j \in Jobs : request'[j] = "done" /\ status'[j] \notin {"none", "completed"}
                                        => Underway(j)'
      PROVE  Unharmed'
  BY <1>w DEF Unharmed
(* A step that leaves the queue, and the places but for r, as they are. *)
<1>1. ASSUME UNCHANGED <<at, queue, status, broken>>
      PROVE  Unharmed'
  <2>1. \A r \in Runs : ~broken'[r] /\ at'[r] # "fail"
    BY <1>1, <1>u
  <2>2. \A j \in Jobs : /\ queued'[j] = "waiting" => tries'[j] <= faults'
                        /\ queued'[j] = "active" => tries'[j] <= faults' + 1
    BY <1>0, <1>1, <1>m, <1>u
  <2>3. ASSUME Mild', NEW j \in Jobs, request'[j] = "done", status'[j] \notin {"none", "completed"}
        PROVE  Underway(j)'
    BY <1>1, <1>v, <2>3 DEF Underway
  <2> QED
    BY <1>w, <2>1, <2>2, <2>3
<1>2. ASSUME NEW r \in Runs, NEW p \in Places \ {"idle", "finish", "fail"}, at[r] # "idle",
             r[1] = "arq" => at[r] # "finish",
             at' = [at EXCEPT ![r] = p], UNCHANGED <<queue, broken>>,
             \A j \in Jobs : status'[j] = status[j] \/ (j = r[2] /\ r[1] # "sync")
      PROVE  Unharmed'
  <2>1. \A s \in Runs : ~broken'[s] /\ at'[s] # "fail"
    BY <1>0, <1>2, <1>u
  <2>2. \A j \in Jobs : /\ queued'[j] = "waiting" => tries'[j] <= faults'
                        /\ queued'[j] = "active" => tries'[j] <= faults' + 1
    BY <1>0, <1>2, <1>m, <1>u
  <2>3. ASSUME Mild', NEW j \in Jobs, request'[j] = "done", status'[j] \notin {"none", "completed"}
        PROVE  Underway(j)'
    <3>1. CASE r = <<"arq", j>> \/ r = <<"bg", j>>
      BY <1>0, <1>2, <3>1 DEF Underway
    <3>2. CASE r # <<"arq", j>> /\ r # <<"bg", j>>
      <4>1. status'[j] = status[j]
        BY <1>2, <3>2, RunsArePairs DEF Runners
      <4>2. at'[<<"arq", j>>] = at[<<"arq", j>>] /\ at'[<<"bg", j>>] = at[<<"bg", j>>]
        BY <1>0, <1>2, <1>p, <3>2
      <4> QED
        BY <1>2, <1>v, <2>3, <4>1, <4>2 DEF Underway
    <3> QED
      BY <3>1, <3>2
  <2> QED
    BY <1>w, <2>1, <2>2, <2>3
<1>3. ASSUME NEW j \in Jobs, CreateJob(j) PROVE Unharmed'
  <2>1. UNCHANGED <<broken, queued, tries>> /\ request[j] = "new"
    BY <1>3 DEF CreateJob
  <2>2. \/ /\ request' = [request EXCEPT ![j] = "schedule"] /\ UNCHANGED at
           /\ status' = [status EXCEPT ![j] = "pending"]
        \/ /\ request' = [request EXCEPT ![j] = "done"] /\ at' = [at EXCEPT ![<<"sync", j>>] = "load"]
           /\ UNCHANGED status
    BY <1>3 DEF CreateJob, Goto
  <2>3. \A s \in Runs : ~broken'[s] /\ at'[s] # "fail"
    BY <1>0, <1>u, <2>1, <2>2
  <2>4. \A i \in Jobs : /\ queued'[i] = "waiting" => tries'[i] <= faults'
                        /\ queued'[i] = "active" => tries'[i] <= faults' + 1
    BY <1>0, <1>m, <1>u, <2>1
  <2>5. ASSUME Mild', NEW i \in Jobs, request'[i] = "done", status'[i] \notin {"none", "completed"}
        PROVE  Underway(i)'
    <3>1. status[j] = "none"
      BY <1>p, <2>1 DEF Orderly
    <3>2. i # j
      BY <1>0, <2>2, <2>5, <3>1
    <3>3. request[i] = "done" /\ status'[i] = status[i]
      BY <1>0, <2>2, <2>5, <3>2
    <3>4. at'[<<"arq", i>>] = at[<<"arq", i>>] /\ at'[<<"bg", i>>] = at[<<"bg", i>>]
      BY <1>0, <1>p, <2>2
    <3> QED
      BY <1>v, <2>1, <2>5, <3>3, <3>4 DEF Underway
  <2> QED
    BY <1>w, <2>3, <2>4, <2>5
<1>4. ASSUME NEW j \in Jobs, Schedule(j) PROVE Unharmed'
  <2>1. UNCHANGED <<broken, tries, status>> /\ request[j] = "schedule" /\ request' = [request EXCEPT ![j] = "done"]
    BY <1>4 DEF Schedule
  <2>2. \/ queued' = [queued EXCEPT ![j] = "waiting"] /\ UNCHANGED at
        \/ queued' \in {queued, [queued EXCEPT ![j] = "waiting"]} /\ at' = [at EXCEPT ![<<"bg", j>>] = "begin"]
    BY <1>4 DEF Schedule, Goto
  <2>3. \A s \in Runs : ~broken'[s] /\ at'[s] # "fail"
    BY <1>0, <1>u, <2>1, <2>2
  <2>4. \A i \in Jobs : /\ queued'[i] = "waiting" => tries'[i] <= faults'
                        /\ queued'[i] = "active" => tries'[i] <= faults' + 1
    <3>1. tries[j] = 0 /\ queued[j] = "no"
      BY <1>p, <2>1 DEF Orderly
    <3>2. \A i \in Jobs \ {j} : queued'[i] = queued[i]
      BY <1>0, <2>2
    <3>3. queued'[j] \in {"no", "waiting"}
      BY <1>0, <2>2, <3>1
    <3> QED
      BY <1>0, <1>m, <1>u, <2>1, <3>1, <3>2, <3>3
  <2>5. ASSUME Mild', NEW i \in Jobs, request'[i] = "done", status'[i] \notin {"none", "completed"}
        PROVE  Underway(i)'
    <3>1. CASE i = j
      BY <1>0, <1>p, <2>2, <3>1 DEF Underway
    <3>2. CASE i # j
      <4>1. at'[<<"arq", i>>] = at[<<"arq", i>>] /\ at'[<<"bg", i>>] = at[<<"bg", i>>]
        BY <1>0, <1>p, <2>2, <3>2
      <4>2. queued'[i] = queued[i] /\ request'[i] = request[i] /\ status'[i] = status[i]
        BY <1>0, <2>1, <2>2, <3>2
      <4> QED
        BY <1>v, <2>5, <4>1, <4>2 DEF Underway
    <3> QED
      BY <3>1, <3>2
  <2> QED
    BY <1>w, <2>3, <2>4, <2>5
<1>5. ASSUME NEW j \in Jobs, PickUp(j) PROVE Unharmed'
  <2>1. /\ UNCHANGED <<broken, request, status, faults, severe>>
        /\ queued[j] = "waiting" /\ at[<<"arq", j>>] = "idle"
    BY <1>5 DEF PickUp
  <2>2. \/ /\ tries' = [tries EXCEPT ![j] = @ + 1] /\ queued' = [queued EXCEPT ![j] = "active"]
           /\ at' = [at EXCEPT ![<<"arq", j>>] = "begin"]
        \/ /\ tries[j] >= MaxTries /\ queued' = [queued EXCEPT ![j] = "no"]
           /\ UNCHANGED <<tries, at>>
    BY <1>0, <1>5 DEF PickUp, Goto
  <2>3. \A s \in Runs : ~broken'[s] /\ at'[s] # "fail"
    BY <1>0, <1>u, <2>1, <2>2
  <2>4. \A i \in Jobs : /\ queued'[i] = "waiting" => tries'[i] <= faults'
                        /\ queued'[i] = "active" => tries'[i] <= faults' + 1
    <3>1. \A i \in Jobs \ {j} : queued'[i] = queued[i] /\ tries'[i] = tries[i]
      BY <1>0, <2>2
    <3>2. queued'[j] = "no" \/ (queued'[j] = "active" /\ tries'[j] = tries[j] + 1)
      BY <1>0, <2>2
    <3>3. tries[j] <= faults
      BY <1>u, <2>1
    <3> QED
      BY <1>0, <1>u, <2>1, <3>1, <3>2, <3>3
  <2>5. ASSUME Mild', NEW i \in Jobs, request'[i] = "done", status'[i] \notin {"none", "completed"}
        PROVE  Underway(i)'
    <3>1. CASE i = j
      <4>1. tries[j] < MaxTries
        BY <1>0, <1>m, <1>u, <2>1, <2>5 DEF Mild
      <4>2. at'[<<"arq", j>>] = "begin"
        <5>1. at' = [at EXCEPT ![<<"arq", j>>] = "begin"]
          BY <1>0, <2>2, <4>1
        <5> QED
          BY <1>0, <1>p, <5>1
      <4> QED
        BY <3>1, <4>2 DEF Underway
    <3>2. CASE i # j
      <4>1. at'[<<"arq", i>>] = at[<<"arq", i>>] /\ at'[<<"bg", i>>] = at[<<"bg", i>>]
        BY <1>0, <1>p, <2>2, <3>2
      <4>2. queued'[i] = queued[i]
        BY <1>0, <2>2, <3>2
      <4> QED
        BY <1>v, <2>1, <2>5, <4>1, <4>2 DEF Underway
    <3> QED
      BY <3>1, <3>2
  <2> QED
    BY <1>w, <2>3, <2>4, <2>5
<1>6. ASSUME NEW r \in Runs, Begin(r) PROVE Unharmed'
  <2>1. /\ at[r] = "begin" /\ UNCHANGED <<queue, broken>> /\ at' = [at EXCEPT ![r] = "load"]
        /\ status' = [status EXCEPT ![r[2]] = "running"]
    BY <1>6 DEF Begin, Goto
  <2>2. r[1] # "sync"
    <3>1. r[2] \in Jobs /\ at[<<"sync", r[2]>>] # "begin"
      BY <1>p, RunsArePairs DEF Orderly
    <3> QED
      BY <2>1, <3>1, RunsArePairs
  <2>3. \A j \in Jobs : status'[j] = status[j] \/ (j = r[2] /\ r[1] # "sync")
    BY <1>0, <2>1, <2>2
  <2>4. "load" \in Places \ {"idle", "finish", "fail"}
    BY DEF Places
  <2> QED
    BY <1>2, <2>1, <2>3, <2>4
<1>7. ASSUME NEW r \in Runs, Load(r) \/ NextChunk(r) \/ EndBatch(r) PROVE Unharmed'
  <2>1. UNCHANGED <<queue, broken, status>> /\ at[r] # "idle" /\ at[r] # "finish"
    BY <1>7 DEF Load, NextChunk, EndBatch, Then, Batch
  <2>2. PICK p \in {"complete", "progress", "ca", "pva", "fallback"} : at' = [at EXCEPT ![r] = p]
    BY <1>7 DEF Load, NextChunk, EndBatch, Then, Goto
  <2>3. p \in Places \ {"idle", "finish", "fail"}
    BY DEF Places
  <2> QED
    BY <1>2, <2>1, <2>2, <2>3
<1>8. ASSUME NEW r \in Runs, NEW pv \in PVs, Put(r, pv) PROVE Unharmed'
  BY <1>1, <1>8 DEF Put
<1>9. ASSUME NEW r \in Runs, BatchRaises(r) PROVE Unharmed'
  BY <1>1, <1>9 DEF BatchRaises
<1>10. ASSUME NEW r \in Runs, Complete(r) PROVE Unharmed'
  <2>1. UNCHANGED queue /\ Cleared({r}) /\ at[r] = "complete" /\ r[2] \in Jobs
    BY <1>10, RunsArePairs DEF Complete
  <2>2. PICK p \in {"finish", "idle"} : at' = [at EXCEPT ![r] = p]
    BY <1>10 DEF Complete, Goto
  <2>3. \A s \in Runs : ~broken'[s] /\ at'[s] # "fail"
    BY <1>0, <1>u, <2>1, <2>2 DEF Cleared
  <2>4. \A i \in Jobs : /\ queued'[i] = "waiting" => tries'[i] <= faults'
                        /\ queued'[i] = "active" => tries'[i] <= faults' + 1
    BY <1>0, <1>m, <1>u, <2>1
  <2>5. ASSUME Mild', NEW i \in Jobs, request'[i] = "done", status'[i] \notin {"none", "completed"}
        PROVE  Underway(i)'
    <3>1. r # <<"arq", i>> /\ r # <<"bg", i>>
      <4>1. ASSUME r[1] # "sync" PROVE r[2] # i
        BY <1>0, <1>10, <2>1, <2>5, <4>1 DEF Complete
      <4> QED
        BY <4>1
    <3>2. at'[<<"arq", i>>] = at[<<"arq", i>>] /\ at'[<<"bg", i>>] = at[<<"bg", i>>]
      BY <1>0, <1>p, <2>2, <3>1
    <3>3. status'[i] = status[i]
      <4>1. CASE r[2] = i
        <5>1. r[1] = "sync"
          BY <3>1, <4>1, RunsArePairs DEF Runners
        <5> QED
          BY <1>10, <5>1 DEF Complete
      <4>2. CASE r[2] # i
        BY <1>0, <1>10, <2>1, <4>2 DEF Complete
      <4> QED
        BY <4>1, <4>2
    <3> QED
      BY <1>v, <2>1, <2>5, <3>2, <3>3 DEF Underway
  <2> QED
    BY <1>w, <2>3, <2>4, <2>5
<1>11. ASSUME NEW j \in Jobs, Finish(j) PROVE Unharmed'
  <2>1. /\ at[<<"arq", j>>] = "finish" /\ queued' = [queued EXCEPT ![j] = "no"]
        /\ UNCHANGED <<status, request, tries, broken>> /\ at' = [at EXCEPT ![<<"arq", j>>] = "idle"]
    BY <1>11 DEF Finish, Goto
  <2>2. \A s \in Runs : ~broken'[s] /\ at'[s] # "fail"
    BY <1>0, <1>u, <2>1
  <2>3. \A i \in Jobs : /\ queued'[i] = "waiting" => tries'[i] <= faults'
                        /\ queued'[i] = "active" => tries'[i] <= faults' + 1
    <3>1. \A i \in Jobs : queued'[i] = "no" \/ queued'[i] = queued[i]
      BY <1>0, <2>1
    <3> QED
      BY <1>0, <1>m, <1>u, <2>1, <3>1
  <2>4. ASSUME Mild', NEW i \in Jobs, request'[i] = "done", status'[i] \notin {"none", "completed"}
        PROVE  Underway(i)'
    <3>1. at'[<<"bg", i>>] = at[<<"bg", i>>]
      BY <1>0, <1>p, <2>1
    <3>2. Underway(i)
      BY <1>v, <2>1, <2>4
    <3>3. CASE i = j
      <4>1. queued[j] = "active"
        BY <1>p, <2>1 DEF Orderly
      <4> QED
        BY <2>1, <3>1, <3>2, <3>3, <4>1 DEF Underway
    <3>4. CASE i # j
      <4>1. at'[<<"arq", i>>] = at[<<"arq", i>>] /\ queued'[i] = queued[i]
        BY <1>0, <1>p, <2>1, <3>4
      <4> QED
        BY <3>1, <3>2, <4>1 DEF Underway
    <3> QED
      BY <3>3, <3>4
  <2> QED
    BY <1>w, <2>2, <2>3, <2>4
(* With mild faults no run comes to these. *)
<1>12. ASSUME NEW r \in Runs, CompleteRaises(r) \/ FailInApi(r) \/ DatabaseError(r) PROVE FALSE
  <2>1. ~CompleteRaises(r) /\ ~FailInApi(r)
    BY <1>u DEF CompleteRaises, FailInApi
  <2>2. Fault("database")
    BY <1>12, <2>1 DEF DatabaseError
  <2> QED
    BY <1>0, <1>k, <2>2, FaultCounts
<1>13. ASSUME NEW j \in Jobs, FailInWorker(j) \/ Timeout(j) PROVE FALSE
  <2>1. ~FailInWorker(j)
    BY <1>p, <1>u DEF FailInWorker
  <2>2. Fault("timeout")
    BY <1>13, <2>1 DEF Timeout
  <2> QED
    BY <1>0, <1>k, <2>2, FaultCounts
<1>14. ~ApiRestarts
  <2> SUFFICES ASSUME ApiRestarts PROVE FALSE
    OBVIOUS
  <2>1. Fault("api")
    BY DEF ApiRestarts
  <2> QED
    BY <1>0, <1>k, <2>1, FaultCounts
<1>15. CASE WorkerRestarts
  <2>1. /\ UNCHANGED <<status, request, tries>> /\ faults' = faults + 1
        /\ queued' = [j \in Jobs |-> IF queued[j] = "active" THEN "waiting" ELSE queued[j]]
        /\ at' = [r \in Runs |-> IF r \in {<<"arq", j>> : j \in Jobs} THEN "idle" ELSE at[r]]
        /\ Cleared({<<"arq", j>> : j \in Jobs})
    BY <1>0, <1>15, FaultCounts DEF WorkerRestarts, Vanish
  <2>2. \A s \in Runs : ~broken'[s] /\ at'[s] # "fail"
    BY <1>u, <2>1 DEF Cleared
  <2>3. \A i \in Jobs : /\ queued'[i] = "waiting" => tries'[i] <= faults'
                        /\ queued'[i] = "active" => tries'[i] <= faults' + 1
    <3>1. \A i \in Jobs : /\ queued'[i] # "active" /\ tries'[i] = tries[i]
                          /\ queued'[i] = "waiting" => queued[i] \in {"active", "waiting"}
      BY <2>1
    <3> QED
      BY <1>0, <1>u, <2>1, <3>1
  <2>4. ASSUME Mild', NEW i \in Jobs, request'[i] = "done", status'[i] \notin {"none", "completed"}
        PROVE  Underway(i)'
    <3>1. Underway(i)
      BY <1>v, <2>1, <2>4
    <3>2. at'[<<"bg", i>>] = at[<<"bg", i>>]
      BY <1>p, <2>1
    <3>3. at[<<"arq", i>>] # "idle" => queued[i] = "active"
      BY <1>p DEF Orderly
    <3>4. queued'[i] = IF queued[i] = "active" THEN "waiting" ELSE queued[i]
      BY <2>1
    <3> QED
      BY <3>1, <3>2, <3>3, <3>4 DEF Underway
  <2> QED
    BY <1>w, <2>2, <2>3, <2>4
<1>16. ASSUME NEW j \in Jobs, NEW pv \in PVs, LateWrite(j, pv) PROVE Unharmed'
  BY <1>1, <1>16 DEF LateWrite
<1>17. ASSUME NEW pv \in PVs, OperatorWrites(pv) PROVE Unharmed'
  BY <1>1, <1>17 DEF OperatorWrites
<1>18. ASSUME NEW j \in Jobs, DeleteSnapshot(j) PROVE Unharmed'
  BY <1>1, <1>18 DEF DeleteSnapshot
<1>19. CASE UNCHANGED vars
  BY <1>1, <1>19 DEF vars
<1> QED
  BY <1>3, <1>4, <1>5, <1>6, <1>7, <1>8, <1>9, <1>10, <1>11, <1>12, <1>13, <1>14, <1>15, <1>16,
     <1>17, <1>18, <1>19, RunsArePairs
  DEF Next, Runner, Step

(* As long as nothing but EPICS errors, doubled runs, deletions, operators and
   fewer restarts of the worker than arq has tries happens, a job that nobody
   works on any more is completed (WorkerSettings, restore_snapshot_task). *)
THEOREM AbandonedJobsAreCompleted == Spec => []AbandonedIsCompleted
<1>1. Init => Unharmed
  BY DEF Init, Unharmed
<1>2. RestoreInv /\ Unharmed /\ [Next]_vars => Unharmed'
  BY UnharmedStep
<1>3. RestoreInv /\ Unharmed => AbandonedIsCompleted
  <2> SUFFICES ASSUME Unharmed, Mild, NEW j \in Jobs, Abandoned(j), status[j] \notin {"none", "completed"}
               PROVE  FALSE
    BY DEF AbandonedIsCompleted
  <2>1. Underway(j)
    BY DEF Unharmed, Abandoned
  <2> QED
    BY <2>1 DEF Underway, Abandoned, Runners
<1> QED
  BY <1>1, <1>2, <1>3, RestoreInvariant, PTL DEF Spec

=============================================================================
