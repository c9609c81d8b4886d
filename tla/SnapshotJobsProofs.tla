--------------------------- MODULE SnapshotJobsProofs ---------------------------
(***************************************************************************)
(* Theorems of SnapshotJobs for any jobs, chunks, tries and snapshots, and *)
(* for any number of faults of any kind.                                   *)
(***************************************************************************)
EXTENDS SnapshotJobs, TLAPS

USE JobsAssumption

(* A run has a snapshot that it fills or is about to complete. *)
Filling(r) == at[r] \in {"insert", "complete"}

(* Each run that fills a snapshot has one of its own, made for its job; what
   it has not committed is in that one. *)
RunsOwn ==
  /\ \A r \in Runs :
       /\ snap[r] # NoSnap => snap[r] \in 1..made /\ owner[snap[r]] = r[2]
       /\ Filling(r) => snap[r] # NoSnap
       /\ pending[r] > 0 => Filling(r) /\ path[r] = "direct"
  /\ \A q, r \in Runs : snap[q] = snap[r] /\ snap[q] # NoSnap => q = r

(* The chunks that are committed and those that are pending are those that
   the run has come to. *)
RowsAddUp ==
  /\ \A r \in Runs :
       /\ at[r] = "insert" => rows[snap[r]] + pending[r] < Chunks
       /\ at[r] = "complete" => rows[snap[r]] + pending[r] = Chunks
  /\ \A s \in Snaps : s > made => rows[s] = 0

(* No run in the background before the handler of the POST has added it. *)
NotEarly == \A j \in Jobs : request[j] # "done" => at[<<"bg", j>>] = "idle"

FillInv == TypeOK /\ RunsOwn /\ RowsAddUp /\ NotEarly

LEMMA RunsArePairs ==
  /\ \A r \in Runs : r[1] \in Runners /\ r[2] \in Jobs /\ r = <<r[1], r[2]>>
  /\ \A k \in Runners, j \in Jobs : <<k, j>> \in Runs
BY DEF Runs

Places == {"idle", "begin", "read", "create", "insert", "complete", "finish", "fail"}

LEMMA VanishTyped ==
  ASSUME TypeOK, NEW S, Vanish(S)
  PROVE  /\ at' \in [Runs -> Places]
         /\ snap' \in [Runs -> Snaps \cup {NoSnap}] /\ pending' \in [Runs -> 0..Chunks]
         /\ broken' \in [Runs -> BOOLEAN] /\ retry' \in [Runs -> BOOLEAN]
<1>1. at' \in [Runs -> Places]
  BY DEF Vanish, TypeOK, Places
<1>2. snap' \in [Runs -> Snaps \cup {NoSnap}]
  BY DEF Vanish, TypeOK
<1>3. pending' \in [Runs -> 0..Chunks]
  BY DEF Vanish, TypeOK
<1>4. broken' \in [Runs -> BOOLEAN]
  BY DEF Vanish, TypeOK
<1>5. retry' \in [Runs -> BOOLEAN]
  BY DEF Vanish, TypeOK
<1> QED
  BY <1>1, <1>2, <1>3, <1>4, <1>5

LEMMA FaultTyped ==
  ASSUME TypeOK, NEW kind, Fault(kind)
  PROVE  faults' \in 0..MaxFaults /\ had' \subseteq Faults
BY DEF Fault, TypeOK

LEMMA TypeStep == FillInv /\ [Next]_vars => TypeOK'
<1> SUFFICES ASSUME FillInv, [Next]_vars
             PROVE  TypeOK'
  OBVIOUS
<1> USE DEF table, queue, session, snapshots, trouble
<1>0. TypeOK
  BY DEF FillInv
<1>1. ASSUME NEW j \in Jobs, CreateJob(j) PROVE TypeOK'
  BY <1>0, <1>1 DEF CreateJob, TypeOK
<1>2. ASSUME NEW j \in Jobs, Schedule(j) PROVE TypeOK'
  <2>1. <<"bg", j>> \in Runs /\ at \in [Runs -> Places] /\ queued \in [Jobs -> {"no", "waiting", "active"}]
    BY <1>0, RunsArePairs DEF TypeOK, Runners, Places
  <2>2. at' \in [Runs -> Places]
    BY <1>2, <2>1 DEF Schedule, InBackground, Places
  <2>3. queued' \in [Jobs -> {"no", "waiting", "active"}]
    BY <1>2, <2>1 DEF Schedule
  <2>4. faults' \in 0..MaxFaults /\ had' \subseteq Faults
    BY <1>0, <1>2, FaultTyped DEF Schedule, TypeOK
  <2> QED
    BY <1>0, <1>2, <2>2, <2>3, <2>4 DEF Schedule, TypeOK, Places
<1>3. ASSUME NEW j \in Jobs, PickUp(j) PROVE TypeOK'
  <2>1. <<"arq", j>> \in Runs /\ at \in [Runs -> Places] /\ queued \in [Jobs -> {"no", "waiting", "active"}]
    BY <1>0, RunsArePairs DEF TypeOK, Runners, Places
  <2>2. at' \in [Runs -> Places]
    BY <1>3, <2>1 DEF PickUp, Places
  <2>3. queued' \in [Jobs -> {"no", "waiting", "active"}]
    BY <1>3, <2>1 DEF PickUp
  <2>4. tries' \in [Jobs -> 0..MaxTries]
    BY <1>0, <1>3 DEF PickUp, TypeOK
  <2> QED
    BY <1>0, <1>3, <2>2, <2>3, <2>4 DEF PickUp, TypeOK, Places
<1>4. ASSUME NEW r \in Runs, Begin(r) PROVE TypeOK'
  BY <1>0, <1>4 DEF Begin, Goto, TypeOK
<1>5. ASSUME NEW r \in Runs, Read(r) PROVE TypeOK'
  BY <1>0, <1>5 DEF Read, Goto, TypeOK
<1>6. ASSUME NEW r \in Runs, CreateSnapshot(r) PROVE TypeOK'
  <2>1. made + 1 \in Snaps /\ made' \in 0..MaxSnaps
    BY <1>0, <1>6 DEF CreateSnapshot, TypeOK, Snaps
  <2>2. owner' \in [Snaps -> Jobs \cup {"none"}]
    BY <1>0, <1>6, <2>1, RunsArePairs DEF CreateSnapshot, TypeOK
  <2>3. snap' \in [Runs -> Snaps \cup {NoSnap}]
    BY <1>0, <1>6, <2>1 DEF CreateSnapshot, TypeOK
  <2> QED
    BY <1>0, <1>6, <2>1, <2>2, <2>3 DEF CreateSnapshot, Goto, TypeOK
<1>7. ASSUME NEW r \in Runs, InsertFast(r) PROVE TypeOK'
  <2>0. Chunks \in 0..Chunks /\ rows \in [Snaps -> 0..Chunks]
    BY <1>0 DEF TypeOK
  <2>1. rows' \in [Snaps -> 0..Chunks]
    BY <1>7, <2>0 DEF InsertFast
  <2>2. at' \in [Runs -> Places]
    BY <1>0, <1>7 DEF InsertFast, Goto, TypeOK, Places
  <2> QED
    BY <1>0, <1>7, <2>1, <2>2 DEF InsertFast, TypeOK, Places
<1>8. ASSUME NEW r \in Runs, InsertChunk(r) PROVE TypeOK'
  BY SMTT(30), <1>0, <1>8 DEF InsertChunk, Goto, TypeOK, FillInv, RunsOwn, RowsAddUp
<1>9. ASSUME NEW r \in Runs, MarkCompleted(r) PROVE TypeOK'
  <2>1. snap[r] \in Snaps /\ rows[snap[r]] + pending[r] = Chunks
    BY <1>0, <1>9 DEF MarkCompleted, FillInv, RunsOwn, RowsAddUp, Filling, TypeOK, Snaps
  <2>2. rows' \in [Snaps -> 0..Chunks] /\ pending' \in [Runs -> 0..Chunks]
    BY <1>0, <1>9, <2>1 DEF MarkCompleted, CommitRows, TypeOK
  <2>3. at' \in [Runs -> Places] /\ snap' \in [Runs -> Snaps \cup {NoSnap}]
    BY <1>0, <1>9 DEF MarkCompleted, Goto, TypeOK, Places
  <2>4. status' \in [Jobs -> {"none", "pending", "running", "completed", "failed"}]
        /\ result' \in [Jobs -> Snaps \cup {NoSnap}]
    BY <1>0, <1>9, <2>1, RunsArePairs DEF MarkCompleted, TypeOK
  <2> QED
    BY <1>0, <1>9, <2>2, <2>3, <2>4 DEF MarkCompleted, TypeOK, Places
<1>10. ASSUME NEW r \in Runs, SnapshotGone(r) PROVE TypeOK'
  BY <1>0, <1>10 DEF SnapshotGone, Goto, TypeOK
<1>11. ASSUME NEW j \in Jobs, Finish(j) PROVE TypeOK'
  BY <1>0, <1>11, RunsArePairs DEF Finish, Goto, TypeOK, Runners
<1>12. ASSUME NEW j \in Jobs, FailInBackground(j) PROVE TypeOK'
  <2> DEFINE r == <<"bg", j>>
  <2>1. r \in Runs
    BY RunsArePairs DEF Runners
  <2>2. at' \in [Runs -> Places]
    BY <1>0, <1>12, <2>1 DEF FailInBackground, Goto, TypeOK, Places
  <2>3. snap' \in [Runs -> Snaps \cup {NoSnap}] /\ pending' \in [Runs -> 0..Chunks]
    BY <1>0, <1>12, <2>1 DEF FailInBackground, Ended, TypeOK
  <2>4. broken' \in [Runs -> BOOLEAN] /\ retry' \in [Runs -> BOOLEAN]
    BY <1>0, <1>12, <2>1 DEF FailInBackground, Ended, TypeOK
  <2>5. status' \in [Jobs -> {"none", "pending", "running", "completed", "failed"}]
        /\ error' \in [Jobs -> BOOLEAN]
    <3>1. UNCHANGED <<status, error>> \/ Failed(j)
      BY <1>12 DEF FailInBackground, NotMarked
    <3>2. /\ status \in [Jobs -> {"none", "pending", "running", "completed", "failed"}]
          /\ error \in [Jobs -> BOOLEAN]
      BY <1>0 DEF TypeOK
    <3> QED
      BY <3>1, <3>2 DEF Failed
  <2>6. faults' \in 0..MaxFaults /\ had' \subseteq Faults
    BY <1>0, <1>12, FaultTyped DEF FailInBackground, NotMarked, TypeOK
  <2> QED
    BY <1>0, <1>12, <2>2, <2>3, <2>4, <2>5, <2>6 DEF FailInBackground, TypeOK, Places
<1>13. ASSUME NEW j \in Jobs, FailInWorker(j) PROVE TypeOK'
  <2> DEFINE r == <<"arq", j>>
  <2>1. r \in Runs
    BY RunsArePairs DEF Runners
  <2>2. at' \in [Runs -> Places]
    BY <1>0, <1>13, <2>1 DEF FailInWorker, Goto, TypeOK, Places
  <2>3. snap' \in [Runs -> Snaps \cup {NoSnap}] /\ pending' \in [Runs -> 0..Chunks]
    BY <1>0, <1>13, <2>1 DEF FailInWorker, Ended, TypeOK
  <2>4. broken' \in [Runs -> BOOLEAN] /\ retry' \in [Runs -> BOOLEAN]
    BY <1>0, <1>13, <2>1 DEF FailInWorker, Ended, TypeOK
  <2>5. status' \in [Jobs -> {"none", "pending", "running", "completed", "failed"}]
        /\ error' \in [Jobs -> BOOLEAN]
    <3>1. UNCHANGED <<status, error>> \/ Failed(j)
      BY <1>13 DEF FailInWorker, NotMarked
    <3>2. /\ status \in [Jobs -> {"none", "pending", "running", "completed", "failed"}]
          /\ error \in [Jobs -> BOOLEAN]
      BY <1>0 DEF TypeOK
    <3> QED
      BY <3>1, <3>2 DEF Failed
  <2>6. faults' \in 0..MaxFaults /\ had' \subseteq Faults
    BY <1>0, <1>13, FaultTyped DEF FailInWorker, NotMarked, TypeOK
  <2>7. queued' \in [Jobs -> {"no", "waiting", "active"}]
    BY <1>0, <1>13 DEF FailInWorker, TypeOK
  <2> QED
    BY <1>0, <1>13, <2>2, <2>3, <2>4, <2>5, <2>6, <2>7 DEF FailInWorker, TypeOK, Places
<1>14. ASSUME NEW j \in Jobs, Timeout(j) PROVE TypeOK'
  BY <1>0, <1>14, FaultTyped, VanishTyped DEF Places, Timeout, TypeOK
<1>15. ASSUME NEW r \in Runs, ServiceError(r) PROVE TypeOK'
  BY <1>0, <1>15, FaultTyped DEF ServiceError, Goto, TypeOK
<1>16. ASSUME NEW r \in Runs, DatabaseError(r) PROVE TypeOK'
  BY <1>0, <1>16, FaultTyped DEF DatabaseError, Goto, TypeOK
<1>17. CASE WorkerRestarts
  BY <1>0, <1>17, FaultTyped, VanishTyped DEF Places, WorkerRestarts, TypeOK
<1>18. CASE ApiRestarts
  BY <1>0, <1>18, FaultTyped, VanishTyped DEF Places, ApiRestarts, TypeOK
<1>19. ASSUME NEW s \in Snaps, DeleteSnapshot(s) PROVE TypeOK'
  BY <1>0, <1>19, FaultTyped DEF DeleteSnapshot, TypeOK
<1>20. CASE UNCHANGED vars
  BY <1>0, <1>20 DEF vars, TypeOK
<1> QED
  BY <1>1, <1>2, <1>3, <1>4, <1>5, <1>6, <1>7, <1>8, <1>9, <1>10, <1>11, <1>12, <1>13, <1>14,
     <1>15, <1>16, <1>17, <1>18, <1>19, <1>20, RunsArePairs
  DEF Next, Runner, Step

-----------------------------------------------------------------------------
(* Most steps leave the snapshots alone, and each run where it was or not
   filling one any more. *)
Stays(r) == UNCHANGED <<at[r], path[r], snap[r], pending[r]>>
Stops(r) == ~Filling(r)' /\ snap'[r] \in {NoSnap, snap[r]} /\ pending'[r] = 0

Quiet == UNCHANGED <<made, owner, rows>> /\ \A r \in Runs : Stays(r) \/ Stops(r)

(* The four steps that do something to a snapshot. *)
Fills(r) == CreateSnapshot(r) \/ InsertFast(r) \/ InsertChunk(r) \/ MarkCompleted(r)

LEMMA VanishStops ==
  ASSUME TypeOK, NEW S, Vanish(S)
  PROVE  \A r \in Runs : (r \notin S /\ UNCHANGED <<at[r], snap[r], pending[r]>>) \/ Stops(r)
BY DEF Vanish, TypeOK, Stops, Filling

LEMMA QuietOrFills ==
  ASSUME FillInv, [Next]_vars
  PROVE  Quiet \/ \E r \in Runs : Fills(r)
<1> USE DEF table, queue, session, snapshots, trouble
<1>t. TypeOK
  BY DEF FillInv
<1>0. /\ at \in [Runs -> Places] /\ path \in [Runs -> {"cache", "direct"}]
      /\ snap \in [Runs -> Snaps \cup {NoSnap}] /\ pending \in [Runs -> 0..Chunks]
      /\ broken \in [Runs -> BOOLEAN] /\ retry \in [Runs -> BOOLEAN]
  BY <1>t DEF TypeOK, Places
<1>p. \A r \in Runs : pending[r] = 0 \/ (Filling(r) /\ path[r] = "direct")
  BY <1>0 DEF RunsOwn, FillInv
<1>1. ASSUME UNCHANGED <<at, path, snap, pending, made, owner, rows>> PROVE Quiet
  BY <1>1 DEF Quiet, Stays
<1>8. ASSUME UNCHANGED <<made, owner, rows>>, NEW r \in Runs, Stops(r),
             \A q \in Runs \ {r} : Stays(q)
      PROVE  Quiet
  BY <1>8 DEF Quiet
<1>2. ASSUME NEW j \in Jobs, Schedule(j) \/ PickUp(j) \/ Finish(j) PROVE Quiet
  <2>1. UNCHANGED <<path, snap, pending, made, owner, rows>>
    BY <1>2 DEF Schedule, PickUp, Finish
  <2>2. \/ UNCHANGED at
        \/ \E k \in Runners, p \in {"begin", "idle"} :
             at[<<k, j>>] \in {"idle", "finish"} /\ at' = [at EXCEPT ![<<k, j>>] = p]
    BY <1>2 DEF Schedule, InBackground, PickUp, Finish, Goto, Runners, FillInv, NotEarly
  <2>3. CASE UNCHANGED at
    BY <1>1, <2>1, <2>3
  <2>4. CASE ~UNCHANGED at
    <3>1. PICK k \in Runners, p \in {"begin", "idle"} :
            at[<<k, j>>] \in {"idle", "finish"} /\ at' = [at EXCEPT ![<<k, j>>] = p]
      BY <2>2, <2>4
    <3>2. <<k, j>> \in Runs
      BY RunsArePairs
    <3>3. pending[<<k, j>>] = 0
      BY <1>p, <3>1, <3>2 DEF Filling
    <3>4. Stops(<<k, j>>)
      BY <1>0, <2>1, <3>1, <3>2, <3>3 DEF Stops, Filling
    <3>5. \A q \in Runs \ {<<k, j>>} : Stays(q)
      BY <1>0, <2>1, <3>1 DEF Stays
    <3> QED
      BY <1>8, <2>1, <3>2, <3>4, <3>5
  <2> QED
    BY <2>3, <2>4
<1>3. ASSUME NEW r \in Runs, Begin(r) \/ Read(r) PROVE Quiet
  <2>1. UNCHANGED <<snap, pending, made, owner, rows>>
    BY <1>3 DEF Begin, Read
  <2>2. at[r] \in {"begin", "read"} /\ \E p \in {"read", "create"} : at' = [at EXCEPT ![r] = p]
    BY <1>3 DEF Begin, Read, Goto
  <2>3. \A q \in Runs \ {r} : path'[q] = path[q]
    BY <1>0, <1>3 DEF Begin, Read
  <2>4. pending[r] = 0
    BY <1>p, <2>2 DEF Filling
  <2>5. Stops(r)
    BY <1>0, <2>1, <2>2, <2>4 DEF Stops, Filling
  <2>6. \A q \in Runs \ {r} : Stays(q)
    BY <1>0, <2>1, <2>2, <2>3 DEF Stays
  <2> QED
    BY <1>8, <2>1, <2>5, <2>6
<1>4. ASSUME NEW r \in Runs, SnapshotGone(r) \/ ServiceError(r) \/ DatabaseError(r) PROVE Quiet
  <2>1. UNCHANGED <<path, snap, made, owner, rows>> /\ at' = [at EXCEPT ![r] = "fail"]
    BY <1>4 DEF SnapshotGone, ServiceError, DatabaseError, Goto
  <2>2. pending' = [pending EXCEPT ![r] = 0]
    <3>1. CASE SnapshotGone(r) \/ DatabaseError(r)
      BY <3>1 DEF SnapshotGone, DatabaseError
    <3>2. CASE ServiceError(r)
      <4>1. pending[r] = 0 /\ pending' = pending
        BY <1>p, <3>2 DEF ServiceError
      <4> QED
        BY <1>0, <4>1
    <3> QED
      BY <1>4, <3>1, <3>2
  <2>3. Stops(r)
    BY <1>0, <2>1, <2>2 DEF Stops, Filling
  <2>4. \A q \in Runs \ {r} : Stays(q)
    BY <1>0, <2>1, <2>2 DEF Stays
  <2> QED
    BY <1>8, <2>1, <2>3, <2>4
<1>5. ASSUME NEW j \in Jobs, FailInBackground(j) \/ FailInWorker(j) PROVE Quiet
  <2>1. PICK k \in Runners, p \in {"idle", "finish"} :
          /\ at' = [at EXCEPT ![<<k, j>>] = p] /\ snap' = [snap EXCEPT ![<<k, j>>] = NoSnap]
          /\ pending' = [pending EXCEPT ![<<k, j>>] = 0]
    BY <1>5 DEF FailInBackground, FailInWorker, Goto, Ended, Runners
  <2>2. UNCHANGED <<path, made, owner, rows>>
    BY <1>5 DEF FailInBackground, FailInWorker
  <2>3. <<k, j>> \in Runs
    BY RunsArePairs
  <2>4. Stops(<<k, j>>)
    BY <1>0, <2>1, <2>3 DEF Stops, Filling
  <2>5. \A q \in Runs \ {<<k, j>>} : Stays(q)
    BY <1>0, <2>1, <2>2 DEF Stays
  <2> QED
    BY <1>8, <2>2, <2>3, <2>4, <2>5
<1>6. ASSUME NEW S, Vanish(S), UNCHANGED <<path, made, owner, rows>> PROVE Quiet
  BY <1>t, <1>6, VanishStops DEF Quiet, Stays
<1>7. ASSUME NEW j \in Jobs, Timeout(j) PROVE Quiet
  BY <1>6, <1>7 DEF Timeout
<1>9. CASE WorkerRestarts \/ ApiRestarts
  BY <1>6, <1>9 DEF WorkerRestarts, ApiRestarts
<1> QED
  BY <1>1, <1>2, <1>3, <1>4, <1>5, <1>7, <1>9, RunsArePairs
  DEF Next, vars, Runner, Step, CreateJob, DeleteSnapshot, Fills

LEMMA NotEarlyStep == FillInv /\ [Next]_vars => NotEarly'
<1> SUFFICES ASSUME FillInv, [Next]_vars
             PROVE  NotEarly'
  OBVIOUS
<1> USE DEF table, queue, session, snapshots, trouble
<1>0. /\ at \in [Runs -> Places] /\ request \in [Jobs -> {"new", "schedule", "done"}] /\ NotEarly
  BY DEF FillInv, TypeOK, Places
<1>1. ASSUME NEW j \in Jobs, CreateJob(j) PROVE NotEarly'
  BY <1>0, <1>1 DEF CreateJob, NotEarly
<1>2. ASSUME NEW j \in Jobs, Schedule(j) PROVE NotEarly'
  <2>1. request' = [request EXCEPT ![j] = "done"]
    BY <1>2 DEF Schedule
  <2>2. \A i \in Jobs \ {j} : at'[<<"bg", i>>] = at[<<"bg", i>>]
    BY <1>0, <1>2, RunsArePairs DEF Schedule, InBackground, Runners
  <2> QED
    BY <1>0, <2>1, <2>2 DEF NotEarly
<1>3. ASSUME UNCHANGED request, \A r \in Runs : at[r] = "idle" /\ r[1] = "bg" => at'[r] = "idle"
      PROVE NotEarly'
  BY <1>0, <1>3, RunsArePairs DEF NotEarly, Runners
<1>4. ASSUME NEW j \in Jobs, PickUp(j) \/ Finish(j) \/ FailInBackground(j) \/ FailInWorker(j)
      PROVE NotEarly'
  <2>1. UNCHANGED request
    BY <1>4 DEF PickUp, Finish, FailInBackground, FailInWorker
  <2>2. UNCHANGED at \/ \E p \in Places :
          \/ at' = [at EXCEPT ![<<"arq", j>>] = p]
          \/ at' = [at EXCEPT ![<<"bg", j>>] = "idle"]
    BY <1>4 DEF PickUp, Finish, FailInBackground, FailInWorker, Goto, Places
  <2>3. \A r \in Runs : at[r] = "idle" /\ r[1] = "bg" => at'[r] = "idle"
    BY <1>0, <2>2
  <2> QED
    BY <1>3, <2>1, <2>3
<1>5. ASSUME NEW r \in Runs, Step(r) \/ SnapshotGone(r) \/ ServiceError(r) \/ DatabaseError(r)
      PROVE NotEarly'
  <2>1. UNCHANGED request /\ at[r] # "idle"
    BY <1>5 DEF Step, Begin, Read, CreateSnapshot, InsertFast, InsertChunk, MarkCompleted,
                SnapshotGone, ServiceError, DatabaseError
  <2>2. \E p : at' = [at EXCEPT ![r] = p]
    BY <1>5 DEF Step, Begin, Read, CreateSnapshot, InsertFast, InsertChunk, MarkCompleted,
                SnapshotGone, ServiceError, DatabaseError, Goto
  <2>3. \A q \in Runs : at[q] = "idle" => at'[q] = "idle"
    BY <1>0, <2>1, <2>2
  <2> QED
    BY <1>3, <2>1, <2>3
<1>6. ASSUME NEW j \in Jobs, Timeout(j) PROVE NotEarly'
  BY <1>3, <1>6 DEF Timeout, Vanish
<1>7. CASE WorkerRestarts
  BY <1>3, <1>7 DEF WorkerRestarts, Vanish
<1>8. CASE ApiRestarts
  BY <1>0, <1>8, RunsArePairs DEF ApiRestarts, Vanish, NotEarly, Runners
<1>9. CASE UNCHANGED <<request, at>>
  BY <1>0, <1>9 DEF NotEarly
<1> QED
  BY <1>1, <1>2, <1>4, <1>5, <1>6, <1>7, <1>8, <1>9, RunsArePairs
  DEF Next, vars, Runner, DeleteSnapshot

(* The effect of the four steps on what the runs have and on the rows. *)
LEMMA CreateOwn ==
  ASSUME FillInv, NEW r \in Runs, CreateSnapshot(r)
  PROVE  RunsOwn' /\ RowsAddUp'
<1>0. /\ at \in [Runs -> Places] /\ snap \in [Runs -> Snaps \cup {NoSnap}]
      /\ made \in 0..MaxSnaps /\ owner \in [Snaps -> Jobs \cup {"none"}]
      /\ pending \in [Runs -> 0..Chunks] /\ rows \in [Snaps -> 0..Chunks]
      /\ RunsOwn /\ RowsAddUp
  BY DEF FillInv, TypeOK, Places
<1>1. /\ made + 1 \in Snaps /\ made' = made + 1 /\ made + 1 # NoSnap
      /\ at[r] = "create" /\ at' = [at EXCEPT ![r] = "insert"]
      /\ snap' = [snap EXCEPT ![r] = made + 1]
      /\ owner' = [owner EXCEPT ![made + 1] = r[2]]
      /\ UNCHANGED <<path, pending, rows>>
  BY <1>0 DEF CreateSnapshot, Goto, Snaps, NoSnap
<1>2. \A q \in Runs : snap[q] # made + 1
  BY <1>0, <1>1 DEF RunsOwn, Snaps
<1>3. pending[r] = 0
  BY <1>0, <1>1 DEF RunsOwn, Filling
<1>4. rows[made + 1] = 0
  BY <1>0, <1>1 DEF RowsAddUp, Snaps
<1>5. \A q \in Runs : (snap[q] # NoSnap => snap[q] \in 1..made /\ owner[snap[q]] = q[2])'
  BY <1>0, <1>1, <1>2 DEF RunsOwn, Snaps
<1>6. \A q \in Runs : (/\ Filling(q) => snap[q] # NoSnap
                       /\ pending[q] > 0 => Filling(q) /\ path[q] = "direct")'
  BY <1>0, <1>1, <1>3 DEF RunsOwn, Filling
<1>7. \A p, q \in Runs : (snap[p] = snap[q] /\ snap[p] # NoSnap => p = q)'
  BY <1>0, <1>1, <1>2 DEF RunsOwn
<1>8. \A q \in Runs : (/\ at[q] = "insert" => rows[snap[q]] + pending[q] < Chunks
                       /\ at[q] = "complete" => rows[snap[q]] + pending[q] = Chunks)'
  <2> TAKE q \in Runs
  <2>1. CASE q = r
    BY <1>0, <1>1, <1>3, <1>4, <2>1
  <2>2. CASE q # r
    BY <1>0, <1>1, <2>2 DEF RowsAddUp
  <2> QED
    BY <2>1, <2>2
<1>9. \A s \in Snaps : (s > made => rows[s] = 0)'
  BY <1>0, <1>1 DEF RowsAddUp, Snaps
<1> QED
  BY <1>5, <1>6, <1>7, <1>8, <1>9 DEF RunsOwn, RowsAddUp

(* A run only touches the rows of its own snapshot. *)
LEMMA InsertOwn ==
  ASSUME FillInv, NEW r \in Runs, InsertFast(r) \/ InsertChunk(r)
  PROVE  RunsOwn' /\ RowsAddUp'
<1>0. /\ at \in [Runs -> Places] /\ snap \in [Runs -> Snaps \cup {NoSnap}]
      /\ path \in [Runs -> {"cache", "direct"}] /\ made \in 0..MaxSnaps
      /\ pending \in [Runs -> 0..Chunks] /\ rows \in [Snaps -> 0..Chunks]
      /\ RunsOwn /\ RowsAddUp
  BY DEF FillInv, TypeOK, Places
<1>1. at[r] = "insert" /\ UNCHANGED <<made, owner, snap, path>>
  BY DEF InsertFast, InsertChunk, session
<1>2. /\ snap[r] \in Snaps /\ snap[r] \in 1..made /\ snap[r] # NoSnap
      /\ \A q \in Runs \ {r} : snap[q] # snap[r]
  BY <1>0, <1>1 DEF RunsOwn, Filling, NoSnap, Snaps
<1>3. \E a \in {"insert", "complete"} : at' = [at EXCEPT ![r] = a]
  BY DEF InsertFast, InsertChunk, Goto
<1>4. pending' = [pending EXCEPT ![r] = pending'[r]]
  BY <1>0 DEF InsertFast, InsertChunk, session
<1>5. rows' = [rows EXCEPT ![snap[r]] = rows'[snap[r]]]
  BY <1>0, <1>2 DEF InsertFast, InsertChunk
<1>6. /\ at'[r] = "insert" => rows'[snap[r]] + pending'[r] < Chunks
      /\ at'[r] = "complete" => rows'[snap[r]] + pending'[r] = Chunks
  <2>1. CASE InsertFast(r)
    <3>1. pending[r] = 0 /\ pending'[r] = pending[r] /\ at'[r] = "complete"
      BY <1>0, <2>1 DEF InsertFast, RunsOwn, Goto, session
    <3>2. rows'[snap[r]] = Chunks
      BY <1>0, <1>2, <2>1 DEF InsertFast
    <3> QED
      BY <3>1, <3>2
  <2>2. CASE InsertChunk(r)
    <3>1. rows[snap[r]] + pending[r] < Chunks
      BY <1>0, <1>1 DEF RowsAddUp
    <3>2. rows'[snap[r]] + pending'[r] = rows[snap[r]] + pending[r] + 1
      BY <1>0, <1>2, <2>2 DEF InsertChunk
    <3>3. at'[r] = IF rows[snap[r]] + pending[r] + 1 = Chunks THEN "complete" ELSE "insert"
      BY <1>0, <2>2 DEF InsertChunk, Goto
    <3>4. rows[snap[r]] + pending[r] \in Nat
      BY <1>0, <1>2
    <3>5. CASE rows[snap[r]] + pending[r] + 1 = Chunks
      BY <3>2, <3>3, <3>5
    <3>6. CASE rows[snap[r]] + pending[r] + 1 # Chunks
      <4>1. rows[snap[r]] + pending[r] + 1 < Chunks
        BY <3>1, <3>4, <3>6
      <4> QED
        BY <3>2, <3>3, <3>6, <4>1
    <3> QED
      BY <3>5, <3>6
  <2> QED
    BY <2>1, <2>2
<1>7. pending'[r] > 0 => path[r] = "direct"
  <2>1. CASE InsertFast(r)
    BY <1>0, <2>1 DEF InsertFast, RunsOwn, session
  <2>2. CASE InsertChunk(r)
    BY <2>2 DEF InsertChunk
  <2> QED
    BY <2>1, <2>2
<1>8. RunsOwn'
  <2>1. \A q \in Runs : (Filling(q) <=> Filling(q)')
    BY <1>0, <1>1, <1>3 DEF Filling
  <2>2. \A q \in Runs : (pending[q] > 0 => Filling(q) /\ path[q] = "direct")'
    BY <1>0, <1>1, <1>3, <1>4, <1>7, <2>1 DEF RunsOwn, Filling
  <2> QED
    BY <1>0, <1>1, <2>1, <2>2 DEF RunsOwn
<1>9. \A q \in Runs : (/\ at[q] = "insert" => rows[snap[q]] + pending[q] < Chunks
                       /\ at[q] = "complete" => rows[snap[q]] + pending[q] = Chunks)'
  <2> TAKE q \in Runs
  <2>1. CASE q = r
    BY <1>1, <1>6, <2>1
  <2>2. CASE q # r
    <3>1. at'[q] = at[q] /\ pending'[q] = pending[q] /\ snap[q] # snap[r]
      BY <1>0, <1>2, <1>3, <1>4, <2>2
    <3>2. CASE Filling(q)
      <4>1. snap[q] \in Snaps
        BY <1>0, <3>2 DEF RunsOwn, NoSnap
      <4>2. rows'[snap[q]] = rows[snap[q]]
        BY <1>0, <1>5, <3>1, <4>1
      <4> QED
        BY <1>0, <1>1, <3>1, <4>2 DEF RowsAddUp
    <3>3. CASE ~Filling(q)
      BY <3>1, <3>3 DEF Filling
    <3> QED
      BY <3>2, <3>3
  <2> QED
    BY <2>1, <2>2
<1>10. \A s \in Snaps : (s > made => rows[s] = 0)'
  <2> TAKE s \in Snaps
  <2>1. s > made => s # snap[r]
    BY <1>0, <1>2 DEF Snaps
  <2> QED
    BY <1>0, <1>1, <1>5, <2>1 DEF RowsAddUp
<1> QED
  BY <1>8, <1>9, <1>10 DEF RowsAddUp

LEMMA CompleteOwn ==
  ASSUME FillInv, NEW r \in Runs, MarkCompleted(r)
  PROVE  RunsOwn' /\ RowsAddUp' /\ rows'[snap[r]] = Chunks
<1>0. /\ at \in [Runs -> Places] /\ snap \in [Runs -> Snaps \cup {NoSnap}]
      /\ path \in [Runs -> {"cache", "direct"}] /\ made \in 0..MaxSnaps
      /\ pending \in [Runs -> 0..Chunks] /\ rows \in [Snaps -> 0..Chunks]
      /\ RunsOwn /\ RowsAddUp
  BY DEF FillInv, TypeOK, Places
<1>1. /\ at[r] = "complete" /\ UNCHANGED <<made, owner, path>>
      /\ snap' = [snap EXCEPT ![r] = NoSnap] /\ pending' = [pending EXCEPT ![r] = 0]
      /\ \E a \in {"finish", "idle"} : at' = [at EXCEPT ![r] = a]
  BY DEF MarkCompleted, CommitRows, Goto
<1>2. /\ snap[r] \in Snaps /\ snap[r] \in 1..made /\ snap[r] # NoSnap
      /\ \A q \in Runs \ {r} : snap[q] # snap[r]
  BY <1>0, <1>1 DEF RunsOwn, Filling, NoSnap, Snaps
<1>3. rows[snap[r]] + pending[r] = Chunks /\ rows[snap[r]] \in Nat /\ pending[r] \in Nat
  BY <1>0, <1>1, <1>2 DEF RowsAddUp
<1>4. rows'[snap[r]] = Chunks /\ \A s \in Snaps \ {snap[r]} : rows'[s] = rows[s]
  <2>1. rows' = IF pending[r] > 0 THEN [rows EXCEPT ![snap[r]] = @ + pending[r]] ELSE rows
    BY DEF MarkCompleted, CommitRows
  <2>2. CASE pending[r] > 0
    BY <1>0, <1>2, <1>3, <2>1, <2>2
  <2>3. CASE pending[r] = 0
    BY <1>3, <2>1, <2>3
  <2> QED
    BY <1>3, <2>2, <2>3
<1>5. RunsOwn'
  <2>1. ~Filling(r)' /\ \A q \in Runs \ {r} : Filling(q)' <=> Filling(q)
    BY <1>0, <1>1 DEF Filling
  <2>2. \A q \in Runs : (snap[q] # NoSnap => snap[q] \in 1..made /\ owner[snap[q]] = q[2])'
    BY <1>0, <1>1 DEF RunsOwn
  <2>3. \A q \in Runs : (/\ Filling(q) => snap[q] # NoSnap
                         /\ pending[q] > 0 => Filling(q) /\ path[q] = "direct")'
    BY <1>0, <1>1, <2>1 DEF RunsOwn
  <2>4. \A p, q \in Runs : (snap[p] = snap[q] /\ snap[p] # NoSnap => p = q)'
    BY <1>0, <1>1 DEF RunsOwn
  <2> QED
    BY <2>2, <2>3, <2>4 DEF RunsOwn
<1>6. \A q \in Runs : (/\ at[q] = "insert" => rows[snap[q]] + pending[q] < Chunks
                       /\ at[q] = "complete" => rows[snap[q]] + pending[q] = Chunks)'
  <2> TAKE q \in Runs
  <2>1. CASE q = r
    BY <1>0, <1>1, <2>1
  <2>2. CASE q # r
    <3>1. at'[q] = at[q] /\ pending'[q] = pending[q] /\ snap'[q] = snap[q] /\ snap[q] # snap[r]
      BY <1>0, <1>1, <1>2, <2>2
    <3>2. Filling(q) => snap[q] \in Snaps /\ rows'[snap[q]] = rows[snap[q]]
      BY <1>0, <1>4, <3>1 DEF RunsOwn, NoSnap
    <3> QED
      BY <1>0, <3>1, <3>2 DEF RowsAddUp, Filling
  <2> QED
    BY <2>1, <2>2
<1>7. \A s \in Snaps : (s > made => rows[s] = 0)'
  <2> TAKE s \in Snaps
  <2>1. s > made => s # snap[r]
    BY <1>0, <1>2 DEF Snaps
  <2> QED
    BY <1>0, <1>1, <1>4, <2>1 DEF RowsAddUp
<1> QED
  BY <1>4, <1>5, <1>6, <1>7 DEF RowsAddUp

LEMMA QuietOwn ==
  ASSUME FillInv, Quiet
  PROVE  RunsOwn' /\ RowsAddUp'
<1>0. /\ at \in [Runs -> Places] /\ snap \in [Runs -> Snaps \cup {NoSnap}]
      /\ pending \in [Runs -> 0..Chunks] /\ RunsOwn /\ RowsAddUp
  BY DEF FillInv, TypeOK, Places
<1>1. UNCHANGED <<made, owner, rows>> /\ \A r \in Runs : Stays(r) \/ Stops(r)
  BY DEF Quiet
<1>2. \A q \in Runs : snap'[q] \in {NoSnap, snap[q]}
  BY <1>1 DEF Stays, Stops
<1>3. RunsOwn'
  <2>1. \A q \in Runs : (snap[q] # NoSnap => snap[q] \in 1..made /\ owner[snap[q]] = q[2])'
    BY <1>0, <1>1, <1>2 DEF RunsOwn
  <2>2. \A q \in Runs : (/\ Filling(q) => snap[q] # NoSnap
                         /\ pending[q] > 0 => Filling(q) /\ path[q] = "direct")'
    <3> TAKE q \in Runs
    <3>1. CASE Stays(q)
      BY <1>0, <3>1 DEF RunsOwn, Stays, Filling
    <3>2. CASE Stops(q)
      BY <3>2 DEF Stops
    <3> QED
      BY <1>1, <3>1, <3>2
  <2>3. \A p, q \in Runs : (snap[p] = snap[q] /\ snap[p] # NoSnap => p = q)'
    BY <1>0, <1>2 DEF RunsOwn
  <2> QED
    BY <2>1, <2>2, <2>3 DEF RunsOwn
<1>4. RowsAddUp'
  <2>1. \A q \in Runs : (/\ at[q] = "insert" => rows[snap[q]] + pending[q] < Chunks
                         /\ at[q] = "complete" => rows[snap[q]] + pending[q] = Chunks)'
    <3> TAKE q \in Runs
    <3>1. CASE Stays(q)
      BY <1>0, <1>1, <3>1 DEF RowsAddUp, Stays
    <3>2. CASE Stops(q)
      BY <3>2 DEF Stops, Filling
    <3> QED
      BY <1>1, <3>1, <3>2
  <2> QED
    BY <1>0, <1>1, <2>1 DEF RowsAddUp
<1> QED
  BY <1>3, <1>4

LEMMA FillStep == FillInv /\ [Next]_vars => FillInv'
<1> SUFFICES ASSUME FillInv, [Next]_vars
             PROVE  FillInv'
  OBVIOUS
<1>1. RunsOwn' /\ RowsAddUp'
  BY QuietOrFills, QuietOwn, CreateOwn, InsertOwn, CompleteOwn DEF Fills
<1> QED
  BY <1>1, TypeStep, NotEarlyStep DEF FillInv

LEMMA FillInit == Init => FillInv
<1> SUFFICES ASSUME Init
             PROVE  FillInv
  OBVIOUS
<1>1. TypeOK
  BY DEF Init, TypeOK, NoSnap
<1>2. RunsOwn
  BY DEF Init, RunsOwn, Filling
<1>3. RowsAddUp
  BY DEF Init, RowsAddUp
<1>4. NotEarly
  BY RunsArePairs DEF Init, NotEarly, Runners
<1> QED
  BY <1>1, <1>2, <1>3, <1>4 DEF FillInv

(* Every variable keeps its type; in particular neither the chunks of a
   snapshot nor the tries of a job exceed their bounds, which needs that the
   committed and the pending chunks of a run add up. *)
THEOREM TypeCorrect == Spec => []TypeOK
<1>1. FillInv => TypeOK
  BY DEF FillInv
<1> QED
  BY <1>1, FillInit, FillStep, PTL DEF Spec

-----------------------------------------------------------------------------
(* A snapshot keeps its job, and what is whole stays whole. *)
LEMMA WholeStays ==
  ASSUME FillInv, [Next]_vars
  PROVE  /\ made' \in Nat /\ made <= made'
         /\ \A s \in 1..made : s \in Snaps /\ owner'[s] = owner[s] /\ (Whole(s) => Whole(s)')
<1>0. /\ made \in 0..MaxSnaps /\ made \in Nat /\ \A s \in 1..made : s \in Snaps
      /\ owner \in [Snaps -> Jobs \cup {"none"}] /\ rows \in [Snaps -> 0..Chunks]
  BY DEF FillInv, TypeOK, Snaps
<1>1. CASE Quiet
  BY <1>0, <1>1 DEF Quiet, Whole
<1>2. ASSUME NEW r \in Runs, CreateSnapshot(r)
      PROVE  /\ made' \in Nat /\ made <= made' /\ UNCHANGED rows
             /\ \A s \in 1..made : owner'[s] = owner[s]
  BY <1>0, <1>2 DEF CreateSnapshot
<1>3. ASSUME NEW r \in Runs, InsertFast(r) \/ InsertChunk(r)
      PROVE  UNCHANGED <<made, owner>> /\ \A s \in Snaps : Whole(s) => Whole(s)'
  <2>1. UNCHANGED <<made, owner>> /\ at[r] = "insert"
    BY <1>3 DEF InsertFast, InsertChunk
  <2>2. rows[snap[r]] + pending[r] < Chunks /\ snap[r] \in Snaps /\ pending[r] \in Nat
    BY <1>0, <2>1 DEF FillInv, RowsAddUp, RunsOwn, Filling, TypeOK, NoSnap
  <2>3. ~Whole(snap[r])
    BY <1>0, <2>2 DEF Whole
  <2>4. \A s \in Snaps : s # snap[r] => rows'[s] = rows[s]
    BY <1>0, <1>3 DEF InsertFast, InsertChunk
  <2> QED
    BY <2>1, <2>3, <2>4 DEF Whole
<1>4. ASSUME NEW r \in Runs, MarkCompleted(r)
      PROVE  UNCHANGED <<made, owner>> /\ \A s \in Snaps : Whole(s) => Whole(s)'
  <2>1. rows'[snap[r]] = Chunks
    BY <1>4, CompleteOwn
  <2>2. \A s \in Snaps : s # snap[r] => rows'[s] = rows[s]
    BY <1>0, <1>4 DEF MarkCompleted, CommitRows
  <2> QED
    BY <1>4, <2>1, <2>2 DEF MarkCompleted, Whole
<1> QED
  BY <1>0, <1>1, <1>2, <1>3, <1>4, QuietOrFills DEF Fills, Whole

(* Nothing but the end of a run completes a job. *)
LEMMA OnlyRunsComplete ==
  ASSUME FillInv, [Next]_vars, NEW j \in Jobs, status'[j] = "completed"
  PROVE  \/ status[j] = "completed" /\ result'[j] = result[j]
         \/ \E r \in Runs : MarkCompleted(r) /\ r[2] = j
<1> USE DEF table, queue, session, snapshots, trouble
<1>0. status \in [Jobs -> {"none", "pending", "running", "completed", "failed"}]
      /\ result \in [Jobs -> Snaps \cup {NoSnap}]
  BY DEF FillInv, TypeOK
<1>1. CASE UNCHANGED <<status, result>>
  BY <1>1
<1>2. ASSUME NEW i \in Jobs, NEW p \in {"pending", "running", "failed"},
             status' = [status EXCEPT ![i] = p], UNCHANGED result
      PROVE  status[j] = "completed" /\ result'[j] = result[j]
  BY <1>0, <1>2
<1>3. ASSUME NEW i \in Jobs, CreateJob(i) \/ FailInBackground(i) \/ FailInWorker(i)
      PROVE  status[j] = "completed" /\ result'[j] = result[j]
  <2>1. UNCHANGED result
    BY <1>3 DEF CreateJob, FailInBackground, FailInWorker
  <2>2. UNCHANGED status \/ \E p \in {"pending", "failed"} : status' = [status EXCEPT ![i] = p]
    BY <1>3 DEF CreateJob, FailInBackground, FailInWorker, Failed, NotMarked
  <2> QED
    BY <1>2, <2>1, <2>2
<1>4. ASSUME NEW r \in Runs, Begin(r)
      PROVE  status[j] = "completed" /\ result'[j] = result[j]
  BY <1>2, <1>4, RunsArePairs DEF Begin
<1>5. ASSUME NEW r \in Runs, MarkCompleted(r), r[2] # j
      PROVE  status[j] = "completed" /\ result'[j] = result[j]
  BY <1>0, <1>5, RunsArePairs DEF MarkCompleted
<1>6. ASSUME NEW r \in Runs, \/ Read(r) \/ CreateSnapshot(r) \/ InsertFast(r) \/ InsertChunk(r)
                            \/ SnapshotGone(r) \/ ServiceError(r) \/ DatabaseError(r)
      PROVE  UNCHANGED <<status, result>>
  BY <1>6 DEF Read, CreateSnapshot, InsertFast, InsertChunk, SnapshotGone, ServiceError,
              DatabaseError
<1>7. ASSUME NEW i \in Jobs, Schedule(i) \/ PickUp(i) \/ Finish(i) \/ Timeout(i)
      PROVE  UNCHANGED <<status, result>>
  BY <1>7 DEF Schedule, PickUp, Finish, Timeout
<1>8. ASSUME WorkerRestarts \/ ApiRestarts \/ (\E s \in Snaps : DeleteSnapshot(s)) \/ UNCHANGED vars
      PROVE  UNCHANGED <<status, result>>
  BY <1>8 DEF WorkerRestarts, ApiRestarts, DeleteSnapshot, vars
<1> QED
  BY <1>1, <1>3, <1>4, <1>5, <1>6, <1>7, <1>8, RunsArePairs DEF Next, Runner, Step

(* What a completed job names was whole when the job was marked, and still
   is: the rows of a snapshot never become fewer. *)
ResultWhole ==
  \A j \in Jobs : status[j] = "completed" =>
    result[j] \in 1..made /\ owner[result[j]] = j /\ Whole(result[j])

LEMMA ResultStep == FillInv /\ ResultWhole /\ [Next]_vars => ResultWhole'
<1> SUFFICES ASSUME FillInv, ResultWhole, [Next]_vars,
                    NEW j \in Jobs, status'[j] = "completed"
             PROVE  /\ result'[j] \in 1..made' /\ owner'[result'[j]] = j
                    /\ rows'[result'[j]] = Chunks
  BY DEF ResultWhole, Whole
<1>0. made \in Nat /\ made' \in Nat /\ made <= made'
  BY WholeStays DEF FillInv, TypeOK
<1>1. CASE status[j] = "completed" /\ result'[j] = result[j]
  <2>1. result[j] \in 1..made /\ owner[result[j]] = j /\ Whole(result[j])
    BY <1>1 DEF ResultWhole
  <2>2. owner'[result[j]] = j /\ rows'[result[j]] = Chunks
    BY <2>1, WholeStays DEF Whole
  <2> QED
    BY <1>0, <1>1, <2>1, <2>2
<1>2. ASSUME NEW r \in Runs, MarkCompleted(r), r[2] = j
      PROVE  /\ result'[j] = snap[r] /\ snap[r] \in 1..made
             /\ owner'[snap[r]] = j /\ rows'[snap[r]] = Chunks
  <2>1. result'[j] = snap[r] /\ UNCHANGED owner
    BY <1>2 DEF MarkCompleted, FillInv, TypeOK
  <2>2. snap[r] \in 1..made /\ owner[snap[r]] = j
    BY <1>2 DEF MarkCompleted, FillInv, RunsOwn, Filling
  <2> QED
    BY <1>2, <2>1, <2>2, CompleteOwn
<1> QED
  BY <1>0, <1>1, <1>2, OnlyRunsComplete

(* A completed job names a snapshot of its own with all its values, for any
   number of failures, retries, double runs and restarts. *)
THEOREM CompletedSnapshotsAreWhole == Spec => []CompletedIsWhole
<1>1. Init => FillInv /\ ResultWhole
  BY FillInit DEF Init, ResultWhole
<1>2. FillInv /\ ResultWhole /\ [Next]_vars => (FillInv /\ ResultWhole)'
  BY FillStep, ResultStep
<1>3. FillInv /\ ResultWhole => CompletedIsWhole
  BY DEF ResultWhole, CompletedIsWhole
<1> QED
  BY <1>1, <1>2, <1>3, PTL DEF Spec

-----------------------------------------------------------------------------
(* Unless a job is doubled, or its last commit fails, ... *)
NoDouble == had \cap {"worker", "enqueue", "database"} = {}

(* ... it has one run at a time, in the worker or in the background ... *)
OneRunner ==
  \A j \in Jobs :
    /\ at[<<"arq", j>>] # "idle" <=> queued[j] = "active"
    /\ request[j] # "done" => queued[j] = "no" /\ at[<<"bg", j>>] = "idle"
    /\ at[<<"bg", j>>] # "idle" => queued[j] = "no"

(* ... and once that has made a whole snapshot, there is no other run. *)
Over(j) ==
  /\ request[j] = "done" /\ at[<<"bg", j>>] = "idle"
  /\ queued[j] = "no" \/ at[<<"arq", j>>] = "finish"

Completing(s) == \E r \in Runs : at[r] = "complete" /\ snap[r] = s

OnceWhole ==
  /\ \A s \in 1..made : owner[s] \in Jobs
  /\ \A s \in 1..made : Whole(s) => Over(owner[s]) \/ Completing(s)
  /\ \A s, t \in 1..made : owner[s] = owner[t] /\ Whole(s) /\ Whole(t) => s = t

Once == NoDouble => OneRunner /\ OnceWhole

LEMMA HistoryGrows == [Next]_vars /\ NoDouble' => NoDouble
<1> SUFFICES ASSUME [Next]_vars
             PROVE  had \subseteq had'
  BY DEF NoDouble
<1> USE DEF trouble
<1>1. ASSUME NEW kind, Fault(kind) PROVE had \subseteq had'
  BY <1>1 DEF Fault
<1>2. ASSUME NEW r \in Runs, Step(r) \/ SnapshotGone(r) PROVE UNCHANGED had
  BY <1>2 DEF Step, Begin, Read, CreateSnapshot, InsertFast, InsertChunk, MarkCompleted, SnapshotGone
<1>3. ASSUME NEW j \in Jobs, CreateJob(j) \/ PickUp(j) \/ Finish(j) PROVE UNCHANGED had
  BY <1>3 DEF CreateJob, PickUp, Finish
<1>4. ASSUME NEW j \in Jobs, Schedule(j) \/ FailInBackground(j) \/ FailInWorker(j)
      PROVE  had \subseteq had'
  BY <1>1, <1>4 DEF Schedule, FailInBackground, FailInWorker, NotMarked
<1>5. ASSUME NEW r \in Runs, ServiceError(r) \/ DatabaseError(r) PROVE had \subseteq had'
  BY <1>1, <1>5 DEF ServiceError, DatabaseError
<1>6. ASSUME NEW j \in Jobs, Timeout(j) PROVE had \subseteq had'
  BY <1>1, <1>6 DEF Timeout
<1>7. CASE WorkerRestarts \/ ApiRestarts \/ \E s \in Snaps : DeleteSnapshot(s)
  BY <1>1, <1>7 DEF WorkerRestarts, ApiRestarts, DeleteSnapshot
<1>8. CASE UNCHANGED vars
  BY <1>8 DEF vars
<1> QED
  BY <1>2, <1>3, <1>4, <1>5, <1>6, <1>7, <1>8, RunsArePairs DEF Next, Runner

(* Which faults there were not, when NoDouble still holds. *)
LEMMA NotDoubled ==
  ASSUME NoDouble'
  PROVE  ~Fault("worker") /\ ~Fault("enqueue") /\ ~Fault("database")
BY DEF NoDouble, Fault

(* How far a step moves the runs of one job, if nothing is doubled. *)
Moves(j) ==
  LET arq == <<"arq", j>>
      bg == <<"bg", j>>
  IN
  \/ /\ UNCHANGED <<request[j], queued[j], at[arq], at[bg]>>
     /\ at[arq] = "complete" => UNCHANGED snap[arq]
     /\ at[bg] = "complete" => UNCHANGED snap[bg]
  \* the handler of the POST
  \/ /\ request[j] # "done" /\ request'[j] # "done"
     /\ UNCHANGED <<queued[j], at[arq], at[bg]>>
  \/ /\ request[j] # "done" /\ request'[j] = "done" /\ UNCHANGED at[arq]
     /\ \/ UNCHANGED <<queued[j], at[bg]>>
        \/ queued'[j] = "waiting" /\ UNCHANGED at[bg]
        \/ at'[bg] # "idle" /\ UNCHANGED queued[j]
  \* the queue
  \/ /\ UNCHANGED <<request[j], at[bg]>>
     /\ queued[j] = "waiting" /\ at[arq] = "idle"
     /\ \/ queued'[j] = "active" /\ at'[arq] # "idle"
        \/ queued'[j] = "no" /\ at'[arq] = "idle"
  \/ /\ UNCHANGED <<request[j], at[bg]>>
     /\ at[arq] # "idle" /\ at'[arq] = "idle" /\ queued'[j] = "no"
  \/ /\ UNCHANGED <<request[j], at[bg]>>
     /\ at[arq] = "fail" /\ at'[arq] = "idle" /\ queued'[j] = "waiting"
  \* a run goes on, or one in the background is over
  \/ /\ UNCHANGED <<request[j], queued[j], at[bg]>>
     /\ at[arq] \notin {"idle", "finish"} /\ at'[arq] # "idle"
     /\ at[arq] = "complete" => at'[arq] = "finish"
  \/ /\ UNCHANGED <<request[j], queued[j], at[arq]>>
     /\ at[bg] # "idle"
     /\ at[bg] = "complete" => at'[bg] = "idle"

LEMMA StepMoves ==
  ASSUME FillInv, OneRunner, [Next]_vars, NoDouble', NEW j \in Jobs
  PROVE  Moves(j)
<1> DEFINE arq == <<"arq", j>>
           bg == <<"bg", j>>
<1> USE DEF table, queue, session, snapshots, trouble
<1>0. /\ at \in [Runs -> Places] /\ request \in [Jobs -> {"new", "schedule", "done"}]
      /\ queued \in [Jobs -> {"no", "waiting", "active"}]
      /\ snap \in [Runs -> Snaps \cup {NoSnap}] /\ retry \in [Runs -> BOOLEAN]
      /\ arq \in Runs /\ bg \in Runs /\ arq # bg
  BY RunsArePairs DEF FillInv, TypeOK, Places, Runners
<1>1. ASSUME UNCHANGED <<request[j], queued[j], at[arq], at[bg], snap[arq], snap[bg]>>
      PROVE  Moves(j)
  BY <1>1 DEF Moves
<1>2. CASE CreateJob(j)
  <2>1. /\ request[j] = "new" /\ request'[j] = "schedule"
        /\ UNCHANGED <<queued, at>>
    BY <1>0, <1>2 DEF CreateJob
  <2> QED
    BY <2>1 DEF Moves
<1>3. CASE Schedule(j)
  <2>1. request[j] # "done" /\ request'[j] = "done" /\ ~Fault("enqueue")
    BY <1>0, <1>3, NotDoubled DEF Schedule
  <2>2. CASE queued' = [queued EXCEPT ![j] = "waiting"] /\ UNCHANGED at
    BY <1>0, <2>1, <2>2 DEF Moves
  <2>3. CASE at' = [at EXCEPT ![bg] = "begin"] /\ UNCHANGED queued
    BY <1>0, <2>1, <2>3 DEF Moves
  <2> QED
    BY <1>3, <2>1, <2>2, <2>3 DEF Schedule, InBackground
<1>4. CASE PickUp(j)
  <2>1. queued[j] = "waiting" /\ at[arq] = "idle" /\ UNCHANGED request
    BY <1>4 DEF PickUp
  <2>2. CASE queued' = [queued EXCEPT ![j] = "active"] /\ at' = [at EXCEPT ![arq] = "begin"]
    BY <1>0, <2>1, <2>2 DEF Moves
  <2>3. CASE queued' = [queued EXCEPT ![j] = "no"] /\ UNCHANGED at
    BY <1>0, <2>1, <2>3 DEF Moves
  <2> QED
    BY <1>4, <2>2, <2>3 DEF PickUp
<1>5. CASE Finish(j)
  BY <1>0, <1>5 DEF Finish, Goto, Moves
<1>6. CASE Timeout(j)
  <2>1. at[arq] # "idle" /\ at'[arq] = "idle" /\ at'[bg] = at[bg] /\ UNCHANGED request
    BY <1>0, <1>6 DEF Timeout, Vanish
  <2>2. queued'[j] = "no"
    BY <1>0, <1>6 DEF Timeout
  <2> QED
    BY <2>1, <2>2 DEF Moves
<1>7. CASE FailInWorker(j)
  <2>1. at[arq] = "fail" /\ UNCHANGED request
    BY <1>7 DEF FailInWorker
  <2>2. CASE retry[arq]
    <3>1. at'[arq] = "idle" /\ at'[bg] = at[bg]
      BY <1>0, <1>7, <2>2 DEF FailInWorker, Goto
    <3>2. queued'[j] = "waiting"
      BY <1>0, <1>7, <2>2 DEF FailInWorker
    <3> QED
      BY <2>1, <3>1, <3>2 DEF Moves
  <2>3. CASE ~retry[arq]
    <3>1. at'[arq] = "finish" /\ at'[bg] = at[bg]
      BY <1>0, <1>7, <2>3 DEF FailInWorker, Goto
    <3>2. queued'[j] = queued[j]
      BY <1>0, <1>7, <2>3 DEF FailInWorker
    <3> QED
      BY <2>1, <3>1, <3>2 DEF Moves
  <2> QED
    BY <2>2, <2>3
<1>8. CASE FailInBackground(j)
  <2>1. at[bg] = "fail" /\ UNCHANGED <<request, queued>> /\ at' = [at EXCEPT ![bg] = "idle"]
    BY <1>8 DEF FailInBackground, Goto
  <2> QED
    BY <1>0, <2>1 DEF Moves
<1>9. ASSUME NEW r \in Runs, r[2] = j,
             Step(r) \/ SnapshotGone(r) \/ ServiceError(r)
      PROVE  Moves(j)
  <2>1. UNCHANGED <<request, queued>> /\ at[r] \notin {"idle", "finish", "fail"}
    BY <1>9 DEF Step, Begin, Read, CreateSnapshot, InsertFast, InsertChunk, MarkCompleted,
                SnapshotGone, ServiceError
  <2>2. PICK p \in Places : /\ at' = [at EXCEPT ![r] = p]
                            /\ p = "idle" => r[1] # "arq"
                            /\ at[r] = "complete" => p = IF r[1] = "arq" THEN "finish" ELSE "idle"
    BY <1>9 DEF Step, Begin, Read, CreateSnapshot, InsertFast, InsertChunk, MarkCompleted,
                SnapshotGone, ServiceError, Goto, Places
  <2>3. CASE r = arq
    BY <1>0, <2>1, <2>2, <2>3 DEF Moves
  <2>4. CASE r = bg
    BY <1>0, <2>1, <2>2, <2>4 DEF Moves
  <2> QED
    BY <1>9, <2>3, <2>4, RunsArePairs DEF Runners
<1>10. CASE ApiRestarts
  <2>1. /\ UNCHANGED queued /\ at'[arq] = at[arq] /\ at'[bg] = "idle"
        /\ snap'[arq] = snap[arq]
        /\ request'[j] = IF request[j] = "schedule" THEN "done" ELSE request[j]
    BY <1>0, <1>10 DEF ApiRestarts, Vanish
  <2>2. CASE at[bg] # "idle"
    <3>1. request[j] = "done"
      BY <2>2 DEF FillInv, NotEarly
    <3> QED
      BY <2>1, <2>2, <3>1 DEF Moves
  <2>3. CASE at[bg] = "idle" /\ request[j] # "done"
    <3>1. request'[j] # "done" \/ request'[j] = "done"
      OBVIOUS
    <3> QED
      BY <2>1, <2>3, <3>1 DEF Moves
  <2>4. CASE at[bg] = "idle" /\ request[j] = "done"
    BY <2>1, <2>4 DEF Moves
  <2> QED
    BY <1>0, <2>2, <2>3, <2>4
<1>11. ASSUME UNCHANGED <<request, queued, at, snap>> PROVE Moves(j)
  BY <1>1, <1>11
<1>12. ASSUME NEW i \in Jobs \ {j}, CreateJob(i) \/ Schedule(i) PROVE Moves(j)
  <2>1. UNCHANGED snap /\ request'[j] = request[j]
    BY <1>0, <1>12 DEF CreateJob, Schedule
  <2>2. queued'[j] = queued[j]
    BY <1>0, <1>12 DEF CreateJob, Schedule
  <2>3. at'[arq] = at[arq] /\ at'[bg] = at[bg]
    BY <1>0, <1>12 DEF CreateJob, Schedule, InBackground
  <2> QED
    BY <1>1, <2>1, <2>2, <2>3
<1>13. ASSUME NEW i \in Jobs \ {j},
              PickUp(i) \/ Finish(i) \/ FailInWorker(i) \/ FailInBackground(i) \/ Timeout(i)
       PROVE  Moves(j)
  <2>1. UNCHANGED request
    BY <1>13 DEF PickUp, Finish, FailInWorker, FailInBackground, Timeout
  <2>2. queued'[j] = queued[j]
    BY <1>0, <1>13 DEF PickUp, Finish, FailInWorker, FailInBackground, Timeout
  <2>3. \A q \in {arq, bg} : q \notin {<<"arq", i>>, <<"bg", i>>}
    OBVIOUS
  <2>4. CASE Timeout(i)
    <3>1. at'[arq] = at[arq] /\ at'[bg] = at[bg] /\ snap'[arq] = snap[arq] /\ snap'[bg] = snap[bg]
      BY <1>0, <2>3, <2>4 DEF Timeout, Vanish
    <3> QED
      BY <1>1, <2>1, <2>2, <3>1
  <2>5. CASE ~Timeout(i)
    <3>1. UNCHANGED at \/ \E q \in {<<"arq", i>>, <<"bg", i>>} : \E p : at' = [at EXCEPT ![q] = p]
      BY <1>13, <2>5 DEF PickUp, Finish, FailInWorker, FailInBackground, Goto
    <3>2. UNCHANGED snap \/ \E q \in {<<"arq", i>>, <<"bg", i>>} : \E p : snap' = [snap EXCEPT ![q] = p]
      BY <1>13, <2>5 DEF PickUp, Finish, FailInWorker, FailInBackground, Ended, session
    <3>3. at'[arq] = at[arq] /\ at'[bg] = at[bg]
      BY <1>0, <2>3, <3>1
    <3>4. snap'[arq] = snap[arq] /\ snap'[bg] = snap[bg]
      BY <1>0, <2>3, <3>2
    <3> QED
      BY <1>1, <2>1, <2>2, <3>3, <3>4
  <2> QED
    BY <2>4, <2>5
<1>14. ASSUME NEW r \in Runs, r[2] # j, Step(r) \/ SnapshotGone(r) \/ ServiceError(r)
       PROVE  Moves(j)
  <2>1. UNCHANGED <<request, queued>>
    BY <1>14 DEF Step, Begin, Read, CreateSnapshot, InsertFast, InsertChunk, MarkCompleted,
                 SnapshotGone, ServiceError
  <2>2. (\E p : at' = [at EXCEPT ![r] = p]) /\ (UNCHANGED snap \/ \E p : snap' = [snap EXCEPT ![r] = p])
    BY <1>14 DEF Step, Begin, Read, CreateSnapshot, InsertFast, InsertChunk, MarkCompleted,
                 SnapshotGone, ServiceError, Goto
  <2>3. r # arq /\ r # bg
    BY <1>14
  <2> QED
    BY <1>0, <1>1, <2>1, <2>2, <2>3
<1>15. ASSUME NEW r \in Runs PROVE ~DatabaseError(r)
  BY NotDoubled DEF DatabaseError
<1>16. ~WorkerRestarts
  BY NotDoubled DEF WorkerRestarts
<1>17. ASSUME NEW s \in Snaps, DeleteSnapshot(s) PROVE Moves(j)
  BY <1>11, <1>17 DEF DeleteSnapshot
<1>18. CASE UNCHANGED vars
  BY <1>11, <1>18 DEF vars
<1>19. ASSUME NEW i \in Jobs, CreateJob(i) \/ Schedule(i) \/ PickUp(i) \/ Finish(i)
                              \/ FailInWorker(i) \/ FailInBackground(i) \/ Timeout(i)
       PROVE  Moves(j)
  BY <1>2, <1>3, <1>4, <1>5, <1>6, <1>7, <1>8, <1>12, <1>13, <1>19
<1>20. ASSUME NEW r \in Runs, Step(r) \/ SnapshotGone(r) \/ ServiceError(r) PROVE Moves(j)
  BY <1>9, <1>14, <1>20
<1> QED
  BY <1>10, <1>15, <1>16, <1>17, <1>18, <1>19, <1>20, RunsArePairs DEF Next, Runner

LEMMA OneRunnerStep == FillInv /\ OneRunner /\ [Next]_vars /\ NoDouble' => OneRunner'
<1> SUFFICES ASSUME FillInv, OneRunner, [Next]_vars, NoDouble', NEW j \in Jobs
             PROVE  /\ at'[<<"arq", j>>] # "idle" <=> queued'[j] = "active"
                    /\ request'[j] # "done" => queued'[j] = "no" /\ at'[<<"bg", j>>] = "idle"
                    /\ at'[<<"bg", j>>] # "idle" => queued'[j] = "no"
  BY DEF OneRunner
<1>1. Moves(j)
  BY StepMoves
<1> QED
  BY <1>1 DEF Moves, OneRunner

LEMMA OverStays ==
  ASSUME FillInv, OneRunner, [Next]_vars, NoDouble', NEW j \in Jobs, Over(j)
  PROVE  Over(j)'
<1>1. Moves(j)
  BY StepMoves
<1> QED
  BY <1>1 DEF Moves, OneRunner, Over

(* A run that has filled its snapshot is the last of its job. *)
LEMMA CompletingEnds ==
  ASSUME FillInv, OneRunner, [Next]_vars, NoDouble', NEW r \in Runs, at[r] = "complete"
  PROVE  (at'[r] = "complete" /\ snap'[r] = snap[r]) \/ Over(r[2])'
<1>1. Moves(r[2])
  BY StepMoves, RunsArePairs
<1>2. r = <<"arq", r[2]>> \/ r = <<"bg", r[2]>>
  BY RunsArePairs DEF Runners
<1>3. CASE r = <<"arq", r[2]>>
  BY <1>1, <1>3, RunsArePairs DEF Moves, OneRunner, Over
<1>4. CASE r = <<"bg", r[2]>>
  BY <1>1, <1>4, RunsArePairs DEF Moves, OneRunner, Over
<1> QED
  BY <1>2, <1>3, <1>4

(* A snapshot that is whole after a step was so before it, or the run that
   fills it has just done so and is about to complete the job, or has just
   completed it. *)
LEMMA NewlyWhole ==
  ASSUME FillInv, [Next]_vars, NEW s \in 1..made', Whole(s)'
  PROVE  /\ s \in 1..made /\ s \in Snaps
         /\ \/ Whole(s)
            \/ \E r \in Runs : /\ snap[r] = s /\ Filling(r)
                               /\ MarkCompleted(r) \/ (at'[r] = "complete" /\ snap'[r] = s)
<1>0. /\ made \in Nat /\ \A t \in 1..made : t \in Snaps
      /\ rows \in [Snaps -> 0..Chunks] /\ at \in [Runs -> Places]
      /\ snap \in [Runs -> Snaps \cup {NoSnap}]
  BY DEF FillInv, TypeOK, Snaps, Places
<1>1. CASE Quiet
  BY <1>0, <1>1 DEF Quiet, Whole
<1>2. ASSUME NEW r \in Runs, CreateSnapshot(r) PROVE s \in 1..made /\ Whole(s)
  <2>1. made' = made + 1 /\ rows' = rows /\ made + 1 \in Snaps
    BY <1>0, <1>2 DEF CreateSnapshot, Snaps, FillInv, TypeOK
  <2>2. rows[made + 1] = 0
    BY <1>0, <2>1 DEF FillInv, RowsAddUp
  <2>3. s # made + 1
    BY <2>1, <2>2 DEF Whole
  <2> QED
    BY <1>0, <2>1, <2>3 DEF Whole
<1>3. ASSUME NEW r \in Runs, InsertFast(r) \/ InsertChunk(r)
      PROVE  /\ s \in 1..made
             /\ Whole(s) \/ (snap[r] = s /\ Filling(r) /\ at'[r] = "complete" /\ snap'[r] = s)
  <2>1. made' = made /\ snap' = snap /\ at[r] = "insert" /\ at'[r] \in {"insert", "complete"}
    BY <1>0, <1>3 DEF InsertFast, InsertChunk, session, Goto
  <2>2. snap[r] \in Snaps
    BY <1>0, <2>1 DEF FillInv, RunsOwn, Filling, NoSnap
  <2>3. CASE s # snap[r]
    <3>1. rows'[s] = rows[s]
      BY <1>0, <1>3, <2>1, <2>3 DEF InsertFast, InsertChunk
    <3> QED
      BY <2>1, <3>1 DEF Whole
  <2>4. CASE s = snap[r]
    <3>1. RowsAddUp' /\ pending'[r] \in Nat
      BY <1>3, FillStep DEF FillInv, TypeOK
    <3>2. at'[r] # "insert"
      BY <2>1, <2>4, <3>1 DEF RowsAddUp, Whole
    <3> QED
      BY <2>1, <2>4, <3>2 DEF Filling
  <2> QED
    BY <2>3, <2>4
<1>4. ASSUME NEW r \in Runs, MarkCompleted(r)
      PROVE  s \in 1..made /\ (Whole(s) \/ (snap[r] = s /\ Filling(r)))
  <2>1. made' = made /\ at[r] = "complete"
    BY <1>4 DEF MarkCompleted
  <2>2. s # snap[r] => rows'[s] = rows[s]
    BY <1>0, <1>4, <2>1 DEF MarkCompleted, CommitRows
  <2> QED
    BY <2>1, <2>2 DEF Whole, Filling
<1> QED
  BY <1>0, <1>1, <1>2, <1>3, <1>4, QuietOrFills DEF Fills

LEMMA OnceWholeStep ==
  ASSUME FillInv, OneRunner, OnceWhole, [Next]_vars, NoDouble'
  PROVE  OnceWhole'
<1>0. /\ made \in Nat /\ made' \in Nat /\ made <= made'
      /\ \A s \in 1..made : s \in Snaps /\ owner'[s] = owner[s] /\ owner[s] \in Jobs
  BY WholeStays DEF FillInv, TypeOK, OnceWhole
<1>1. \A s \in 1..made' : owner'[s] \in Jobs
  <2>1. CASE made' = made
    BY <1>0, <2>1
  <2>2. CASE made' # made
    <3>1. PICK r \in Runs : CreateSnapshot(r)
      BY <2>2, QuietOrFills DEF Quiet, Fills, InsertFast, InsertChunk, MarkCompleted
    <3>2. made' = made + 1 /\ made + 1 \in Snaps /\ owner'[made + 1] = r[2]
      BY <1>0, <3>1 DEF CreateSnapshot, FillInv, TypeOK, Snaps
    <3> QED
      BY <1>0, <3>2, RunsArePairs
  <2> QED
    BY <2>1, <2>2
<1>2. ASSUME NEW s \in 1..made, Whole(s) PROVE Over(owner[s])' \/ Completing(s)'
  <2>1. CASE Over(owner[s])
    BY <1>0, <2>1, OverStays
  <2>2. ASSUME NEW r \in Runs, at[r] = "complete", snap[r] = s
        PROVE  Over(owner[s])' \/ Completing(s)'
    <3>1. owner[s] = r[2] /\ owner'[s] = r[2]
      BY <1>0, <2>2 DEF FillInv, RunsOwn, NoSnap
    <3> QED
      BY <2>2, <3>1, CompletingEnds DEF Completing, Over
  <2> QED
    BY <1>2, <2>1, <2>2 DEF OnceWhole, Completing
<1>3. ASSUME NEW s \in 1..made, NEW r \in Runs, snap[r] = s, Filling(r)
      PROVE  owner[s] = r[2] /\ r[2] \in Jobs /\ ~Over(r[2])
             /\ \A q \in Runs : Filling(q) /\ q[2] = r[2] => q = r
  <2>1. owner[s] = r[2] /\ r[2] \in Jobs
    BY <1>3, RunsArePairs DEF FillInv, RunsOwn, NoSnap
  <2>2. \A q \in Runs : q[2] = r[2] => q \in {<<"arq", r[2]>>, <<"bg", r[2]>>}
    BY RunsArePairs DEF Runners
  <2>3. ~Over(r[2])
    BY <1>3, <2>1, <2>2 DEF Filling, Over, OneRunner
  <2>4. \A q \in Runs : Filling(q) /\ q[2] = r[2] => q = r
    BY <1>3, <2>1, <2>2 DEF Filling, OneRunner
  <2> QED
    BY <2>1, <2>3, <2>4
<1>4. ASSUME NEW s \in 1..made', Whole(s)' PROVE Over(owner[s])' \/ Completing(s)'
  <2>1. s \in 1..made /\ owner'[s] = owner[s]
    BY <1>0, <1>4, NewlyWhole
  <2>2. CASE Whole(s)
    BY <1>2, <2>1, <2>2
  <2>3. ASSUME NEW r \in Runs, snap[r] = s, Filling(r), MarkCompleted(r)
        PROVE  Over(owner[s])'
    <3>1. owner[s] = r[2] /\ at[r] = "complete" /\ ~(at'[r] = "complete")
      BY <1>3, <2>1, <2>3 DEF MarkCompleted, Goto, FillInv, TypeOK
    <3> QED
      BY <2>1, <3>1, CompletingEnds DEF Over
  <2> QED
    BY <1>4, <2>1, <2>2, <2>3, NewlyWhole DEF Completing
<1>5. ASSUME NEW s \in 1..made', NEW t \in 1..made',
             owner'[s] = owner'[t], Whole(s)', Whole(t)'
      PROVE  s = t
  <2>1. s \in 1..made /\ t \in 1..made /\ owner[s] = owner[t]
    <3>1. s \in 1..made /\ t \in 1..made
      BY <1>5, NewlyWhole
    <3> QED
      BY <1>0, <1>5, <3>1
  <2>2. CASE Whole(s) /\ Whole(t)
    BY <2>1, <2>2 DEF OnceWhole
  <2>3. ASSUME NEW a \in 1..made, NEW b \in 1..made, owner[a] = owner[b], Whole(a),
               NEW r \in Runs, snap[r] = b, Filling(r)
        PROVE  a = b
    <3>1. Completing(a)
      BY <1>3, <2>3 DEF OnceWhole
    <3>2. PICK q \in Runs : at[q] = "complete" /\ snap[q] = a
      BY <3>1 DEF Completing
    <3>3. q[2] = owner[a] /\ r[2] = owner[b]
      BY <1>3, <2>3, <3>2 DEF Filling
    <3> QED
      BY <1>3, <2>3, <3>2, <3>3 DEF Filling
  <2>4. ASSUME NEW q \in Runs, NEW r \in Runs, snap[q] = s, Filling(q), snap[r] = t, Filling(r)
        PROVE  s = t
    <3>1. q[2] = r[2]
      BY <1>3, <2>1, <2>4
    <3> QED
      BY <1>3, <2>1, <2>4, <3>1
  <2>5. Whole(s) \/ \E r \in Runs : snap[r] = s /\ Filling(r)
    BY <1>5, NewlyWhole
  <2>6. Whole(t) \/ \E r \in Runs : snap[r] = t /\ Filling(r)
    BY <1>5, NewlyWhole
  <2> QED
    BY <2>1, <2>2, <2>3, <2>4, <2>5, <2>6
<1> QED
  BY <1>1, <1>4, <1>5 DEF OnceWhole

LEMMA OnceStep == FillInv /\ Once /\ [Next]_vars => Once'
<1> SUFFICES ASSUME FillInv, Once, [Next]_vars, NoDouble'
             PROVE  OneRunner' /\ OnceWhole'
  BY DEF Once
<1>1. OneRunner /\ OnceWhole
  BY HistoryGrows DEF Once
<1> QED
  BY <1>1, OneRunnerStep, OnceWholeStep

LEMMA OnceInit == Init => Once
BY RunsArePairs DEF Init, Once, OneRunner, OnceWhole, Runners

(* One request makes one whole snapshot, unless the job is run twice or the
   commit that completes it fails: whatever else is retried, cancelled,
   restarted or deleted. *)
THEOREM OneRequestOneSnapshot == Spec => []OneSnapshotPerJob
<1>1. Init => FillInv /\ Once
  BY FillInit, OnceInit
<1>2. FillInv /\ Once /\ [Next]_vars => (FillInv /\ Once)'
  BY FillStep, OnceStep
<1>3. FillInv /\ Once => OneSnapshotPerJob
  BY DEF Once, NoDouble, OnceWhole, OneSnapshotPerJob
<1> QED
  BY <1>1, <1>2, <1>3, PTL DEF Spec

=============================================================================
