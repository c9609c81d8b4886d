------------------------------- MODULE Restore -------------------------------
(***************************************************************************)
(* Restoring snapshots to EPICS: the endpoint (app/api/v1/snapshots.py),   *)
(* the arq task (app/tasks/snapshot_tasks.py), the BackgroundTasks         *)
(* fallback (app/services/background_tasks.py), the plan that              *)
(* app/services/snapshot_service.py makes, and the writes, in chunks and   *)
(* over two protocols, of app/services/epics_service.py and                *)
(* pvaccess_service.py.                                                    *)
(*                                                                         *)
(* Each job restores a snapshot of its own, and the value it writes to a   *)
(* PV is named by the job.  Every PV has a device of its own.  The writes  *)
(* of one batch are under way together, so those of several runs and of    *)
(* operators interleave; one that timed out may still be carried out       *)
(* later.  The queue is that of SnapshotJobs: one run of a job in arq at a *)
(* time.                                                                   *)
(***************************************************************************)
EXTENDS Integers, FiniteSets

CONSTANTS Jobs,
          CA, PVA, Bare,  \* PVs with a setpoint by prefix: ca://, pva://, none
          ReadOnly,       \* PVs that are read-only
          Fallback,       \* epics_unprefixed_pva_fallback
          Selections,     \* the lists of pvIds that clients send
          All,            \* pvIds left out
          Operator,       \* any writer other than a restore
          ChunkSize,      \* epics_chunk_size
          Listed,         \* failures that result_data names, 50 in the code
          MaxTries,       \* WorkerSettings.max_tries
          Faults,         \* what may go wrong, or interfere
          MaxFaults       \* bound on how often

PVs == CA \cup PVA \cup Bare
Writable == PVs \ ReadOnly
(* EPICS errors, doubled runs, deletions, operators, restarts of the worker;
   and what may leave a job unfinished. *)
MildKinds == {"put", "batch", "enqueue", "delete", "operator", "worker"}
FaultKinds == MildKinds \cup {"database", "timeout", "api"}

ASSUME RestoreAssumption ==
  /\ CA \cap PVA = {} /\ CA \cap Bare = {} /\ PVA \cap Bare = {}
  /\ IsFiniteSet(PVs) /\ ReadOnly \subseteq PVs
  /\ Fallback \in BOOLEAN
  /\ Selections \subseteq SUBSET PVs /\ All \notin Selections
  /\ Operator \notin Jobs
  /\ ChunkSize \in Nat \ {0} /\ Listed \in Nat /\ MaxTries \in Nat \ {0} /\ MaxFaults \in Nat
  /\ Faults \subseteq FaultKinds

(* In the worker, as a background task, or inside the request (async=false). *)
Runners == {"arq", "bg", "sync"}
Runs == Runners \X Jobs

VARIABLES
  status,   \* jobs table, "none" before the row is committed
  report,   \* jobs table: result_data
  request,  \* request[j]: where the handler of the POST is
  asked,    \* asked[j]: the pvIds of the request
  queued,   \* arq queue
  tries,    \* arq's job_try
  at,       \* at[r]: where run r is
  rest,     \* rest[r]: PVs to write, not yet in a chunk
  chunk,    \* chunk[r]: the PVs of the chunk in hand, or of its fallback
  todo,     \* todo[r]: puts of the batch in hand that have no outcome yet
  ok, bad,  \* ok[r], bad[r]: results so far
  broken,   \* broken[r]: the session of r raises until it is rolled back
  retry,    \* retry[r]: the error in hand names a connection or a timeout
  device,   \* device[pv]: who wrote the value it has
  late,     \* writes that were given up and may still be carried out
  foreign,  \* history, foreign[r]: PVs that others wrote since r read its plan
  deleted,  \* jobs whose snapshot a user has deleted
  faults,
  severe    \* history: has anything gone wrong that is not mild

table == <<status, report>>
queue == <<request, asked, queued, tries>>
writes == <<rest, chunk, todo, ok, bad>>
session == <<broken, retry>>
world == <<device, late, foreign>>
trouble == <<faults, severe>>
vars == <<table, queue, at, writes, session, world, deleted, trouble>>

(* result_data: success_count, failure_count and the failures it names. *)
Reports == [ok : Nat, bad : Nat, failures : SUBSET Writable]
NoReport == [ok |-> 0, bad |-> 0, failures |-> {}]

TypeOK ==
  /\ status \in [Jobs -> {"none", "pending", "running", "completed", "failed"}]
  /\ report \in [Jobs -> Reports]
  /\ request \in [Jobs -> {"new", "schedule", "done"}]
  /\ asked \in [Jobs -> Selections \cup {All}]
  /\ queued \in [Jobs -> {"no", "waiting", "active"}]
  /\ tries \in [Jobs -> 0..MaxTries]
  /\ at \in [Runs -> {"idle", "begin", "load", "progress", "ca", "pva", "fallback",
                      "complete", "finish", "fail"}]
  /\ {rest, chunk, todo, ok, bad} \subseteq [Runs -> SUBSET Writable]
  /\ broken \in [Runs -> BOOLEAN] /\ retry \in [Runs -> BOOLEAN]
  /\ device \in [PVs -> Jobs \cup {Operator}]
  /\ late \subseteq Jobs \X Writable
  /\ foreign \in [Runs -> SUBSET PVs]
  /\ deleted \subseteq Jobs
  /\ faults \in 0..MaxFaults /\ severe \in BOOLEAN

NoPVs == [r \in Runs |-> {}]

Init ==
  /\ status = [j \in Jobs |-> "none"]
  /\ report = [j \in Jobs |-> NoReport]
  /\ request = [j \in Jobs |-> "new"]
  /\ asked = [j \in Jobs |-> All]
  /\ queued = [j \in Jobs |-> "no"]
  /\ tries = [j \in Jobs |-> 0]
  /\ at = [r \in Runs |-> "idle"]
  /\ rest = NoPVs /\ chunk = NoPVs /\ todo = NoPVs /\ ok = NoPVs /\ bad = NoPVs
  /\ broken = [r \in Runs |-> FALSE] /\ retry = [r \in Runs |-> FALSE]
  /\ device = [pv \in PVs |-> Operator]
  /\ late = {} /\ foreign = NoPVs
  /\ deleted = {}
  /\ faults = 0 /\ severe = FALSE

Fault(kind) ==
  /\ kind \in Faults /\ faults < MaxFaults
  /\ faults' = faults + 1
  /\ severe' = (severe \/ kind \notin MildKinds)

Goto(r, pc) == at' = [at EXCEPT ![r] = pc]

-----------------------------------------------------------------------------
(* POST /snapshots/{id}/restore *)

(* The job is committed; or async=false, and the request restores itself. *)
CreateJob(j) ==
  /\ request[j] = "new"
  /\ \E s \in Selections \cup {All} : asked' = [asked EXCEPT ![j] = s]
  /\ \/ /\ request' = [request EXCEPT ![j] = "schedule"]
        /\ status' = [status EXCEPT ![j] = "pending"]
        /\ UNCHANGED at
     \/ /\ request' = [request EXCEPT ![j] = "done"]
        /\ Goto(<<"sync", j>>, "load")
        /\ UNCHANGED status
  /\ UNCHANGED <<report, queued, tries, writes, session, world, deleted, trouble>>

(* enqueue_job succeeds; or there is no pool, or it raises, and the handler
   falls back to BackgroundTasks; it may raise after arq has the job. *)
Schedule(j) ==
  /\ request[j] = "schedule"
  /\ request' = [request EXCEPT ![j] = "done"]
  /\ \/ /\ queued' = [queued EXCEPT ![j] = "waiting"]
        /\ UNCHANGED <<at, trouble>>
     \/ /\ Goto(<<"bg", j>>, "begin")
        /\ UNCHANGED <<queued, trouble>>
     \/ /\ Fault("enqueue")
        /\ queued' = [queued EXCEPT ![j] = "waiting"]
        /\ Goto(<<"bg", j>>, "begin")
  /\ UNCHANGED <<table, asked, tries, writes, session, world, deleted>>

(* As a mutant: the last try is not made. *)
PickUpTooFew(j) ==
  /\ queued[j] = "waiting" /\ at[<<"arq", j>>] = "idle"
  /\ IF tries[j] < MaxTries - 1
     THEN /\ tries' = [tries EXCEPT ![j] = @ + 1]
          /\ queued' = [queued EXCEPT ![j] = "active"]
          /\ Goto(<<"arq", j>>, "begin")
     ELSE /\ queued' = [queued EXCEPT ![j] = "no"]
          /\ UNCHANGED <<tries, at>>
  /\ UNCHANGED <<table, request, asked, writes, session, world, deleted, trouble>>

(* arq starts the task, or gives the job up after MaxTries runs. *)
PickUp(j) ==
  /\ queued[j] = "waiting" /\ at[<<"arq", j>>] = "idle"
  /\ IF tries[j] < MaxTries
     THEN /\ tries' = [tries EXCEPT ![j] = @ + 1]
          /\ queued' = [queued EXCEPT ![j] = "active"]
          /\ Goto(<<"arq", j>>, "begin")
     ELSE /\ queued' = [queued EXCEPT ![j] = "no"]
          /\ UNCHANGED <<tries, at>>
  /\ UNCHANGED <<table, request, asked, writes, session, world, deleted, trouble>>

(* mark_running, whatever the status was. *)
Begin(r) ==
  /\ at[r] = "begin"
  /\ status' = [status EXCEPT ![r[2]] = "running"]
  /\ Goto(r, "load")
  /\ UNCHANGED <<report, queue, writes, session, world, deleted, trouble>>

(* pv_ids is left out, or empty, which the tasks take for the same. *)
Chosen(j) == IF asked[j] \in {All, {}} THEN PVs ELSE asked[j]

(* As a mutant: read-only PVs are not left out. *)
PlanAll(j) == Chosen(j)

(* values_to_write: the chosen PVs of the snapshot that can be written. *)
Plan(j) == Chosen(j) \ ReadOnly

(* The values are read; those of a deleted snapshot are gone, and then there
   is nothing to write. *)
Load(r) ==
  /\ at[r] = "load"
  /\ rest' = [rest EXCEPT ![r] = IF r[2] \in deleted THEN {} ELSE Plan(r[2])]
  /\ foreign' = [foreign EXCEPT ![r] = {}]
  /\ Goto(r, IF r[2] \in deleted THEN "complete" ELSE "progress")
  /\ UNCHANGED <<table, queue, chunk, todo, ok, bad, session, device, late, deleted, trouble>>

-----------------------------------------------------------------------------
(* put_many_with_progress and put_many *)

(* ChunkSize items, or all of them without a progress callback. *)
ChunkLength(r) ==
  IF r[1] # "sync" /\ ChunkSize < Cardinality(rest[r]) THEN ChunkSize ELSE Cardinality(rest[r])

(* As a mutant: the loop over the chunks ends one chunk early. *)
LastChunkLeftOut(r) ==
  /\ at[r] = "progress"
  /\ \E C \in SUBSET rest[r] :
       /\ Cardinality(C) = ChunkLength(r)
       /\ chunk' = [chunk EXCEPT ![r] = C]
       /\ rest' = [rest EXCEPT ![r] = @ \ C]
       /\ todo' = [todo EXCEPT ![r] = C \cap (CA \cup Bare)]
       /\ Goto(r, IF C = rest[r] THEN "complete" ELSE "ca")
  /\ UNCHANGED <<table, queue, ok, bad, session, world, deleted, trouble>>

(* The progress callback commits, before the first chunk and after each;
   then follow the CA names of the next chunk, or the end. *)
NextChunk(r) ==
  /\ at[r] = "progress"
  /\ \E C \in SUBSET rest[r] :
       /\ Cardinality(C) = ChunkLength(r)
       /\ chunk' = [chunk EXCEPT ![r] = C]
       /\ rest' = [rest EXCEPT ![r] = @ \ C]
       /\ todo' = [todo EXCEPT ![r] = C \cap (CA \cup Bare)]
       /\ Goto(r, IF C = {} THEN "complete" ELSE "ca")
  /\ UNCHANGED <<table, queue, ok, bad, session, world, deleted, trouble>>

Batch(r) == at[r] \in {"ca", "pva", "fallback"}

(* The device of pv takes a value of the writer w. *)
Written(pv, w) ==
  /\ device' = [device EXCEPT ![pv] = w]
  /\ foreign' = [r \in Runs |-> IF r[2] # w /\ (Batch(r) \/ at[r] \in {"progress", "complete"})
                                THEN foreign[r] \cup {pv} ELSE foreign[r]]

(* As a mutant: no answer counts as no error. *)
SilenceIsSuccess(r, pv) ==
  /\ Batch(r) /\ pv \in todo[r]
  /\ todo' = [todo EXCEPT ![r] = @ \ {pv}]
  /\ \/ /\ Written(pv, r[2])
        /\ ok' = [ok EXCEPT ![r] = @ \cup {pv}]
        /\ bad' = [bad EXCEPT ![r] = @ \ {pv}]
        /\ UNCHANGED <<late, trouble>>
     \/ /\ Fault("put")
        /\ late' \in {late, late \cup {<<r[2], pv>>}}
        /\ ok' = [ok EXCEPT ![r] = @ \cup {pv}]
        /\ UNCHANGED <<bad, device, foreign>>
  /\ UNCHANGED <<table, queue, at, rest, chunk, session, deleted>>

(* One put of the batch: acknowledged; refused; or without an answer in
   time, and then it may still be carried out. *)
Put(r, pv) ==
  /\ Batch(r) /\ pv \in todo[r]
  /\ todo' = [todo EXCEPT ![r] = @ \ {pv}]
  /\ \/ /\ Written(pv, r[2])
        /\ ok' = [ok EXCEPT ![r] = @ \cup {pv}]
        /\ bad' = [bad EXCEPT ![r] = @ \ {pv}]
        /\ UNCHANGED <<late, trouble>>
     \/ /\ Fault("put")
        /\ late' \in {late, late \cup {<<r[2], pv>>}}
        /\ bad' = [bad EXCEPT ![r] = @ \cup {pv}]
        /\ UNCHANGED <<ok, device, foreign>>
  /\ UNCHANGED <<table, queue, at, rest, chunk, session, deleted>>

(* The PVs that the batch in hand writes. *)
InBatch(r) ==
  CASE at[r] = "ca" -> chunk[r] \cap (CA \cup Bare)
    [] at[r] = "pva" -> chunk[r] \cap PVA
    [] at[r] = "fallback" -> chunk[r]

(* connect, caput or put raises for the batch as a whole: all of it is
   reported as failed, what is under way may still be carried out. *)
BatchRaises(r) ==
  /\ Batch(r) /\ todo[r] # {}
  /\ Fault("batch")
  /\ todo' = [todo EXCEPT ![r] = {}]
  /\ ok' = [ok EXCEPT ![r] = @ \ InBatch(r)]
  /\ bad' = [bad EXCEPT ![r] = @ \cup InBatch(r)]
  /\ late' = late \cup ({r[2]} \X todo[r])
  /\ UNCHANGED <<table, queue, at, rest, chunk, session, device, foreign, deleted>>

(* The batch in hand is done; pva and fallback are the next two, and those
   with no names are skipped. *)
Then(r, pva, fallback) ==
  /\ Batch(r) /\ todo[r] = {}
  /\ IF at[r] = "ca" /\ pva # {}
     THEN Goto(r, "pva") /\ todo' = [todo EXCEPT ![r] = pva] /\ UNCHANGED chunk
     ELSE IF at[r] # "fallback" /\ fallback # {}
     THEN /\ Goto(r, "fallback")
          /\ todo' = [todo EXCEPT ![r] = fallback]
          /\ chunk' = [chunk EXCEPT ![r] = fallback]
     ELSE Goto(r, "progress") /\ UNCHANGED <<todo, chunk>>
  /\ UNCHANGED <<table, queue, rest, ok, bad, session, world, deleted, trouble>>

(* CA names, then PVA names, then over PVA the unprefixed that failed. *)
EndBatch(r) ==
  Then(r, chunk[r] \cap PVA, IF Fallback THEN bad[r] \cap chunk[r] \cap Bare ELSE {})

-----------------------------------------------------------------------------
(* The end of a run *)

(* What the run knew is forgotten. *)
Cleared(S) ==
  /\ rest' = [r \in Runs |-> IF r \in S THEN {} ELSE rest[r]]
  /\ chunk' = [r \in Runs |-> IF r \in S THEN {} ELSE chunk[r]]
  /\ todo' = [r \in Runs |-> IF r \in S THEN {} ELSE todo[r]]
  /\ ok' = [r \in Runs |-> IF r \in S THEN {} ELSE ok[r]]
  /\ bad' = [r \in Runs |-> IF r \in S THEN {} ELSE bad[r]]
  /\ broken' = [r \in Runs |-> IF r \in S THEN FALSE ELSE broken[r]]
  /\ retry' = [r \in Runs |-> IF r \in S THEN FALSE ELSE retry[r]]
  /\ foreign' = [r \in Runs |-> IF r \in S THEN {} ELSE foreign[r]]

(* The failures that are named if those in S are all there are. *)
Named(S) == {F \in SUBSET S :
               Cardinality(F) = IF Cardinality(S) < Listed THEN Cardinality(S) ELSE Listed}

(* As a mutant: the failures are counted once they have been cut. *)
CountAfterCut(good, wrong) ==
  {[ok |-> Cardinality(good), bad |-> Cardinality(F), failures |-> F] : F \in Named(wrong)}

(* result_data: the counts, and no more than the first failures. *)
ResultData(good, wrong) ==
  {[ok |-> Cardinality(good), bad |-> Cardinality(wrong), failures |-> F] : F \in Named(wrong)}

(* mark_completed with the counts; the synchronous request answers them. *)
Complete(r) ==
  /\ at[r] = "complete" /\ ~broken[r]
  /\ IF r[1] = "sync" THEN UNCHANGED table
     ELSE /\ status' = [status EXCEPT ![r[2]] = "completed"]
          /\ \E d \in ResultData(ok[r], bad[r]) : report' = [report EXCEPT ![r[2]] = d]
  /\ Goto(r, IF r[1] = "arq" THEN "finish" ELSE "idle")
  /\ Cleared({r})
  /\ UNCHANGED <<queue, device, late, deleted, trouble>>

(* arq records that the task returned or raised. *)
Finish(j) ==
  /\ at[<<"arq", j>>] = "finish"
  /\ queued' = [queued EXCEPT ![j] = "no"]
  /\ Goto(<<"arq", j>>, "idle")
  /\ UNCHANGED <<table, request, asked, tries, writes, session, world, deleted, trouble>>

(* A statement or commit of the session fails.  The callback of the
   background task swallows that and the writes go on. *)
DatabaseError(r) ==
  /\ \/ at[r] = "load"
     \/ at[r] \in {"begin", "progress", "complete"} /\ r[1] # "sync"
  /\ Fault("database")
  /\ broken' \in {[broken EXCEPT ![r] = b] : b \in BOOLEAN}
  /\ retry' \in {[retry EXCEPT ![r] = t] : t \in BOOLEAN}
  /\ Goto(r, IF at[r] = "progress" /\ r[1] = "bg" THEN "progress" ELSE "fail")
  /\ UNCHANGED <<table, queue, writes, world, deleted>>

(* mark_completed in a session that an ignored error has broken. *)
CompleteRaises(r) ==
  /\ at[r] = "complete" /\ broken[r]
  /\ Goto(r, "fail")
  /\ UNCHANGED <<table, queue, writes, session, world, deleted, trouble>>

(* mark_failed; it may raise in its turn, which is only logged. *)
Failed(j) ==
  \/ status' = [status EXCEPT ![j] = "failed"] /\ UNCHANGED trouble
  \/ Fault("database") /\ UNCHANGED status

(* run_snapshot_restore rolls back and marks the job failed; the synchronous
   request answers an error. *)
FailInApi(r) ==
  /\ at[r] = "fail" /\ r[1] # "arq"
  /\ IF r[1] = "bg" THEN Failed(r[2]) ELSE UNCHANGED <<status, trouble>>
  /\ Goto(r, "idle")
  /\ Cleared({r})
  /\ UNCHANGED <<report, queue, device, late, deleted>>

(* restore_snapshot_task: mark_failed in the session as it is; if that is
   broken the second error is only logged.  Then Retry, or the error. *)
FailInWorker(j) ==
  LET r == <<"arq", j>> IN
  /\ at[r] = "fail"
  /\ IF broken[r] THEN UNCHANGED <<status, trouble>> ELSE Failed(j)
  /\ Goto(r, IF retry[r] THEN "idle" ELSE "finish")
  /\ queued' = [queued EXCEPT ![j] = IF retry[r] THEN "waiting" ELSE @]
  /\ Cleared({r})
  /\ UNCHANGED <<report, request, asked, tries, device, late, deleted>>

(* The runs in S are gone, but not the writes they have under way. *)
Vanish(S) ==
  /\ at' = [r \in Runs |-> IF r \in S THEN "idle" ELSE at[r]]
  /\ late' = late \cup UNION {{r[2]} \X todo[r] : r \in S}
  /\ Cleared(S)

(* job_timeout: the task is cancelled, which no handler of it catches. *)
Timeout(j) ==
  /\ at[<<"arq", j>>] \notin {"idle", "finish"}
  /\ Fault("timeout")
  /\ Vanish({<<"arq", j>>})
  /\ queued' = [queued EXCEPT ![j] = "no"]
  /\ UNCHANGED <<table, request, asked, tries, device, deleted>>

(* The worker restarts: arq runs again what was running. *)
WorkerRestarts ==
  /\ Fault("worker")
  /\ Vanish({<<"arq", j>> : j \in Jobs})
  /\ queued' = [j \in Jobs |-> IF queued[j] = "active" THEN "waiting" ELSE queued[j]]
  /\ UNCHANGED <<table, request, asked, tries, device, deleted>>

(* The API process restarts: requests and background tasks are gone. *)
ApiRestarts ==
  /\ Fault("api")
  /\ Vanish({"bg", "sync"} \X Jobs)
  /\ request' = [j \in Jobs |-> IF request[j] = "schedule" THEN "done" ELSE request[j]]
  /\ UNCHANGED <<table, asked, queued, tries, device, deleted>>

-----------------------------------------------------------------------------
(* Others *)

(* A write that was given up reaches its device. *)
LateWrite(j, pv) ==
  /\ <<j, pv>> \in late
  /\ late' = late \ {<<j, pv>>}
  /\ Written(pv, j)
  /\ UNCHANGED <<table, queue, at, writes, session, deleted, trouble>>

OperatorWrites(pv) ==
  /\ Fault("operator")
  /\ Written(pv, Operator)
  /\ UNCHANGED <<table, queue, at, writes, session, late, deleted>>

(* DELETE /snapshots of the snapshot that j restores. *)
DeleteSnapshot(j) ==
  /\ j \notin deleted /\ request[j] # "new"
  /\ Fault("delete")
  /\ deleted' = deleted \cup {j}
  /\ UNCHANGED <<table, queue, at, writes, session, world>>

-----------------------------------------------------------------------------
Step(r) ==
  \/ Begin(r) \/ Load(r) \/ NextChunk(r) \/ EndBatch(r)
  \/ Complete(r) \/ CompleteRaises(r) \/ FailInApi(r)
  \/ \E pv \in PVs : Put(r, pv)

Runner(j) ==
  \/ \E k \in Runners : Step(<<k, j>>)
  \/ Schedule(j) \/ PickUp(j) \/ Finish(j) \/ FailInWorker(j)

Next ==
  \/ \E j \in Jobs : CreateJob(j) \/ Runner(j) \/ Timeout(j) \/ DeleteSnapshot(j)
  \/ \E r \in Runs : DatabaseError(r) \/ BatchRaises(r)
  \/ \E j \in Jobs, pv \in PVs : LateWrite(j, pv)
  \/ \E pv \in PVs : OperatorWrites(pv)
  \/ WorkerRestarts \/ ApiRestarts

Spec == Init /\ [][Next]_vars

-----------------------------------------------------------------------------
(* Properties *)

(* A run that is about to report has exactly one outcome for every PV it
   was to write, over chunks, both protocols and batches that raised: the
   counts add up to the total. *)
EveryWriteHasAnOutcome ==
  \A r \in Runs : at[r] = "complete" =>
    /\ ok[r] \cap bad[r] = {}
    /\ ok[r] \cup bad[r] = Plan(r[2]) \/ (ok[r] \cup bad[r] = {} /\ r[2] \in deleted)

(* What a run counts as restored has the snapshot's value when it reports,
   unless another restore, an earlier write that came late or an operator
   has written the PV since the run began. *)
RestoredUnlessOverwritten ==
  \A r \in Runs : at[r] = "complete" =>
    \A pv \in ok[r] \ foreign[r] : device[pv] = r[2]

(* What the job table says of a completed job, whichever of its runs has
   completed it: the counts account for every PV that was to be restored,
   and as many failures are named, all of them such PVs, as there is room
   for.  Only a job whose snapshot is deleted may report nothing instead. *)
ReportIsComplete ==
  \A j \in Jobs : status[j] = "completed" =>
    \/ /\ report[j].ok + report[j].bad = Cardinality(Plan(j))
       /\ report[j].failures \subseteq Plan(j)
       /\ Cardinality(report[j].failures) = IF report[j].bad < Listed THEN report[j].bad ELSE Listed
    \/ j \in deleted /\ report[j] = NoReport

(* Nobody works on the job, or will. *)
Abandoned(j) ==
  request[j] = "done" /\ queued[j] = "no" /\ \A k \in Runners : at[<<k, j>>] = "idle"

(* Nothing severe, and fewer restarts than arq has tries for the job. *)
Mild == ~severe /\ faults < MaxTries

(* EPICS errors end in the report and not in an exception: with mild faults
   a job that nobody works on, or will, is completed. *)
AbandonedIsCompleted ==
  Mild => \A j \in Jobs : Abandoned(j) /\ status[j] # "none" => status[j] = "completed"

(* "All N PVs have been restored to their snapshot values."
   (snapshot_tasks.py:170): when that is reported, they have those values. *)
AllRestored ==
  \A r \in Runs : at[r] = "complete" /\ bad[r] = {} =>
    \A pv \in Plan(r[2]) : device[pv] = r[2]

(* "If None, restore all" (schemas/snapshot.py:84): a request with a list
   writes no PV that is not in the list. *)
OnlyAskedAreWritten ==
  \A pv \in PVs : device[pv] \in Jobs /\ asked[device[pv]] # All => pv \in asked[device[pv]]

=============================================================================
