----------------------------- MODULE SnapshotJobs -----------------------------
(***************************************************************************)
(* Snapshot creation as a background job: the endpoint that creates the    *)
(* job and schedules it (app/api/v1/snapshots.py), the arq task that runs  *)
(* it in the worker (app/tasks/snapshot_tasks.py, app/worker.py), the      *)
(* BackgroundTasks fallback that runs it in the API process                *)
(* (app/services/background_tasks.py), and what the snapshot service       *)
(* commits on the way (app/services/snapshot_service.py).                  *)
(*                                                                         *)
(* A step is what one commit makes visible, or one call that can fail.     *)
(* The rows of a snapshot are counted in the Chunks of bulk_create; the    *)
(* fast path inserts all of them at once on a connection of its own.  The  *)
(* arq queue is external: at least once, at most MaxTries runs, no run of  *)
(* the same job beside another.  Progress updates commit what is pending   *)
(* and are otherwise left out.                                             *)
(***************************************************************************)
EXTENDS Integers, FiniteSets

CONSTANTS Jobs,
          Chunks,      \* bulk inserts per snapshot: 1, or more beyond 5000 rows
          MaxTries,    \* WorkerSettings.max_tries
          MaxSnaps,    \* bound on the snapshots created
          Faults,      \* what may go wrong, or interfere
          MaxFaults    \* bound on how often

FaultKinds == {"service", "database", "timeout", "worker", "api", "enqueue", "delete"}

ASSUME JobsAssumption ==
  /\ Chunks \in Nat \ {0} /\ MaxTries \in Nat \ {0}
  /\ MaxSnaps \in Nat /\ MaxFaults \in Nat
  /\ Faults \subseteq FaultKinds

Runners == {"arq", "bg"}
Runs == Runners \X Jobs      \* at most one run of each kind at a time
Snaps == 1..MaxSnaps
NoSnap == 0

VARIABLES
  status,    \* jobs table: status, "none" before the row is committed
  result,    \* jobs table: result_id
  error,     \* jobs table: is error set
  request,   \* request[j]: where the handler of the POST is
  useCache,  \* useCache[j]: the query parameter use_cache
  queued,    \* arq queue
  tries,     \* arq's job_try
  at,        \* at[r]: where run r is
  path,      \* path[r]: from the cache or from EPICS
  snap,      \* snap[r]: the snapshot run r has created
  pending,   \* pending[r]: chunks inserted and not committed
  broken,    \* broken[r]: the session of r raises until it is rolled back
  retry,     \* retry[r]: the error in hand counts as transient
  made,      \* snapshots created so far, numbered in that order
  owner,     \* owner[s]: the job a snapshot was made for
  rows,      \* rows[s]: its committed chunks
  deleted,   \* snapshots deleted by a user
  faults,
  had        \* history: the kinds of what went wrong

table == <<status, result, error>>
queue == <<request, useCache, queued, tries>>
session == <<snap, pending, broken, retry>>
snapshots == <<made, owner, rows, deleted>>
trouble == <<faults, had>>
vars == <<table, queue, at, path, session, snapshots, trouble>>

TypeOK ==
  /\ status \in [Jobs -> {"none", "pending", "running", "completed", "failed"}]
  /\ result \in [Jobs -> Snaps \cup {NoSnap}]
  /\ error \in [Jobs -> BOOLEAN]
  /\ request \in [Jobs -> {"new", "schedule", "done"}]
  /\ useCache \in [Jobs -> BOOLEAN]
  /\ queued \in [Jobs -> {"no", "waiting", "active"}]
  /\ tries \in [Jobs -> 0..MaxTries]
  /\ at \in [Runs -> {"idle", "begin", "read", "create", "insert", "complete", "finish", "fail"}]
  /\ path \in [Runs -> {"cache", "direct"}]
  /\ snap \in [Runs -> Snaps \cup {NoSnap}]
  /\ pending \in [Runs -> 0..Chunks]
  /\ broken \in [Runs -> BOOLEAN] /\ retry \in [Runs -> BOOLEAN]
  /\ made \in 0..MaxSnaps
  /\ owner \in [Snaps -> Jobs \cup {"none"}]
  /\ rows \in [Snaps -> 0..Chunks]
  /\ deleted \subseteq Snaps
  /\ faults \in 0..MaxFaults
  /\ had \subseteq Faults

Init ==
  /\ status = [j \in Jobs |-> "none"]
  /\ result = [j \in Jobs |-> NoSnap]
  /\ error = [j \in Jobs |-> FALSE]
  /\ request = [j \in Jobs |-> "new"]
  /\ useCache = [j \in Jobs |-> TRUE]
  /\ queued = [j \in Jobs |-> "no"]
  /\ tries = [j \in Jobs |-> 0]
  /\ at = [r \in Runs |-> "idle"]
  /\ path = [r \in Runs |-> "cache"]
  /\ snap = [r \in Runs |-> NoSnap]
  /\ pending = [r \in Runs |-> 0]
  /\ broken = [r \in Runs |-> FALSE] /\ retry = [r \in Runs |-> FALSE]
  /\ made = 0
  /\ owner = [s \in Snaps |-> "none"]
  /\ rows = [s \in Snaps |-> 0]
  /\ deleted = {}
  /\ faults = 0 /\ had = {}

Fault(kind) ==
  /\ kind \in Faults /\ faults < MaxFaults
  /\ faults' = faults + 1
  /\ had' = had \cup {kind}

-----------------------------------------------------------------------------
(* POST /snapshots *)

CreateJob(j) ==
  /\ request[j] = "new"
  /\ request' = [request EXCEPT ![j] = "schedule"]
  /\ status' = [status EXCEPT ![j] = "pending"]
  /\ \E c \in BOOLEAN : useCache' = [useCache EXCEPT ![j] = c]
  /\ UNCHANGED <<result, error, queued, tries, at, path, session, snapshots, trouble>>

InBackground(j) == at' = [at EXCEPT ![<<"bg", j>>] = "begin"]

(* As a mutant: the job runs in the background as well as in the queue. *)
ScheduleBoth(j) ==
  /\ request[j] = "schedule"
  /\ request' = [request EXCEPT ![j] = "done"]
  /\ queued' = [queued EXCEPT ![j] = "waiting"]
  /\ InBackground(j)
  /\ UNCHANGED <<table, useCache, tries, path, session, snapshots, trouble>>

(* enqueue_job succeeds; or there is no pool, or it raises, and the handler
   falls back to BackgroundTasks; it may raise after arq has the job. *)
Schedule(j) ==
  /\ request[j] = "schedule"
  /\ request' = [request EXCEPT ![j] = "done"]
  /\ \/ /\ queued' = [queued EXCEPT ![j] = "waiting"]
        /\ UNCHANGED <<at, trouble>>
     \/ /\ InBackground(j)
        /\ UNCHANGED <<queued, trouble>>
     \/ /\ Fault("enqueue")
        /\ queued' = [queued EXCEPT ![j] = "waiting"]
        /\ InBackground(j)
  /\ UNCHANGED <<table, useCache, tries, path, session, snapshots>>

(* As a mutant: a job that fails for ever is run for ever. *)
PickUpAlways(j) ==
  /\ queued[j] = "waiting" /\ at[<<"arq", j>>] = "idle"
  /\ tries' = [tries EXCEPT ![j] = @ + 1]
  /\ queued' = [queued EXCEPT ![j] = "active"]
  /\ at' = [at EXCEPT ![<<"arq", j>>] = "begin"]
  /\ UNCHANGED <<table, request, useCache, path, session, snapshots, trouble>>

(* arq starts the task, or gives the job up after MaxTries runs. *)
PickUp(j) ==
  /\ queued[j] = "waiting" /\ at[<<"arq", j>>] = "idle"
  /\ IF tries[j] < MaxTries
     THEN /\ tries' = [tries EXCEPT ![j] = @ + 1]
          /\ queued' = [queued EXCEPT ![j] = "active"]
          /\ at' = [at EXCEPT ![<<"arq", j>>] = "begin"]
     ELSE /\ queued' = [queued EXCEPT ![j] = "no"]
          /\ UNCHANGED <<tries, at>>
  /\ UNCHANGED <<table, request, useCache, path, session, snapshots, trouble>>

-----------------------------------------------------------------------------
(* One run of the task *)

Goto(r, pc) == at' = [at EXCEPT ![r] = pc]

(* mark_running, whatever the status was. *)
Begin(r) ==
  /\ at[r] = "begin"
  /\ status' = [status EXCEPT ![r[2]] = "running"]
  /\ path' = [path EXCEPT ![r] = IF useCache[r[2]] THEN "cache" ELSE "direct"]
  /\ Goto(r, "read")
  /\ UNCHANGED <<result, error, queue, session, snapshots, trouble>>

(* The values are read.  An empty cache means a fallback to EPICS. *)
Read(r) ==
  /\ at[r] = "read"
  /\ \E p \in {path[r], "direct"} : path' = [path EXCEPT ![r] = p]
  /\ Goto(r, "create")
  /\ UNCHANGED <<table, queue, session, snapshots, trouble>>

(* The snapshot row is committed before its values: by the explicit commit
   of the cache path, by the progress update "Saving" of the other. *)
CreateSnapshot(r) ==
  /\ at[r] = "create" /\ made < MaxSnaps
  /\ made' = made + 1
  /\ owner' = [owner EXCEPT ![made + 1] = r[2]]
  /\ snap' = [snap EXCEPT ![r] = made + 1]
  /\ Goto(r, "insert")
  /\ UNCHANGED <<table, queue, path, pending, broken, retry, rows, deleted, trouble>>

(* bulk_create_fast: all rows or none. *)
InsertFast(r) ==
  /\ at[r] = "insert" /\ path[r] = "cache" /\ snap[r] \notin deleted
  /\ rows' = [rows EXCEPT ![snap[r]] = Chunks]
  /\ Goto(r, "complete")
  /\ UNCHANGED <<table, queue, path, session, made, owner, deleted, trouble>>

(* As a mutant: the loop over the chunks ends one too early. *)
InsertAllButLast(r) ==
  /\ at[r] = "insert" /\ path[r] = "direct" /\ snap[r] \notin deleted
  /\ LET n == rows[snap[r]] + pending[r] + 1 IN
       /\ \/ /\ pending' = [pending EXCEPT ![r] = @ + 1]
             /\ UNCHANGED rows
          \/ /\ rows' = [rows EXCEPT ![snap[r]] = n]
             /\ pending' = [pending EXCEPT ![r] = 0]
       /\ Goto(r, IF n >= Chunks - 1 THEN "complete" ELSE "insert")
  /\ UNCHANGED <<table, queue, path, snap, broken, retry, made, owner, deleted, trouble>>

(* bulk_create: one chunk.  The progress update after a chunk commits it;
   the throttled one of BackgroundTasks may skip all but the last, and a
   single chunk has no progress update. *)
InsertChunk(r) ==
  /\ at[r] = "insert" /\ path[r] = "direct" /\ snap[r] \notin deleted
  /\ LET n == rows[snap[r]] + pending[r] + 1 IN
       /\ \/ /\ Chunks = 1 \/ (r[1] = "bg" /\ n < Chunks)
             /\ pending' = [pending EXCEPT ![r] = @ + 1]
             /\ UNCHANGED rows
          \/ /\ Chunks > 1
             /\ rows' = [rows EXCEPT ![snap[r]] = n]
             /\ pending' = [pending EXCEPT ![r] = 0]
       /\ Goto(r, IF n = Chunks THEN "complete" ELSE "insert")
  /\ UNCHANGED <<table, queue, path, snap, broken, retry, made, owner, deleted, trouble>>

(* The rows that were only flushed become visible with the next commit. *)
CommitRows(r) ==
  /\ rows' = IF pending[r] > 0 THEN [rows EXCEPT ![snap[r]] = @ + pending[r]] ELSE rows
  /\ pending' = [pending EXCEPT ![r] = 0]

(* mark_completed; a task of the API process is done with that. *)
MarkCompleted(r) ==
  /\ at[r] = "complete"
  /\ status' = [status EXCEPT ![r[2]] = "completed"]
  /\ result' = [result EXCEPT ![r[2]] = snap[r]]
  /\ Goto(r, IF r[1] = "arq" THEN "finish" ELSE "idle")
  /\ snap' = [snap EXCEPT ![r] = NoSnap]
  /\ CommitRows(r)
  /\ UNCHANGED <<error, queue, path, broken, retry, made, owner, deleted, trouble>>

(* arq records that the task returned or raised. *)
Finish(j) ==
  /\ at[<<"arq", j>>] = "finish"
  /\ queued' = [queued EXCEPT ![j] = "no"]
  /\ Goto(<<"arq", j>>, "idle")
  /\ UNCHANGED <<table, request, useCache, tries, path, session, snapshots, trouble>>

-----------------------------------------------------------------------------
(* Errors *)

(* Redis on reading the cache, asyncpg on the fast insert: the session of
   the task is not involved.  Arq retries what looks transient. *)
ServiceError(r) ==
  /\ path[r] = "cache" /\ at[r] \in {"read", "insert"}
  /\ Fault("service")
  /\ retry' \in {[retry EXCEPT ![r] = t] : t \in BOOLEAN}
  /\ Goto(r, "fail")
  /\ UNCHANGED <<table, queue, path, snap, pending, broken, snapshots>>

(* A statement or commit of the session fails.  PostgreSQL and SQLAlchemy
   refuse what follows in it, unless it only failed to get a connection. *)
DatabaseError(r) ==
  /\ at[r] \in {"begin", "read", "create", "insert", "complete"}
  /\ at[r] = "insert" => path[r] = "direct"
  /\ Fault("database")
  /\ retry' \in {[retry EXCEPT ![r] = t] : t \in BOOLEAN}
  /\ broken' \in {[broken EXCEPT ![r] = b] : b \in BOOLEAN}
  /\ pending' = [pending EXCEPT ![r] = 0]
  /\ Goto(r, "fail")
  /\ UNCHANGED <<table, queue, path, snap, snapshots>>

(* The snapshot was deleted meanwhile: its values violate a foreign key, in
   the session or on the connection of the fast insert. *)
SnapshotGone(r) ==
  /\ at[r] = "insert" /\ snap[r] \in deleted
  /\ broken' = [broken EXCEPT ![r] = (path[r] = "direct")]
  /\ pending' = [pending EXCEPT ![r] = 0]
  /\ Goto(r, "fail")
  /\ UNCHANGED <<table, queue, path, snap, retry, snapshots, trouble>>

Ended(r) ==
  /\ snap' = [snap EXCEPT ![r] = NoSnap]
  /\ broken' = [broken EXCEPT ![r] = FALSE]
  /\ retry' = [retry EXCEPT ![r] = FALSE]

Failed(j) ==
  /\ status' = [status EXCEPT ![j] = "failed"]
  /\ error' = [error EXCEPT ![j] = TRUE]

(* mark_failed raises, which is only logged. *)
NotMarked == Fault("database") /\ UNCHANGED <<status, error>>

(* run_snapshot_creation: rollback, then mark_failed. *)
FailInBackground(j) ==
  /\ at[<<"bg", j>>] = "fail"
  /\ (Failed(j) /\ UNCHANGED trouble) \/ NotMarked
  /\ Goto(<<"bg", j>>, "idle")
  /\ Ended(<<"bg", j>>)
  /\ pending' = [pending EXCEPT ![<<"bg", j>>] = 0]
  /\ UNCHANGED <<result, queue, path, snapshots>>

(* As a mutant: only a transient error marks the job. *)
MarkOnlyTransient(j) ==
  LET r == <<"arq", j>> IN
  /\ at[r] = "fail"
  /\ IF broken[r] \/ ~retry[r] THEN UNCHANGED <<status, error>> ELSE Failed(j)
  /\ pending' = [pending EXCEPT ![r] = 0]
  /\ Goto(r, IF retry[r] THEN "idle" ELSE "finish")
  /\ queued' = [queued EXCEPT ![j] = IF retry[r] THEN "waiting" ELSE @]
  /\ Ended(r)
  /\ UNCHANGED <<result, request, useCache, tries, path, snapshots, trouble>>

(* create_snapshot_task: mark_failed in the session as it is; if that is
   broken the second error is only logged.  Then Retry, or the error. *)
FailInWorker(j) ==
  LET r == <<"arq", j>> IN
  /\ at[r] = "fail"
  /\ \/ /\ IF broken[r] THEN UNCHANGED <<status, error>> ELSE Failed(j)
        /\ UNCHANGED trouble
     \/ ~broken[r] /\ NotMarked
  /\ pending' = [pending EXCEPT ![r] = 0]
  /\ Goto(r, IF retry[r] THEN "idle" ELSE "finish")
  /\ queued' = [queued EXCEPT ![j] = IF retry[r] THEN "waiting" ELSE @]
  /\ Ended(r)
  /\ UNCHANGED <<result, request, useCache, tries, path, snapshots>>

(* The runs in S are gone; what they had not committed is rolled back. *)
Vanish(S) ==
  /\ at' = [r \in Runs |-> IF r \in S THEN "idle" ELSE at[r]]
  /\ snap' = [r \in Runs |-> IF r \in S THEN NoSnap ELSE snap[r]]
  /\ pending' = [r \in Runs |-> IF r \in S THEN 0 ELSE pending[r]]
  /\ broken' = [r \in Runs |-> IF r \in S THEN FALSE ELSE broken[r]]
  /\ retry' = [r \in Runs |-> IF r \in S THEN FALSE ELSE retry[r]]

(* job_timeout: the task is cancelled, which no handler of it catches, and
   arq records a failure. *)
Timeout(j) ==
  /\ at[<<"arq", j>>] \notin {"idle", "finish"}
  /\ Fault("timeout")
  /\ Vanish({<<"arq", j>>})
  /\ queued' = [queued EXCEPT ![j] = "no"]
  /\ UNCHANGED <<table, request, useCache, tries, path, snapshots>>

(* The worker restarts: arq runs again what was running. *)
WorkerRestarts ==
  /\ Fault("worker")
  /\ Vanish({<<"arq", j>> : j \in Jobs})
  /\ queued' = [j \in Jobs |-> IF queued[j] = "active" THEN "waiting" ELSE queued[j]]
  /\ UNCHANGED <<table, request, useCache, tries, path, snapshots>>

(* The API process restarts: requests and background tasks are gone. *)
ApiRestarts ==
  /\ Fault("api")
  /\ Vanish({<<"bg", j>> : j \in Jobs})
  /\ request' = [j \in Jobs |-> IF request[j] = "schedule" THEN "done" ELSE request[j]]
  /\ UNCHANGED <<table, useCache, queued, tries, path, snapshots>>

-----------------------------------------------------------------------------
(* DELETE /snapshots/s.  An uncommitted row keeps a lock on its snapshot. *)
DeleteSnapshot(s) ==
  /\ s \in 1..made \ deleted
  /\ Fault("delete")
  /\ \A r \in Runs : snap[r] = s => pending[r] = 0
  /\ deleted' = deleted \cup {s}
  /\ UNCHANGED <<table, queue, at, path, session, made, owner, rows>>

Step(r) ==
  Begin(r) \/ Read(r) \/ CreateSnapshot(r) \/ InsertFast(r) \/ InsertChunk(r) \/ MarkCompleted(r)

Runner(j) ==
  \/ \E k \in Runners : Step(<<k, j>>) \/ SnapshotGone(<<k, j>>)
  \/ Schedule(j) \/ PickUp(j) \/ Finish(j) \/ FailInBackground(j) \/ FailInWorker(j)

Next ==
  \/ \E j \in Jobs : CreateJob(j) \/ Runner(j) \/ Timeout(j)
  \/ \E r \in Runs : ServiceError(r) \/ DatabaseError(r)
  \/ WorkerRestarts \/ ApiRestarts
  \/ \E s \in Snaps : DeleteSnapshot(s)

Spec == Init /\ [][Next]_vars

(* Worker and API run what is ready; Redis, EPICS and PostgreSQL answer. *)
FairSpec == Spec /\ \A j \in Jobs : WF_vars(Runner(j))

-----------------------------------------------------------------------------
(* Properties *)

Whole(s) == rows[s] = Chunks

(* A job that is completed names a snapshot of its own with all its values,
   unless a user has deleted it: through retries, fallbacks, double runs,
   commits in the middle and failures of any kind. *)
CompletedIsWhole ==
  \A j \in Jobs : status[j] = "completed" =>
    /\ result[j] \in 1..made /\ owner[result[j]] = j
    /\ result[j] \in deleted \/ Whole(result[j])

(* Nobody works on the job, or will. *)
Abandoned(j) ==
  request[j] = "done" /\ queued[j] = "no" /\ \A k \in Runners : at[<<k, j>>] = "idle"

HasEnded(j) == status[j] \in {"completed", "failed"}

(* Only errors that no session of a task sees, doubled runs, and restarts of
   the worker, fewer than arq has tries for the job. *)
Mild == had \subseteq {"service", "worker", "enqueue"} /\ faults < MaxTries

(* "Exception: On permanent errors (job marked as failed)"
   (snapshot_tasks.py:43): a client that polls a job is told how it ended;
   none stays pending or running when nobody works on it. *)
AlwaysSettled == \A j \in Jobs : Abandoned(j) => HasEnded(j)

(* With mild faults every job ends for good: completed or failed, with
   nobody working on it. *)
JobsEnd == \A j \in Jobs : status[j] = "pending" ~> (Abandoned(j) /\ HasEnded(j)) \/ ~Mild

(* "This captures the current state of all configured PVs."
   (snapshots.py:108): a snapshot that can be listed and restored has all
   its values, or a run is still filling it. *)
NoPartialSnapshot ==
  \A s \in 1..made : s \in deleted \/ Whole(s) \/ \E r \in Runs : snap[r] = s

(* One request makes one snapshot: unless a job is run twice, by a worker
   that restarts or a doubtful enqueue, or the commit that completes it fails,
   retries and fallbacks never leave two whole ones behind. *)
OneSnapshotPerJob ==
  had \cap {"worker", "enqueue", "database"} = {} =>
    \A s, t \in 1..made : owner[s] = owner[t] /\ Whole(s) /\ Whole(t) => s = t

(* "RETRYING: Automatic retry in progress" and "FAILED: Error occurred"
   (docs/api-reference/endpoints.md:591-592): a job that arq will run again
   is not reported as failed. *)
RetryIsNotFailed == \A j \in Jobs : queued[j] = "waiting" => status[j] # "failed"

=============================================================================
