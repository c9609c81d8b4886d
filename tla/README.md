# Verification of the Squirrel backend

TLA+ models of the core of the react-squirrel backend, the TLC configurations
that check them on small instances, and proofs, for every size, of the safety of
its parts: the election and the lease it implements, the cache, the diff stream, the
registry, the jobs that make and restore snapshots, and the requests that read and change
the catalogue. Every safety property that a passing run checks is also a theorem. Paths
below are relative to `src/`.

## 1. The system

Squirrel saves and restores snapshots of EPICS control-system values. Three kinds
of processes share Redis and PostgreSQL:

```
 IOCs --CA/PVA--> monitor process --HSET/SADD, PUBLISH--> Redis --pub/sub--> API process --WebSocket--> clients
                  (one leader)                              |  ^                 |
                                                            |  '-- arq queue <---'  POST snapshots, restore
                                                            v
 IOCs <--puts---- worker process  <------- arq queue        '----> reads of the cache
                      |                                          |
                      '------------- PostgreSQL (jobs, snapshots, PVs, tags, keys)
```

| Component | State it keeps | Operations | What is hard | What makes it correct | Model |
|---|---|---|---|---|---|
| Monitor leader election (`app/monitor_main.py`, lock commands of `app/services/redis_service.py`) | Redis lock with an expiry; the main coroutine and renewal task of each process; which components run | acquire, renew, release, load, start, stop, signal | stalls past the TTL, GET then EXPIRE or DELETE, failed loads, crashes | one monitor; a leader owns the lock; the lock always expires; a stop hands over; somebody always takes over | `MonitorLeader`, and `Lease` for what it promises |
| PV cache and its writers (`pv_monitor.py`, `pvaccess_monitor.py`, `watchdog.py`, `redis_service.py`, `POST /watchdog/check`) | hash of entries, set of disconnected PVs, update queues, subscriptions | callbacks, batches, publication, the watchdog's two loops, restart of a subscription | several writers with several commands each, readings that are old when stored, dropped batches, restarts | a disconnected entry is in the set, values do not go back, the cache catches up, the channel says what the cache says, stale and dead entries are noticed | `PVCache` |
| Diff stream (`app/api/v1/websocket.py`) | connections, subscriptions, index, buffer | connect, subscribe, unsubscribe, get_all, disconnect, listen, flush, heartbeat | an await between any two steps, three coroutines that may disconnect one client, updates that are written and not published | index consistent, diffs in order, updates arrive, dead clients are forgotten | `DiffStream` |
| Subscription registry (`subscription_registry.py`) | Redis sets with expiries, shared by API processes | register, subscribe, unsubscribe, unregister, heartbeat, cleanup | read then pipeline, expiry, crashes, overlapping and failing calls | look-ups are exact, nothing is left of a client that is gone | `SubscriptionRegistry` |
| Snapshot jobs (`api/v1/snapshots.py`, `tasks/snapshot_tasks.py`, `background_tasks.py`, `snapshot_service.py`, repositories, `worker.py`) | job rows, snapshot and value rows, arq queue, the session of each run | create, enqueue or fall back, read, insert, complete, fail, retry | several commits per job, a failed session, retries, timeouts, restarts, jobs run twice | completed jobs have whole snapshots; every job ends; one snapshot per job | `SnapshotJobs` |
| Snapshot restore (the same files, `epics_service.py`, `pvaccess_service.py`) | job rows, results so far, the values of the devices | plan, chunks of CA, PVA and fallback writes, report | late and partial writes, batches that raise, two restores, retries | every PV has one outcome; what is reported restored was written; the counts of the report add up | `Restore` |
| EPICS reads of a snapshot (`epics_service.py`, `pvaccess_service.py`) | what has answered so far | one batch over CA, one over PVA, the fallback for unprefixed names | silent PVs, a batch that raises, a PV that two rows read | a value of a snapshot is what its own address answered; it is null only if that did not answer, or answered what JSON has no number for | `SnapshotRequests` |
| Snapshot requests (`api/v1/snapshots.py`, `snapshot_service.py`, `snapshot_repository.py`) | snapshot and value rows | read by pages, compare, rename, delete, create synchronously | the read assigns to a relationship, other requests delete rows meanwhile, tolerances at zero and for absent values | reading loses nothing; a comparison is right; an answer agrees with what is stored | `SnapshotRequests` |
| PVs, tags, groups (`api/v1/pvs.py`, `api/v1/tags.py`, their services and repositories) | rows and links | create, update, delete, bulk imports, paged searches | check then insert from several requests, constraints that fail at the flush, deadlocks, a session that needs a rollback, pages read between changes | the schema holds, answers agree with what is stored, a walk misses nothing, every request ends | `TagRequests`, `PVRequests` |
| API keys (`api/v1/api_keys.py`, `dependencies.py`) | rows | check, create, deactivate | a key deactivated while its own request runs, two keys that deactivate each other | one active key per application | `KeyRequests` |
| Sessions and tables (`db/session.py`, `repositories/base.py`, `models/`) | rows; flushed and unflushed changes of each request | flush, rollback, commit after the answer | what a flush waits for, refuses or cascades to | foreign keys and unique indexes hold | `Database`, and `Catalogue` for all requests together |
| Circuit breaker (`circuit_breaker.py`) | counters, breaker states | force open, force closed, status | no call goes through it, so no failure opens a breaker; `get_single` skips a CA read while the breaker of its IOC is open (`epics_service.py:61-63`), which only the health endpoint can make it | - | not modelled |
| Lifespan, configuration, routing, schemas | - | start, stop | sequential | - | not modelled |

The monitor talks to the API process only through Redis: it writes the cache and
publishes each batch; the API process subscribes to the channel and reads the
cache when a client subscribes. `PVCache` and `DiffStream` therefore meet at the
hash and the channel (`published` of the one is `wire` of the other).
`DiffStream` and `SubscriptionRegistry` meet at the registry calls of the
manager; `main.py` starts the manager without the registry, so `DiffStream` has
none, and `SubscriptionRegistry` has the part of the manager that calls it.
`SnapshotJobs` and `Restore` share the shape of the queue and of the fallback.
The request handlers of the API process meet in the tables: `Catalogue` composes
`TagRequests`, `PVRequests`, `KeyRequests` and `SnapshotRequests`, which all extend
`Database`. The jobs have commits of their own in `SnapshotJobs` and are not part of
that composition.

## 2. The models

A step is what runs between two awaits (in one event loop), one Redis command or
MULTI pipeline, or one commit. Python code between them is not split further.
Every constant that only bounds the state space is called `Max...` and named in
the guard it cuts.

**MonitorLeader.** `main[i]` is the line of `main()` that process `i` is at,
`renew[i]` that of `_renew_lock_loop()`. `ReleaseGet`/`ReleaseDelete` and
`RenewGet`/`RenewExpire` are the two commands of a release and of a renewal.
A `Tick` is the 10 s of both loops. Processes in `Timely` lose at most
`MaxLate` ticks to slow commands or failed renewals before they have renewed;
the others stall as long as they like. That assumption is what separates the
runs that claim exclusion from those that do not. `Lease` is the election without
lock, clock and renewals: who may monitor (`holders`) and who does (`working`).
`ElectionIsLease` instantiates it with the processes between acquire and release,
and those with a component running; `ImplementsLease` is its specification under
that mapping.

**PVCache.** `device` is what each IOC has, `queue[p]` and `batch[p]` the updates
of monitor `p`, `hash` and `disc` the two Redis keys, `published` the last
message per PV. `setup` is the deployment: the watchdogs there are, whose readings
can be stored, and how often devices change and go down or up; it is chosen once, out of
`Setups`.
Values are numbered in the order the device takes them, so that
"older" is `<`. Processors write a batch in one pipeline, and publish from a
second read (`FetchBatch`, `PublishBatch`). All other writers, the two possible
watchdogs and the start-up error handler, take one step per command
(`ValueHset`, `ValueSrem`, `MarkGet`, `MarkHset`, `MarkSadd`). `torn` is a history
variable: the PVs a writer has left with the first of its two commands done and the
second failed. A reading of a PV
in `setup.stamped` has a datetime timestamp, and `json.dumps` raises on it in
`set_pv_value` (`redis_service.py:136`). That is the usual case: every CA reading has one
(`epics_service.py:128-131`), and every PVAccess structure with a `timeStamp` field. A PV
outside `stamped` is a PVAccess structure without that field. A watchdog can write nothing
of a stamped PV but that it is disconnected; that it heals what it finds is therefore not
claimed (section 5).

**DiffStream.** One endpoint coroutine per client, the listener, the flush task
and the heartbeat task. `out` and `beats` are what the flush and the heartbeat
in progress still have to send. `closing` coroutines wait in `close()` and
delete the entry after it (`Resume`); `SlowClose` says whether a dead socket may
suspend them. The write of the monitor and its publication are two steps, and the second
may fail (`PublishFails`); a watchdog's write is never published (`WriteSilently`); the read
of the initial values may fail, and the client stays subscribed (`ReadFails`). `gap` is a
history variable: the clients and PVs with an update, or an initial value, that was lost
and that no later publication or read has made good.

**SubscriptionRegistry.** The Redis keys with their expiries in ticks of 60 s,
the manager's `_connections` and `_subscriptions`, one registry call at a time
per endpoint, and up to one disconnect per coroutine beside it. Clients in
`Overlap` may be dropped by a task while their endpoint awaits Redis. Any call of a client
or of a cleanup may fail, before or after it took effect, up to `MaxFaults` times:
`RegisterFails` ends the endpoint and leaves the connection to the heartbeat (`conn` is
"lost"), `SubscribeFails` ends it through `disconnect`, `UnregisterFails` leaves everything in
the lists. `missed` is a history variable: the clients with such a failure that no later
unregistering made good.

**SnapshotJobs.** A run is a job in the worker (`arq`) or in the API process
(`bg`). `broken[r]` says that its session refuses statements until it is rolled
back, `pending[r]` counts rows not yet committed, `rows` the committed ones.

**Restore.** The same runs, and `sync` for the request that restores itself.
A value is named by the job that writes it. The puts of a batch are under way
together and end in any order; one without an answer in time may be carried out
later (`late`). `report` is what the job table has in the end: the counts and the names of at
most `Listed` failures (50 in the code). `foreign[r]` is a history variable: the PVs others wrote since `r`
read its plan.

**Database, TagRequests, PVRequests, KeyRequests, SnapshotRequests, Catalogue.** `db` is
what is committed, `tx[r]` what request `r` has flushed, `work[r]` what its session
has yet to flush; `at[r]` is the await it has reached and `next[r]` the one after
the flush. A handler reads at one await and flushes at the next, so that others
come in between. `FlushDone`, `FlushFails` and `Deadlock` are PostgreSQL and
SQLAlchemy as the handlers meet them: a statement waits for the rows, foreign keys
and index entries that an open transaction holds (`Blocks`), then is refused
(`Violates`), finds its row gone (`Stale`), or takes effect with the cascades of
the schema; of transactions that wait in a circle one is cancelled. `broken[r]` is
the session that needs a rollback. `Answer` comes before `Commit`, as FastAPI runs the
end of `get_db` after the response. What is asked of the system is a constant:
`Scenarios` is a set of records of the call each request makes and the rows there
are at the start, and a behaviour begins by choosing one. `Left` bounds the rows: a
handler inserts one only while an id of the table is left. Two assumptions say what the
constants may be. `TablesAssumption`: an id tells its table, as a foreign key does.
`ScenariosAssumption`: a call names ids of the tables its service looks them up in, a page
has at least one row (`ge=1`, `app/api/v1/pvs.py:52`), tolerances are numbers, and the rows at the
start keep the schema. `Fold` is `str.lower`,
`Protocol` the prefix of an address, `Fallback` a setting. A captured value is
named by the address that answered (`ReadingOf`), so that a value in the wrong
column or row shows; the addresses in `call.nan` answer NaN or an infinity, which is stored
as null (`Sanitized`).

`PROJECT.json` maps every definition to the lines it stands for.

## 3. The runs

Ten runs must pass, two must find a violation. The bounds are small because the
interesting cases need few parties: two writers of a key, two owners of a lock,
two clients of an index, one retry more than a first run.

| Run | Question | Bounds and why they are enough |
|---|---|---|
| `leader_timely` | Do timely instances exclude each other, own the lock while they lead, and delete only their own? | 3 instances, so that a third can take what two dispute; TTL 3 ticks as in the code (30 s / 10 s), one lost tick, two faults |
| `leader_recovery` | Does the lock always expire, does a release hand over, does a waiter see a monitor whatever stalls? | 2 instances, none timely, 2 faults |
| `cache_pipeline` | Do the batch processors keep values in order; without a fault, do cache, channel and device come to agree? | 2 PVs, batches of 2 out of queues of 3 so that a batch is cut, 2 values each, devices going down and coming back, one fault |
| `cache_watchdog` | Between the commands of a watchdog and the batches, and after a fault: is a disconnected entry always in the set, does the cache say no more than was published, is what is stale or dead noticed? | 1 PV, 2 values, an outage and a return, one fault; the deployments of `AlsoRequested`: the watchdog of the monitor with readings that can and cannot be stored, the one of the API process as well (1 value, one flip), none. One PV suffices: the commands of different PVs touch different fields |
| `stream_index` | Do the two views of subscriptions agree, and is a dead client forgotten, with closes that suspend? | 2 clients, 1 PV, 2 hang-ups |
| `stream_delivery` | Are diffs in order, and is a subscribed client sent the current value unless an update was lost? | 1 client (a second would only delay its sends, which the steps allow anyway), 3 updates, 2 messages in flight, one outage, one failed command, one hang-up |
| `registry_lookup` | Are look-ups sound and, until a key expires, exact? | 2 instances, 2 clients (one of them with overlapping calls), keys of 2 ticks, one failed call |
| `jobs_ends` | Are completed snapshots whole and single, does every job end? | 1 job, 2 chunks, 3 tries and 3 faults of any of 7 kinds |
| `jobs_stuck` | Is every job that nobody works on completed or failed? Violated. | 1 job, one deletion |
| `restore_report` | Is the outcome of every PV known, true and reported? | 2 jobs, 2 PVA PVs that make one batch, an unprefixed one and a read-only CA one, chunks of 2, a report that names 1 failure, 2 tries, one fault of any of 9 kinds. So a batch raises with one PV of two written, and the list of failures is cut. The constraint `OneOfAll` leaves out that both jobs restore the whole snapshot: the second restores a part |
| `catalogue` | Do the schema and the answers hold, are walks, comparisons and captures right, and does every request end? | Every pair of calls out of lists of 6 to 8 for groups, tags, imports, PVs, keys and snapshots, walks against two changes, direct snapshots of PVs of every protocol, with and without a shared readback and with a NaN, and single comparisons over all values and tolerances of a small set. A negative absolute tolerance is among them: the schema accepts it (`app/schemas/pv.py:15-16` has no lower bound), and with it equal numbers differ. Two calls suffice for check-then-insert, lost updates and deadlocks; three for a walk with an insertion and a deletion |
| `snapshot_page` | Does reading a page of a snapshot leave its other values alone? Violated. | 1 request, 2 values, pages of 1 |

`CHECK_DEADLOCK FALSE` stands where the system may come to rest: devices,
clients and jobs are used up by their bounds.

**Fairness.** Weak fairness only. Coroutines that are ready are run by the event
loop, a periodic task wakes up, Redis and PostgreSQL answer (a failure is a step
of its own, bounded by `MaxFaults`). Nothing forces a device to change, a client
to act, an operator to start or stop a process, or a fault to happen.
For `catalogue`, weak fairness of the whole next-state
relation is enough: every behaviour comes to rest, and `EveryRequestEnds` says that it
rests nowhere but at the end.
`Recovery` relies on `Tick`; `StaleIsNoticed` and `DeadIsNoticed` on entries
growing old (`GrowsOld`), that is on the passage of time, and on the libraries
connecting to devices they can reach.

**Conditions in properties.** Some properties hold only while something has not
happened, and say so:

- `OneMonitor`, `LeaderHoldsLock` and `ReleaseOnlyOwn` are checked of instances that are
  timely; what a longer stall does is in `leader_stalls`.
- `CacheCatchesUp` and `PublishedMatchesHash` hold while there was no fault. The second
  excepts what a watchdog wrote, which nobody publishes: of a PV with timestamps an entry
  that says disconnected, of another PV any.
- `DisconnectedIsListed` is of PVs with timestamps, outside the two commands of a writer,
  and of PVs that are not `torn`.
- `StaleIsNoticed` and `DeadIsNoticed` need the watchdog of the monitor process.
- `UpdatesReachClients` excepts what is in `gap`: an update that was never published
  because the publication failed or because a watchdog wrote it; one published while the
  listener was not subscribed; one left in a flush that a `KeyError` ended; an initial value
  whose read failed. Each exception ends with the next publication that is heard or the next
  read for the client.
- `LookupComplete` and `UnregisteredIsGone` hold until a key expires. `UnregisteredIsGone`
  and `LocalLookupSound` except a client in `missed`, and the former those in `Overlap`.
- `JobsEnd` and `AbandonedIsCompleted` hold after mild faults only, `OneSnapshotPerJob` unless
  a job is run twice.
- `RestoredUnlessOverwritten` excepts PVs that somebody else wrote since the plan was read.
- `AnswersAreTrue` excepts an import that has met an error and a snapshot from the cache
  whose values were refused.

The bounds let the other case happen too; what the code does then is in section 5.

## 4. The proofs

Each component has its theorems in a module of its own. They hold for any number of
instances, clients, PVs and jobs, for any number of faults, and for every value of the
other bounds that the assumptions named beside the CONSTANTS allow. Every module starts
with type correctness; where the types rest on more (an actor at a command has a PV in
hand, the chunks of a run add up), that is proved in the same induction.

**`MonitorLeaderProofs`** needs a TTL above `MaxLate + 1`.

| Theorem | States | Assumes | Argument |
|---|---|---|---|
| `TypeCorrect` | `TypeOK` | - | inductive as it stands; the clock never exceeds the budget of a timely instance |
| `LockAlwaysExpires` | `LockExpires` | - | inductive with the types: SET carries EX, and EXPIRE never makes a key |
| `ReleaseHandsOver` | `ReleasedIsFree` | - | `HolderOwns`: whoever the lock names still owns or is releasing. Needed because an EXPIRE after another's GET could otherwise be thought to bring an owner back |
| `LeadersHoldTheLock` | `LeaderHoldsLock` | all timely | `OwnerHasTime`: the time left to the key is at least the TTL less what its owner has lost since, and `TasksMatch`: a renewal task runs exactly while main is between acquire and release |
| `AtMostOneMonitor` | `OneMonitor` | all timely | two leaders would both be named in the lock |
| `ReleasesOnlyItsOwn` | `ReleaseOnlyOwn` | all timely | a releasing instance is still the owner at its DELETE |
| `TimelyElectionIsLease` | `ImplementsLease` | all timely | step by step: an acquisition finds the lock free, hence no owner (`AcquireTakes`); the first component to start and the last to stop are the two visible steps of the components (`ComponentsWorkAndRest`); a release finds the lock its own, so that only its DELETE gives the lease up; an exit takes the components along (`ExitDies`); all else stutters |

`LeaderHoldsLock` is not inductive: it says nothing of how much time is left,
and a tick would end it. `OwnerHasTime` counts the ticks lost against the
ticks the lock has left. The mapping to the lease adds no invariant of its own.

**`PVCacheProofs`**. `OneProtocol` (one of the two monitors subscribes to a PV) and
`MonitorAlone` (one protocol, and no deployment in `Setups` with a watchdog) are hypotheses
on the constants.

| Theorem | States | Assumes | Argument |
|---|---|---|---|
| `TypeCorrect` | `TypeOK` | - | with `OnIsPV` |
| `DisconnectedAreListed` | `DisconnectedIsListed` | - | `AllListed`: whatever takes a PV out of the set makes its entry connected in the same step, or is `ValueSrem`, which an actor never reaches with a PV that has timestamps (`StampedRaises`); whatever makes an entry disconnected adds it in the same step or is followed by its SADD |
| `ChannelFollowsHash` | `PublishedMatchesHash` | `OneProtocol` | `Told`: the channel lags the hash by the batch in hand, which has been read back; in between a watchdog can only have changed the hash to what the exception names |
| `ValuesGoForward` | `ValueNeverRegresses` | `MonitorAlone` | `InOrder`: hash, batch, queue and device are in this order, position by position, and connection events carry no value; `Fresh`: what the start-up handler writes back is what is there |

With a watchdog the last is false: `cache_overwrite` in section 5.
In `ValuesGoForward` the position of the last item of a PV in a batch is found with the
least-number principle (`LeastOf`), since induction over data is out of reach.

**`DiffStreamProofs`**.

| Theorem | States | Argument |
|---|---|---|
| `TypeCorrect` | `TypeOK` | inductive as it stands |
| `IndexStaysConsistent` | `IndexConsistent` | `NewIsUnknown`: a client id that has not connected is in no table. One lemma (`TaskDropsConsistent`) covers the coroutines that drop a client other than its own |
| `DiffsComeInOrder` | `DiffsInOrder` | `WayInv`: along wire, buffer, what the flush has left to send and what was sent, no value of a PV is older than the one ahead of it, and none is newer than the cache. The property alone says nothing of what is still on its way |

**`SubscriptionRegistryProofs`**.

| Theorem | States | Argument |
|---|---|---|
| `TypeCorrect` | `TypeOK` | inductive as it stands |
| `LookupIsSound` | `LocalLookupSound` | `LookupInv`: who belongs where (`Placed`), which calls may be under way (`InTurn`), why a registered client is connected, on its way out or in `missed` (`Registered`), and that a cleanup only has clients of instances that are gone in hand (`OnlyTheGone`) |
| `LookupFindsAll` | `LookupComplete` | `InStep`, until a key expires: the lists of a connected client differ from what it wants by the call under way only; a call that fails disconnects its client |
| `NothingIsLeft` | `UnregisteredIsGone` | `Known`, until a key expires: a client outside `Overlap` is in no list that its own key does not name, nor in one that its unregistering has not read; one outside `missed` has been unregistered to the end |

`OnlyTheGone` holds for every `DeadAge`: a heartbeat that is looked at late can make
a cleanup wait, but never makes it touch a client of an instance that is up.

**`SnapshotJobsProofs`**.

| Theorem | States | Argument |
|---|---|---|
| `TypeCorrect` | `TypeOK` | with `FillInv`: a run fills a snapshot of its own (`RunsOwn`), committed and pending chunks are those it has come to (`RowsAddUp`), and no run in the background starts before the POST has added it (`NotEarly`) |
| `CompletedSnapshotsAreWhole` | `CompletedIsWhole` | `ResultWhole`: the snapshot of a completed job is its own and whole, and rows never become fewer |
| `OneRequestOneSnapshot` | `OneSnapshotPerJob` | `Once`: unless a job is doubled or its last commit fails, it has one run at a time (`OneRunner`), and after a whole snapshot no other (`OnceWhole`) |

**`RestoreProofs`**.

| Theorem | States | Argument |
|---|---|---|
| `TypeCorrect` | `TypeOK` | with `RestoreInv` |
| `OutcomesAddUp` | `EveryWriteHasAnOutcome` | `RestoreInv`: each PV of the plan is in one place, in the rest, in the chunk, or done with one outcome (`AllSorted`); the queue has a run exactly while it says so (`InOrder`) |
| `RestoredHolds` | `RestoredUnlessOverwritten` | `Holds`: from the put on, unless others have written the PV since the plan was read |
| `ReportsAreComplete` | `ReportIsComplete` | inductive relative to `RestoreInv`: at the end of a run its successes and failures are disjoint and make up the plan (`WholeOutcome`), so that their numbers add up (`ReportAccounts`) |
| `AbandonedJobsAreCompleted` | `AbandonedIsCompleted` | `Unharmed`: under mild faults no run fails, and a job that is not decided has a run or waits for one, with a try left for each restart |

**`CatalogueProofs`** holds for any tables, any number of requests, and any calls that they
make at the same time.

| Theorem | States | Argument |
|---|---|---|
| `TypeCorrect` | `TypeOK` | `Legal(home)`: a tag has one group for ever, its `home`, in every copy of its row, committed, flushed or in a session; what a handler has flushed or has in hand at each of its awaits (`Control`). From `home` the parents of a row follow from its id alone, so that cascades can be followed through rows that other requests change (`CascadeIsClosed`) |
| `SchemaStands` | `SchemaHolds` | `Consistent`: the tables, and what each request sees, keep keys and foreign keys, and open transactions are `Apart`. Apart is what `Blocks` waits for; it makes every commit keep the schema (`CommitIsSound`) and every flush leave the others apart (`FlushIsSound`) |
| `AnswersTell` | `AnswersAreTrue` | `AllSettled`: what a request has answered and stored at each step. The flush that only the commit makes cannot fail (`ReadersCommit`): it deletes values, which no transaction that waits has touched |
| `ComparisonsAreRight` | `ComparisonIsRight` | from the types of the rows read; both tolerances are compared in hundredths (`WithinIsClose`) |
| `WalksAreComplete` | `WalkIsComplete` | `WalkSoFar`: a PV that was there at the first page and still is, is listed or lies beyond the token. `NewPVs`: a PV not yet committed is nobody else's and in no table, so none that a walk waits for goes and comes back. `SortedIs` and `PageFollows` say what ORDER BY and LIMIT give |
| `CapturesAreTrue` | `CaptureIsTrue` | `CaptureSoFar`: what a direct snapshot has heard after each of its three reads, and that what it flushes last records it; other requests leave what it has in hand alone (`AllAside`, `HeardAside`) |

`StaysLegal`, `StaysConsistent` and `StaysSettled` are the theorems that the three invariants
hold. `SchemaHolds` by itself is not inductive: it says nothing of rows that are flushed and
not committed, and two open transactions may each keep the schema and break it together.
The proof of `ComparisonsAreRight` needed the exception for negative tolerances, and that of
`WalksAreComplete` a page size of at least one: a page of none would be followed by itself.

**Only model-checked** are the liveness properties, since liveness under fairness is out of
the prover's reach: `Recovery`, `CacheCatchesUp`, `StaleIsNoticed`, `DeadIsNoticed`,
`BrokenIsForgotten`, `UpdatesReachClients`, `JobsEnd` and `EveryRequestEnds`. The proofs take
PostgreSQL as `Database` has it; nothing is proved of the database itself.

## 5. Where documents and code differ

Two disagreements are runs of the project (`jobs_stuck`, `snapshot_page`).
The others are kept as configurations; running TLC on each gives a trace that
ends in the violation named. Where two rows name one configuration, TLC shows both
violations when run with `-continue`.

| Configuration (module) | Property | The text | What the code does |
|---|---|---|---|
| `cache_unstorable` (`MCPVCache`) | `MarksOnlyDead` | "PV is alive, update the cache with fresh value", `app/services/watchdog.py:259` | `EpicsValue.timestamp` is a datetime, which `json.dumps` in `set_pv_value` refuses (`redis_service.py:136`); the handler (`watchdog.py:276`) marks the live PV disconnected |
| `jobs_stuck` (`SnapshotJobs`) | `AlwaysSettled` | "On permanent errors (job marked as failed)", `app/tasks/snapshot_tasks.py:43` | `mark_failed` runs in the session that failed, without a rollback, and fails too; that is only logged and the job stays running |
| `jobs_timeout` (`SnapshotJobs`) | `AlwaysSettled` | "Job timeout handling", `app/worker.py:14` | a task cancelled at `job_timeout` leaves with `CancelledError`, which `except Exception` does not catch |
| `jobs_promises` (`SnapshotJobs`) | `NoPartialSnapshot` | "This captures the current state of all configured PVs.", `app/api/v1/snapshots.py:108` | the snapshot row is committed before its values (`snapshot_service.py:405-408`) and stays, empty, when they fail |
| `jobs_promises` (`SnapshotJobs`) | `RetryIsNotFailed` | "`FAILED`: Error occurred", "`RETRYING`: Automatic retry in progress", `docs/api-reference/endpoints.md:591-592` | the job is marked failed before `Retry` is raised |
| `leader_stalls` (`MCMonitorLeader`) | `OneMonitor` | "Only one monitor instance should run at a time", `app/monitor_main.py:71` | a leader that lost the lock logs it (`:230-232`) and goes on |
| `leader_stalls` (`MCMonitorLeader`) | `ReleaseOnlyOwn` | "Release the monitor lock if we own it.", `redis_service.py:536` | GET, then a DELETE that compares nothing (`:547-550`) |
| `cache_unstorable` (`MCPVCache`) | `SetMatchesHash` | "Track disconnected PVs in a separate set for quick lookup", `redis_service.py:138` | a batch between the two commands of a watchdog leaves hash and set different for good |
| `cache_heals_race` (`MCPVCache`) | `WatchdogHeals` | "This catches edge cases that connection callbacks might miss", `watchdog.py:66` | a reading with a timestamp cannot be stored, so that the watchdog only ever marks (`redis_service.py:136`); and for readings without one, after such a race a PV is disconnected in the hash and missing in the set, and neither loop visits it (checked with these, two outages) |
| `cache_overwrite` (`MCPVCache`) | `ValueNeverRegresses` | "PV is alive, update the cache with fresh value", `watchdog.py:259` | the reading may be older than what the monitor stored meanwhile |
| `cache_never_connected` (`MCPVCache`) | `NeverConnectedIsCaught` | "PVs that never connected initially", `watchdog.py:67` | such a PV is in neither hash nor set, and in neither loop |
| `stream_initial` (`DiffStream`) | `ViewInOrder` | "Initial subscription sends all current values", "Subsequent messages only include changed PVs", `docs/api-reference/websocket.md:301-302` | a diff may be sent between the reading and the sending of the initial values; and a client that subscribes again during a flush gets the initial value, then an older diff. What it shows may then stay old until the PV changes again |
| `registry_expiry` (`MCSubscriptionRegistry`) | `LookupLasts` | "any instance can look up which clients need it", `subscription_registry.py:10` | the keys expire after an hour and only a new subscribe extends them |
| `registry_dead` (`MCSubscriptionRegistry`) | `DeadAreCleaned` | "Remove subscriptions from instances that haven't sent heartbeat.", `subscription_registry.py:253` | the heartbeat key is gone at 60 s, before it can look 120 s old |
| `restore_mixed` (`MCRestore`) | `AllRestored` | "All N PVs have been restored to their snapshot values.", `snapshot_tasks.py:170` | with two restores at a time each can report this while the devices have a mix |
| `restore_empty` (`MCRestore`) | `OnlyAskedAreWritten` | "If None, restore all", `app/schemas/snapshot.py:84` | an empty list is taken for no list, and restores all |
| `snapshot_page` (`MCCatalogue`) | `ReadsLoseNothing` | "Use limit/offset for pagination when dealing with large snapshots.", `app/api/v1/snapshots.py:78` | `get_with_values` assigns the page to `snapshot.values` (`snapshot_repository.py:48`), a relationship with `delete-orphan` (`models/snapshot.py:24`); the commit deletes every value that is not on the page |
| `catalogue_names` (`MCCatalogue`) | `NamesAreDistinct` | "Check for duplicate name", `tag_service.py:48`; "Check for duplicate tag name in group", `:123` | two requests pass the check at once; the index on groups is on the name as written, tags have none, and a rename of a tag does not check |
| `catalogue_lockout` (`MCCatalogue`) | `SomeKeyIsActive` | "Cannot deactivate the API key currently used for authentication", `api_keys.py:49` | two keys deactivate each other at the same time, without force |
| `catalogue_leftover` (`MCCatalogue`) | `ErrorsLeaveNothing` | "This captures the current state of all configured PVs.", `snapshots.py:108` | a PV deleted after the snapshot row was committed makes the insert of the values fail: the request answers 500 and leaves an empty snapshot |
| `catalogue_import` (`MCCatalogue`) | `SuccessIsStored` | "Bulk import tags with duplicate handling.", `api/v1/tags.py:188` | after one failed flush every other tag of the import fails in the broken session, each as a warning; the answer is 200 with counts, and the commit stores nothing |
| `catalogue_search` (`MCCatalogue`) | `SearchIsComplete` | "Paginated endpoints use continuation tokens (not offset-based)", `docs/api-reference/index.md:104` | `GET /pvs/search` takes an offset, and misses a PV when one before it is deleted |
| `catalogue_retag` (`MCCatalogue`) | `TagsAreOnesAskedFor` | `pv.tags = tags`, `pv_service.py:187` | links are inserted and deleted relative to the tags loaded: of two updates at once the PV gets the tags of both |
| `catalogue_compare` (`MCCatalogue`) | `ShownDiffer`, `ComparisonIsSymmetric` | "Compare two snapshots and return differences", `snapshots.py:285` | a PV whose readbacks differ is reported with its equal setpoints; the relative tolerance is of the first value, so the answer depends on the order (`-continue` shows both) |
| `catalogue_shared` (`MCCatalogue`) | `CaptureIsWhole` | "This captures the current state of all configured PVs.", `snapshots.py:108` | of PVs with one readback address only one gets the reading (`snapshot_service.py:239`) |
| `catalogue_silent` (`MCCatalogue`) | `EveryRequestEnds` | "Read timeout for PVAccess", `app/config.py:23` | the batch read has no timeout (`pvaccess_service.py:111`): a PVA PV that never answers holds the request |

A client in `Overlap` may also stay in a subscriber list although
`subscription_registry.py:125` says "Remove client from all PV subscriber lists":
`unregister_client` removes what it read before its pipeline (`:111`).
`registry_lookup` therefore excepts these clients in `UnregisteredIsGone`. And when the
read (`:111`) or the pipeline (`:130`) of `unregister_client` raises, through
`websocket.py:191`, nothing is removed and no line tries again, but for the endpoint's own
`disconnect` after that of a task: the client stays in the client list of its instance,
which has no expiry, and until the hour is over in the lists of its PVs, so that the
instance looks up a client it does not have. `missed` says which clients those are.

With two clients and closes that suspend, a `KeyError` in the middle of a flush loses the
updates of the clients after it (`gap`). `stream_delivery` has one client and closes that
do not suspend.

## 6. What is left out

- `PVCache`: `refresh_pv_list` (nothing calls it), deletion of entries, the
  heartbeat key, statistics.
- `DiffStream`: `stop()` of the manager, the statistics endpoint; with the pinned
  libraries the close of a dead socket raises at once, so `stream_delivery` runs
  with `SlowClose = FALSE` and only `stream_index` allows the slow case.
- `SubscriptionRegistry`: the client-to-instance keys, which are never read; heartbeats
  that fail for a whole minute. A heartbeat that fails now and then changes nothing in
  ticks of a minute. After six of them the key of a live instance would expire, which no
  line reacts to: a cleanup acts on keys that exist and look old, and none does.
- `SnapshotJobs`: the read of EPICS or the cache is one step that succeeds or fails;
  the progress numbers.
- `Restore`: `put_single`, which nothing calls; the progress numbers; the text of
  errors, of which only "names a connection or a timeout" matters.
- `TagRequests`, `PVRequests`: descriptions and devices; what a search is filtered by; the
  readback and config addresses have no constraint and only the readback is kept,
  for the captures. A PV without any setpoint is not considered.
- `SnapshotRequests`: what the values of a snapshot from the cache are; statuses, times
  and units; the list of snapshots.
- `KeyRequests`: tokens and their hashes: a key authenticates by its id.
- `Catalogue`: a database that fails at a commit. The commit comes after the answer, so
  that a success would have been reported for nothing.
- Clients that go away before the answer: the handler is taken to finish.
- The circuit breaker: its state can be forced and shown, and an open one makes
  `get_single` report an IOC as not answering, which `ReadDevice` allows as a fault.
  No call in the repository goes through it, so that no failure opens one.
- aioca, p4p, arq, Redis and PostgreSQL themselves: modelled from how the code
  uses them.

## 7. Plan

Done, in this order: `MonitorLeader` with its proofs, `PVCache`, `DiffStream`,
`SubscriptionRegistry`, `SnapshotJobs`, `Restore`, `Database` with the request modules and
`Catalogue`, `Lease` with its refinement, the proofs of section 4.

1. Abstract specifications: `JobLife` (pending, running, then completed or failed,
   once), implemented by `SnapshotJobs` under mild faults and by `Restore` for one run;
   `Delivery` (a reader sees a growing subsequence of what was written), implemented by
   `PVCache` and `DiffStream` joined at hash and channel. `ValuesGoForward` and
   `DiffsComeInOrder` are its two halves.
2. The commits of jobs beside the requests of `Catalogue`, instead of the single
   `DeleteSnapshot` that `SnapshotJobs` and `Restore` have.
3. `stop()` of the diff stream manager while flush and endpoints are in progress.
4. A theorem that pins the violation of `snapshot_page`: when every `get_snapshot` and
   comparison of a scenario reads the whole snapshot, `ReadsLoseNothing` holds, so only
   a page loses values.
