------------------------------- MODULE PVCache -------------------------------
(***************************************************************************)
(* The path of a PV value into the Redis cache: subscriptions of the CA    *)
(* and PVAccess monitors (app/services/pv_monitor.py,                      *)
(* pvaccess_monitor.py), their update queues and batch processors, the     *)
(* watchdog (watchdog.py), and the hash and the disconnected set that      *)
(* app/services/redis_service.py writes.                                   *)
(*                                                                         *)
(* Each processor writes hash and set in one MULTI pipeline.  All other    *)
(* writers use set_pv_value (HSET, then SREM or SADD) or set_pv_connected  *)
(* (HGET, HSET, then SREM or SADD): one Redis command per step here.       *)
(* Protocols = {"ca", "pva"} is an unprefixed PV list with                 *)
(* epics_unprefixed_pva_fallback on, where both monitors write every PV.   *)
(***************************************************************************)
EXTENDS Integers, Sequences, FiniteSets

CONSTANTS PVs,
          Protocols,     \* the monitors that subscribe to every PV
          Setups,        \* the deployments considered, as records of
                         \* dogs: "monitor", its watchdog; "api", POST /watchdog/check,
                         \* stamped: PVs whose readings carry a datetime timestamp,
                         \* values, flips: bounds on the values a device goes
                         \* through, and on devices going down or up
          BatchSize,     \* distinct PVs per batch (100 in the code)
          MaxVal,        \* the largest of the first bounds
          MaxFlips,      \* and of the second
          MaxQueue,      \* bound on waiting updates
          MaxFaults      \* bound on failed commands, lost links, crashes

ASSUME SetsAssumption ==
  /\ Protocols \subseteq {"ca", "pva"} /\ Protocols # {}
  /\ Setups \subseteq [dogs : SUBSET {"monitor", "api"}, stamped : SUBSET PVs,
                       values : 1..MaxVal, flips : 0..MaxFlips]
  /\ Setups # {}
ASSUME BoundsAssumption ==
  /\ BatchSize \in Nat \ {0} /\ MaxVal \in Nat \ {0}
  /\ MaxFlips \in Nat /\ MaxQueue \in Nat /\ MaxFaults \in Nat

(* PVCacheEntry, with the values of a device numbered in the order it takes
   them and 0 for None. *)
Entries == [val : 0..MaxVal, conn : BOOLEAN]
Lost == [val |-> 0, conn |-> FALSE]
Missing == [val |-> -1, conn |-> FALSE]
NoPV == "no pv"

(* Everything that writes single entries: the watchdogs, and the startup of
   the monitors when camonitor() or monitor() raises. *)
Dogs == {"monitor", "api"}
Actors == Dogs \cup {"starter"}
ActorStates == {"idle", "start", "disconnected", "valueHset", "valueSrem", "restart",
                "stale", "markGet", "markHset", "markSadd"}

VARIABLES
  device,     \* device[pv]: the value of the PV and whether its IOC is up
  link,       \* link[p][pv]: none, searching, connected, or lost unnoticed
  queue,      \* queue[p]: _update_queue
  batch,      \* batch[p]: updates of the batch being processed
  stage,      \* stage[p]: where _process_update_queue is
  fetched,    \* fetched[p]: what publish_pv_updates_bulk read
  hash,       \* squirrel:pv:values
  disc,       \* squirrel:pv:disconnected
  old,        \* cached PVs with updated_at beyond the stale threshold
  torn,       \* history: PVs whose last writer stopped between its two commands
  published,  \* the last update published for each PV
  starting,   \* subscriptions that start() of the monitors has yet to make
  at,         \* at[a]: the next command of actor a
  on,         \* on[a]: the PV it works on
  got,        \* got[a]: what it read, from the device or from the hash
  todo,       \* todo[a]: the PVs its loop has left
  phase,      \* phase[a]: the loop it is in, or the handler of the stale loop
  setup,      \* the deployment this is
  flips, faults

redis == <<hash, disc, old, torn>>
pipeline == <<queue, batch, stage, fetched, published>>
actors == <<starting, at, on, got, todo, phase, setup>>
vars == <<device, link, pipeline, redis, actors, flips, faults>>

TypeOK ==
  /\ device \in [PVs -> [val : 1..MaxVal, up : BOOLEAN]]
  /\ link \in [Protocols -> [PVs -> {"none", "search", "conn", "lost"}]]
  /\ queue \in [Protocols -> Seq([pv : PVs, entry : Entries])]
  /\ batch \in [Protocols -> [PVs -> Entries \cup {Missing}]]
  /\ stage \in [Protocols -> {"collect", "write", "read", "publish"}]
  /\ fetched \in [Protocols -> [PVs -> Entries \cup {Missing}]]
  /\ hash \in [PVs -> Entries \cup {Missing}]
  /\ disc \subseteq PVs
  /\ old \subseteq PVs /\ torn \subseteq PVs
  /\ published \in [PVs -> Entries \cup {Missing}]
  /\ starting \subseteq Protocols \X PVs
  /\ at \in [Actors -> ActorStates]
  /\ on \in [Actors -> PVs \cup {NoPV}]
  /\ got \in [Actors -> Entries \cup {Missing}]
  /\ todo \in [Actors -> SUBSET PVs]
  /\ phase \in [Actors -> {"start", "disconnected", "stale", "except"}]
  /\ setup \in Setups
  /\ flips \in 0..MaxFlips
  /\ faults \in 0..MaxFaults

Empty == [pv \in PVs |-> Missing]

Init ==
  /\ device \in [PVs -> [val : {1}, up : BOOLEAN]]
  /\ link = [p \in Protocols |-> [pv \in PVs |-> "none"]]
  /\ queue = [p \in Protocols |-> <<>>]
  /\ batch = [p \in Protocols |-> Empty]
  /\ stage = [p \in Protocols |-> "collect"]
  /\ fetched = [p \in Protocols |-> Empty]
  /\ hash = Empty /\ disc = {} /\ old = {} /\ torn = {}
  /\ published = Empty
  /\ starting = Protocols \X PVs
  /\ at = [a \in Actors |-> IF a = "starter" THEN "start" ELSE "idle"]
  /\ on = [a \in Actors |-> NoPV]
  /\ got = [a \in Actors |-> Missing]
  /\ todo = [a \in Actors |-> {}]
  /\ phase = [a \in Actors |-> IF a = "starter" THEN "start" ELSE "disconnected"]
  /\ setup \in Setups
  /\ flips = 0 /\ faults = 0

Fault == faults < MaxFaults /\ faults' = faults + 1

-----------------------------------------------------------------------------
(* Devices and subscriptions.  aioca and p4p are external: a subscription
   searches until its IOC answers, reports the value when it connects and at
   every change, and reports a disconnection once.  A lost subscription is
   one that silently stopped. *)

Reading(pv) == [val |-> device[pv].val, conn |-> TRUE]

(* on_value_change and _queue_update: one task per event, in event order. *)
Deliver(ps, pv, entry) ==
  /\ \A p \in ps : Len(queue[p]) < MaxQueue
  /\ queue' = [p \in Protocols |->
                 IF p \in ps THEN Append(queue[p], [pv |-> pv, entry |-> entry])
                             ELSE queue[p]]
  /\ UNCHANGED <<batch, stage, fetched, published>>

LinkUp(p, pv) ==
  /\ link[p][pv] = "search" /\ device[pv].up
  /\ link' = [link EXCEPT ![p][pv] = "conn"]
  /\ Deliver({p}, pv, Reading(pv))
  /\ UNCHANGED <<device, redis, actors, flips, faults>>

LinkDown(p, pv) ==
  /\ link[p][pv] = "conn" /\ ~device[pv].up
  /\ link' = [link EXCEPT ![p][pv] = "search"]
  /\ Deliver({p}, pv, Lost)
  /\ UNCHANGED <<device, redis, actors, flips, faults>>

LinkLost(p, pv) ==
  /\ link[p][pv] \in {"search", "conn"}
  /\ Fault
  /\ link' = [link EXCEPT ![p][pv] = "lost"]
  /\ UNCHANGED <<device, pipeline, redis, actors, flips>>

DeviceChanges(pv) ==
  /\ device[pv].up /\ device[pv].val < setup.values
  /\ device' = [device EXCEPT ![pv].val = @ + 1]
  /\ Deliver({p \in Protocols : link[p][pv] = "conn"}, pv,
             [val |-> device[pv].val + 1, conn |-> TRUE])
  /\ UNCHANGED <<link, redis, actors, flips, faults>>

DeviceFlips(pv) ==
  /\ flips < setup.flips
  /\ flips' = flips + 1
  /\ device' = [device EXCEPT ![pv].up = ~@]
  /\ UNCHANGED <<link, pipeline, redis, actors, faults>>

-----------------------------------------------------------------------------
(* The batch processors *)

(* How many updates one batch takes: until it holds BatchSize distinct PVs
   or the queue is empty. *)
Taken(q) ==
  CHOOSE k \in 1..Len(q) :
    LET distinct(j) == Cardinality({q[i].pv : i \in 1..j})
    IN /\ \A j \in 1..(k - 1) : distinct(j) < BatchSize
       /\ k = Len(q) \/ distinct(k) = BatchSize

LastFor(q, pv) == CHOOSE i \in DOMAIN q : q[i].pv = pv /\ \A j \in DOMAIN q : q[j].pv = pv => j <= i
FirstFor(q, pv) == CHOOSE i \in DOMAIN q : q[i].pv = pv /\ \A j \in DOMAIN q : q[j].pv = pv => i <= j

(* As a mutant: the first update of a PV wins over the later ones. *)
CollectFirst(p) ==
  /\ stage[p] = "collect" /\ queue[p] # <<>>
  /\ LET k == Taken(queue[p])
         taken == SubSeq(queue[p], 1, k)
     IN /\ batch' = [batch EXCEPT ![p] = [pv \in PVs |->
                       IF \E i \in 1..k : taken[i].pv = pv
                       THEN taken[FirstFor(taken, pv)].entry ELSE Missing]]
        /\ queue' = [queue EXCEPT ![p] = SubSeq(@, k + 1, Len(@))]
  /\ stage' = [stage EXCEPT ![p] = "write"]
  /\ UNCHANGED <<device, link, fetched, published, redis, actors, flips, faults>>

(* As a mutant: the queued item is batched whole, not the entry in it. *)
CollectWhole(p) ==
  /\ stage[p] = "collect" /\ queue[p] # <<>>
  /\ LET k == Taken(queue[p])
         taken == SubSeq(queue[p], 1, k)
     IN /\ batch' = [batch EXCEPT ![p] = [pv \in PVs |->
                       IF \E i \in 1..k : taken[i].pv = pv
                       THEN taken[LastFor(taken, pv)] ELSE Missing]]
        /\ queue' = [queue EXCEPT ![p] = SubSeq(@, k + 1, Len(@))]
  /\ stage' = [stage EXCEPT ![p] = "write"]
  /\ UNCHANGED <<device, link, fetched, published, redis, actors, flips, faults>>

(* The first update and all that are ready; for each PV the last one wins. *)
Collect(p) ==
  /\ stage[p] = "collect" /\ queue[p] # <<>>
  /\ LET k == Taken(queue[p])
         taken == SubSeq(queue[p], 1, k)
     IN /\ batch' = [batch EXCEPT ![p] = [pv \in PVs |->
                       IF \E i \in 1..k : taken[i].pv = pv
                       THEN taken[LastFor(taken, pv)].entry ELSE Missing]]
        /\ queue' = [queue EXCEPT ![p] = SubSeq(@, k + 1, Len(@))]
  /\ stage' = [stage EXCEPT ![p] = "write"]
  /\ UNCHANGED <<device, link, fetched, published, redis, actors, flips, faults>>

InBatch(p) == {pv \in PVs : batch[p][pv] # Missing}

(* As a mutant: a batch takes its PVs out of the disconnected set and adds
   none of them. *)
WriteWithoutSadd(p) ==
  /\ stage[p] = "write"
  /\ hash' = [pv \in PVs |-> IF pv \in InBatch(p) THEN batch[p][pv] ELSE hash[pv]]
  /\ disc' = disc \ InBatch(p)
  /\ old' = old \ InBatch(p)
  /\ torn' = torn \ InBatch(p)
  /\ stage' = [stage EXCEPT ![p] = "read"]
  /\ UNCHANGED <<device, link, queue, batch, fetched, published, actors, flips, faults>>

(* set_pv_values_bulk: hash and set in one transaction. *)
WriteBatch(p) ==
  /\ stage[p] = "write"
  /\ hash' = [pv \in PVs |-> IF pv \in InBatch(p) THEN batch[p][pv] ELSE hash[pv]]
  /\ disc' = (disc \ InBatch(p)) \cup {pv \in InBatch(p) : ~batch[p][pv].conn}
  /\ old' = old \ InBatch(p)
  /\ torn' = torn \ InBatch(p)
  /\ stage' = [stage EXCEPT ![p] = "read"]
  /\ UNCHANGED <<device, link, queue, batch, fetched, published, actors, flips, faults>>

(* publish_pv_updates_bulk: HMGET of the batch's PVs ... *)
FetchBatch(p) ==
  /\ stage[p] = "read"
  /\ fetched' = [fetched EXCEPT ![p] = [pv \in PVs |->
                   IF pv \in InBatch(p) THEN hash[pv] ELSE Missing]]
  /\ stage' = [stage EXCEPT ![p] = "publish"]
  /\ UNCHANGED <<device, link, queue, batch, published, redis, actors, flips, faults>>

(* As a mutant: a PV that is disconnected is not published. *)
PublishConnected(p) ==
  /\ stage[p] = "publish"
  /\ published' = [pv \in PVs |-> IF fetched[p][pv].conn THEN fetched[p][pv] ELSE published[pv]]
  /\ stage' = [stage EXCEPT ![p] = "collect"]
  /\ batch' = [batch EXCEPT ![p] = Empty]
  /\ fetched' = [fetched EXCEPT ![p] = Empty]
  /\ UNCHANGED <<device, link, queue, redis, actors, flips, faults>>

(* ... then one PUBLISH for each. *)
PublishBatch(p) ==
  /\ stage[p] = "publish"
  /\ published' = [pv \in PVs |-> IF pv \in InBatch(p) THEN fetched[p][pv] ELSE published[pv]]
  /\ stage' = [stage EXCEPT ![p] = "collect"]
  /\ batch' = [batch EXCEPT ![p] = Empty]
  /\ fetched' = [fetched EXCEPT ![p] = Empty]
  /\ UNCHANGED <<device, link, queue, redis, actors, flips, faults>>

(* As a mutant: an update of the failed batch is queued again. *)
BatchRequeued(p) ==
  /\ stage[p] # "collect"
  /\ Fault
  /\ \E pv \in InBatch(p) :
       queue' = [queue EXCEPT ![p] = Append(@, [pv |-> pv, entry |-> batch[p][pv]])]
  /\ stage' = [stage EXCEPT ![p] = "collect"]
  /\ batch' = [batch EXCEPT ![p] = Empty]
  /\ fetched' = [fetched EXCEPT ![p] = Empty]
  /\ UNCHANGED <<device, link, published, redis, actors, flips>>

(* Redis fails: the batch in hand is dropped. *)
BatchFails(p) ==
  /\ stage[p] # "collect"
  /\ Fault
  /\ stage' = [stage EXCEPT ![p] = "collect"]
  /\ batch' = [batch EXCEPT ![p] = Empty]
  /\ fetched' = [fetched EXCEPT ![p] = Empty]
  /\ UNCHANGED <<device, link, queue, published, redis, actors, flips>>

-----------------------------------------------------------------------------
(* set_pv_value and set_pv_connected, one Redis command at a time *)

External == <<device, link, pipeline, starting, setup, flips>>

(* The actor goes on with the next PV of its loop. *)
NextPV(a) ==
  /\ at' = [at EXCEPT ![a] = IF phase[a] = "except" THEN "stale" ELSE phase[a]]
  /\ phase' = [phase EXCEPT ![a] = IF @ = "except" THEN "stale" ELSE @]
  /\ on' = [on EXCEPT ![a] = NoPV]
  /\ got' = [got EXCEPT ![a] = Missing]
  /\ UNCHANGED todo

(* A command of the actor raises.  The stale loop has the only handler that
   writes: it marks the PV, and what that raises ends the whole check. *)
Raise(a) ==
  CASE phase[a] \in {"start", "disconnected"} -> NextPV(a)
    [] phase[a] = "stale" ->
         /\ at' = [at EXCEPT ![a] = "markGet"]
         /\ phase' = [phase EXCEPT ![a] = "except"]
         /\ UNCHANGED <<on, got, todo>>
    [] phase[a] = "except" ->
         /\ at' = [at EXCEPT ![a] = "idle"]
         /\ phase' = [phase EXCEPT ![a] = "disconnected"]
         /\ on' = [on EXCEPT ![a] = NoPV]
         /\ got' = [got EXCEPT ![a] = Missing]
         /\ todo' = [todo EXCEPT ![a] = {}]

(* The actors in S that have sent the first of their two commands only. *)
Halfway(S) == {a \in S : at[a] \in {"valueSrem", "markSadd"}}

CommandFails(a) ==
  /\ at[a] \in {"valueHset", "valueSrem", "markGet", "markHset", "markSadd"}
  /\ Fault
  /\ Raise(a)
  /\ torn' = torn \cup {on[b] : b \in Halfway({a})}
  /\ UNCHANGED <<External, hash, disc, old>>

(* set_pv_value: json.dumps raises on the datetime timestamp of a reading;
   otherwise HSET stores the entry ... *)
ValueHset(a) ==
  /\ at[a] = "valueHset"
  /\ \/ /\ on[a] \in setup.stamped
        /\ Raise(a)
        /\ UNCHANGED redis
     \/ /\ on[a] \notin setup.stamped
        /\ hash' = [hash EXCEPT ![on[a]] = got[a]]
        /\ old' = old \ {on[a]}
        /\ at' = [at EXCEPT ![a] = "valueSrem"]
        /\ UNCHANGED <<disc, torn, on, got, todo, phase>>
  /\ UNCHANGED <<External, faults>>

(* ... and SREM takes the PV out of the disconnected set. *)
ValueSrem(a) ==
  /\ at[a] = "valueSrem"
  /\ disc' = disc \ {on[a]}
  /\ torn' = torn \ {on[a]}
  /\ IF phase[a] = "disconnected"
     THEN at' = [at EXCEPT ![a] = "restart"] /\ UNCHANGED <<on, got, todo, phase>>
     ELSE NextPV(a)
  /\ UNCHANGED <<External, hash, old, faults>>

(* set_pv_connected(pv, False): HGET of the entry to modify ... *)
MarkGet(a) ==
  /\ at[a] = "markGet"
  /\ got' = [got EXCEPT ![a] = hash[on[a]]]
  /\ at' = [at EXCEPT ![a] = "markHset"]
  /\ UNCHANGED <<External, redis, on, todo, phase, faults>>

(* ... HSET of the modified entry, or of a minimal one ... *)
MarkHset(a) ==
  /\ at[a] = "markHset"
  /\ hash' = [hash EXCEPT ![on[a]] =
                IF got[a] = Missing THEN Lost ELSE [got[a] EXCEPT !.conn = FALSE]]
  /\ old' = old \ {on[a]}
  /\ at' = [at EXCEPT ![a] = "markSadd"]
  /\ UNCHANGED <<External, disc, torn, on, got, todo, phase, faults>>

(* ... and SADD to the disconnected set. *)
MarkSadd(a) ==
  /\ at[a] = "markSadd"
  /\ disc' = disc \cup {on[a]}
  /\ torn' = torn \ {on[a]}
  /\ NextPV(a)
  /\ UNCHANGED <<External, hash, old, faults>>

-----------------------------------------------------------------------------
(* Starting the monitors *)

(* start() subscribes to the CA names first, then to the PVAccess names. *)
StartMonitor(p, pv) ==
  /\ at["starter"] = "start"
  /\ <<p, pv>> \in starting
  /\ p = "pva" => \A s \in starting : s[1] = "pva"
  /\ starting' = starting \ {<<p, pv>>}
  /\ \/ /\ link' = [link EXCEPT ![p][pv] = "search"]
        /\ UNCHANGED <<at, on, faults>>
     \/ /\ Fault                 \* camonitor() or monitor() raises
        /\ at' = [at EXCEPT !["starter"] = "markGet"]
        /\ on' = [on EXCEPT !["starter"] = pv]
        /\ UNCHANGED link
  /\ UNCHANGED <<device, pipeline, redis, got, todo, phase, setup, flips>>

(* The monitor process dies or is stopped, and starts again: subscriptions,
   queues and batches in hand are gone, Redis keeps what it has. *)
MonitorRestarts ==
  /\ Fault
  /\ link' = [p \in Protocols |-> [pv \in PVs |-> "none"]]
  /\ queue' = [p \in Protocols |-> <<>>]
  /\ stage' = [p \in Protocols |-> "collect"]
  /\ batch' = [p \in Protocols |-> Empty]
  /\ fetched' = [p \in Protocols |-> Empty]
  /\ starting' = Protocols \X PVs
  /\ at' = [a \in Actors |-> CASE a = "starter" -> "start" [] a = "monitor" -> "idle"
                                [] a = "api" -> at[a]]
  /\ on' = [a \in Actors |-> IF a = "api" THEN on[a] ELSE NoPV]
  /\ got' = [a \in Actors |-> IF a = "api" THEN got[a] ELSE Missing]
  /\ todo' = [a \in Actors |-> IF a = "api" THEN todo[a] ELSE {}]
  /\ phase' = [a \in Actors |-> CASE a = "starter" -> "start" [] a = "monitor" -> "disconnected"
                                [] a = "api" -> phase[a]]
  /\ torn' = torn \cup {on[a] : a \in Halfway({"starter", "monitor"})}
  /\ UNCHANGED <<device, published, hash, disc, old, setup, flips>>

-----------------------------------------------------------------------------
(* The watchdog *)

(* No update of the PV for watchdog_stale_threshold seconds. *)
GrowsOld(pv) ==
  /\ hash[pv] # Missing
  /\ old' = old \cup {pv}
  /\ pv \notin old
  /\ UNCHANGED <<External, hash, disc, torn, at, on, got, todo, phase, faults>>

(* A health check begins with the members of the disconnected set.  The
   watchdog of the monitor process is started after its monitors. *)
StartCheck(d) ==
  /\ d \in setup.dogs
  /\ at[d] = "idle"
  /\ d = "monitor" => starting = {} /\ at["starter"] = "start"
  /\ at' = [at EXCEPT ![d] = "disconnected"]
  /\ phase' = [phase EXCEPT ![d] = "disconnected"]
  /\ todo' = [todo EXCEPT ![d] = disc]
  /\ UNCHANGED <<External, redis, on, got, faults>>

(* epics.get_single with the reconnect timeout; it may time out although
   the IOC is up. *)
ReadDevice(d, pv) ==
  /\ at[d] \in {"disconnected", "stale"} /\ pv \in todo[d]
  /\ todo' = [todo EXCEPT ![d] = @ \ {pv}]
  /\ \/ /\ device[pv].up
        /\ got' = [got EXCEPT ![d] = Reading(pv)]
        /\ on' = [on EXCEPT ![d] = pv]
        /\ at' = [at EXCEPT ![d] = "valueHset"]
        /\ UNCHANGED faults
     \/ /\ IF device[pv].up THEN Fault ELSE UNCHANGED faults
        /\ IF at[d] = "stale"
           THEN /\ got' = [got EXCEPT ![d] = Lost]
                /\ on' = [on EXCEPT ![d] = pv]
                /\ at' = [at EXCEPT ![d] = "markGet"]
           ELSE UNCHANGED <<got, on, at>>
  /\ UNCHANGED <<External, redis, phase>>

(* restart_monitor: close the subscription and make a new one.  In the API
   process it touches monitors of its own that nobody drains. *)
RestartMonitor(d) ==
  /\ at[d] = "restart"
  /\ \/ /\ link' = IF d = "monitor"
                   THEN [p \in Protocols |-> [link[p] EXCEPT ![on[d]] = "search"]]
                   ELSE link
        /\ NextPV(d)
        /\ UNCHANGED faults
     \/ \E p \in Protocols :     \* camonitor() or monitor() raises
        /\ Fault
        /\ link' = IF d = "monitor"
                   THEN [q \in Protocols |-> [link[q] EXCEPT ![on[d]] =
                                              IF q = p THEN "none" ELSE "search"]]
                   ELSE link
        /\ at' = [at EXCEPT ![d] = "markGet"]
        /\ UNCHANGED <<on, got, todo, phase>>
  /\ UNCHANGED <<device, pipeline, starting, setup, redis, flips>>

(* As a mutant: the stale check of connected entries is skipped. *)
SkipStale(d) ==
  /\ at[d] = "disconnected" /\ todo[d] = {}
  /\ at' = [at EXCEPT ![d] = "idle"]
  /\ UNCHANGED <<External, redis, on, got, todo, phase, faults>>

(* The disconnected loop is done: get_stale_pvs, connected entries only. *)
StartStale(d) ==
  /\ at[d] = "disconnected" /\ todo[d] = {}
  /\ at' = [at EXCEPT ![d] = "stale"]
  /\ phase' = [phase EXCEPT ![d] = "stale"]
  /\ todo' = [todo EXCEPT ![d] = {pv \in old : hash[pv].conn}]
  /\ UNCHANGED <<External, redis, on, got, faults>>

EndCheck(d) ==
  /\ at[d] = "stale" /\ todo[d] = {}
  /\ at' = [at EXCEPT ![d] = "idle"]
  /\ phase' = [phase EXCEPT ![d] = "disconnected"]
  /\ UNCHANGED <<External, redis, on, got, todo, faults>>

-----------------------------------------------------------------------------
Processor(p) == Collect(p) \/ WriteBatch(p) \/ FetchBatch(p) \/ PublishBatch(p)

Commands(a) ==
  ValueHset(a) \/ ValueSrem(a) \/ MarkGet(a) \/ MarkHset(a) \/ MarkSadd(a)

Watchdog(d) ==
  \/ StartCheck(d) \/ StartStale(d) \/ EndCheck(d) \/ RestartMonitor(d)
  \/ \E pv \in PVs : ReadDevice(d, pv)

Library(p, pv) == LinkUp(p, pv) \/ LinkDown(p, pv)

Next ==
  \/ \E pv \in PVs : DeviceChanges(pv) \/ DeviceFlips(pv) \/ GrowsOld(pv)
  \/ \E p \in Protocols, pv \in PVs :
       Library(p, pv) \/ LinkLost(p, pv) \/ StartMonitor(p, pv)
  \/ \E p \in Protocols : Processor(p) \/ BatchFails(p)
  \/ \E a \in Actors : Commands(a) \/ CommandFails(a)
  \/ \E d \in Dogs : Watchdog(d)
  \/ MonitorRestarts

Spec == Init /\ [][Next]_vars

(* Every coroutine that is ready runs, Redis answers, time passes, and the
   EPICS libraries connect what they search for. *)
FairSpec ==
  /\ Spec
  /\ \A p \in Protocols : WF_vars(Processor(p))
  /\ \A p \in Protocols, pv \in PVs : WF_vars(Library(p, pv)) /\ WF_vars(StartMonitor(p, pv))
  /\ \A pv \in PVs : WF_vars(GrowsOld(pv))
  /\ \A a \in Actors : WF_vars(Commands(a))
  /\ \A d \in Dogs : WF_vars(Watchdog(d))

-----------------------------------------------------------------------------
(* Properties *)

(* No writer is between its HSET and its SREM or SADD for the PV. *)
Settled(pv) == \A a \in Actors : at[a] \in {"valueSrem", "markSadd"} => on[a] # pv

(* "Track disconnected PVs in a separate set for quick lookup"
   (redis_service.py:138): outside a writer's two commands, and unless the
   last writer stopped between them, the set holds exactly the PVs whose
   cached entry is disconnected.  It fails when a batch falls between the
   two commands of another writer. *)
SetMatchesHash ==
  \A pv \in PVs : Settled(pv) /\ pv \notin torn => (pv \in disc <=> hash[pv] # Missing /\ ~hash[pv].conn)

(* The cached value of a PV never goes back to one its device had before:
   batching, a failed batch and a restart of the monitor lose updates but do
   not reorder them.  A watchdog beside it can put back an older reading
   ("update the cache with fresh value", watchdog.py:259). *)
ValueNeverRegresses ==
  [][\A pv \in PVs : hash'[pv].val > 0 => hash'[pv].val >= hash[pv].val]_vars

(* The same in the direction that the watchdog depends on, whoever writes
   and however their commands interleave: its two loops look at the
   disconnected set and at old entries that are connected, so an entry that
   is disconnected but not in the set would be looked at by neither.  For
   PVs whose readings carry a timestamp, as all those of Channel Access do.
   Of the others set_pv_value reaches its SREM, which can come after the
   batch that reported the disconnection. *)
DisconnectedIsListed ==
  \A pv \in setup.stamped :
    Settled(pv) /\ pv \notin torn /\ hash[pv] # Missing /\ ~hash[pv].conn => pv \in disc

(* While nothing has failed, what was last published for a PV is, between
   batches, what the cache holds: a client that only listens is as up to
   date as one that reads.  A watchdog publishes nothing of what it writes,
   and what it can write of a PV with timestamps is that it is disconnected:
   it never makes a connected entry differ from the last publication. *)
PublishedMatchesHash ==
  faults = 0 /\ (\A p \in Protocols : stage[p] = "collect") =>
    \A pv \in PVs :
      \/ published[pv] = hash[pv]
      \/ setup.dogs # {} /\ (hash[pv].conn => pv \notin setup.stamped)

(* The stale check marks a PV disconnected only if its IOC did not answer
   the check: "PV is alive, update the cache with fresh value" and "PV is
   not responding - mark as disconnected" (watchdog.py:259, 272). *)
MarksOnlyDead ==
  \A d \in Dogs : at[d] = "markGet" /\ phase[d] \in {"stale", "except"} => ~got[d].conn

(* The cached entry says what the device is. *)
Agrees(pv) == IF device[pv].up THEN hash[pv] = Reading(pv) ELSE ~hash[pv].conn

(* If nothing fails, the monitor alone brings cache and channel in line with
   every device, once the devices stop changing. *)
CacheCatchesUp ==
  <>[](faults > 0 \/ \A pv \in PVs : Agrees(pv) /\ published[pv] = hash[pv])

(* "The connection is 'alive' but data isn't flowing" (watchdog.py:238): a
   cached entry that says connected does not keep a value that its device no
   longer has, whatever was dropped, lost or overwritten meanwhile.  It is
   brought up to date or, if the reading cannot be stored, marked. *)
StaleIsNoticed ==
  "monitor" \in setup.dogs =>
    <>[](\A pv \in PVs : device[pv].up /\ hash[pv].conn => hash[pv] = Reading(pv))

(* After a dropped batch, a silently lost subscription or a restart of the
   monitor, its watchdog brings the entry of every cached PV back in line,
   as long as POST /watchdog/check is not used: it "catches edge cases that
   connection callbacks might miss" (watchdog.py:66).  It fails for readings
   that carry a timestamp, since they cannot be stored, and for the others
   after a batch came between the two commands of the watchdog. *)
WatchdogHeals ==
  setup.dogs = {"monitor"} => <>[](\A pv \in PVs : hash[pv] # Missing => Agrees(pv))

(* "PV is not responding - mark as disconnected" (watchdog.py:272): a cached
   PV whose IOC is gone for good is reported disconnected, whatever failed
   meanwhile and whether or not its readings can be stored. *)
DeadIsNoticed ==
  "monitor" \in setup.dogs =>
    <>[](\A pv \in PVs : hash[pv] # Missing /\ ~device[pv].up => ~hash[pv].conn)

(* The watchdog catches "PVs that never connected initially"
   (watchdog.py:67): no PV whose IOC answers stays out of the cache. *)
NeverConnectedIsCaught == <>[](\A pv \in PVs : device[pv].up => hash[pv] # Missing)

=============================================================================
