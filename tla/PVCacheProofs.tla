---------------------------- MODULE PVCacheProofs ----------------------------
(***************************************************************************)
(* Theorems of PVCache for any PVs, batches, queues and values, and any    *)
(* number of outages and faults.  Types, and that what is disconnected is  *)
(* listed, hold in every deployment; that the channel follows the hash     *)
(* needs one protocol; and that values do not go back, no watchdog either. *)
(***************************************************************************)
EXTENDS PVCache, FiniteSetTheorems, WellFoundedInduction, TLAPS

USE SetsAssumption, BoundsAssumption

(* An actor that is at a command has a PV in hand. *)
OnIsPV ==
  \A a \in Actors :
    at[a] \in {"valueHset", "valueSrem", "restart", "markGet", "markHset", "markSadd"} => on[a] \in PVs

CacheInv == TypeOK /\ OnIsPV

(* The deployments in which the monitor of one protocol writes alone. *)
MonitorAlone == (\A s \in Setups : s.dogs = {}) /\ (\E p \in Protocols : Protocols = {p})

StarterOnly ==
  /\ \A d \in Dogs : at[d] = "idle"
  /\ phase["starter"] = "start"
  /\ at["starter"] \in {"start", "markGet", "markHset", "markSadd"}

(* No update of the PV is on its way, and none will come. *)
Silent(p, pv) ==
  /\ link[p][pv] = "none" /\ batch[p][pv] = Missing
  /\ \A i \in 1..Len(queue[p]) : queue[p][i].pv # pv

(* Nobody else writes a PV that the starter marks. *)
Unstarted ==
  \A p \in Protocols, pv \in PVs :
    <<p, pv>> \in starting \/ (at["starter"] # "start" /\ on["starter"] = pv) => Silent(p, pv)

(* A PV whose entry is disconnected is in the set, or a writer is on its way
   to put it there, or stopped on the way. *)
Listed(pv) ==
  hash[pv] # Missing /\ ~hash[pv].conn =>
    \/ pv \in disc \cup torn
    \/ \E a \in Actors : at[a] = "markSadd" /\ on[a] = pv

(* A reading with a timestamp raises before it takes a PV out of the set. *)
StampedRaises == \A a \in Actors : at[a] = "valueSrem" => on[a] \notin setup.stamped

AllListed == StampedRaises /\ \A pv \in setup.stamped : Listed(pv)

(* One monitor writes every PV (epics_unprefixed_pva_fallback is off, or no
   name is without a prefix), whichever watchdogs run. *)
OneProtocol == \E p \in Protocols : Protocols = {p}

(* What a watchdog may have written. *)
OfWatchdog(pv) == setup.dogs # {} /\ (hash[pv].conn => pv \notin setup.stamped)

(* Until something fails, the channel lags the hash by the batch in hand. *)
Told ==
  faults = 0 =>
    /\ at["starter"] = "start"
    /\ \A p \in Protocols, pv \in PVs :
         /\ stage[p] \in {"collect", "write"} \/ pv \notin InBatch(p) =>
              published[pv] = hash[pv] \/ OfWatchdog(pv)
         /\ stage[p] = "publish" /\ pv \in InBatch(p) => fetched[p][pv] = hash[pv] \/ OfWatchdog(pv)

(* A watchdog that works is one of the deployment. *)
DogsInSetup == \A d \in Dogs : at[d] # "idle" => d \in setup.dogs

(* The starter modifies the entry that is there. *)
Fresh == at["starter"] = "markHset" => got["starter"] = hash[on["starter"]]

(* Values come in the order the device takes them: first the hash, then the
   batch in hand, then the queue, and last the device itself. *)
Ordered(p, pv) ==
  LET q == queue[p] IN
  /\ hash[pv].val <= device[pv].val /\ batch[p][pv].val <= device[pv].val
  /\ batch[p][pv].val > 0 => hash[pv].val <= batch[p][pv].val
  /\ \A i \in 1..Len(q) : q[i].pv = pv /\ q[i].entry.val > 0 =>
       /\ hash[pv].val <= q[i].entry.val /\ batch[p][pv].val <= q[i].entry.val
       /\ q[i].entry.val <= device[pv].val
       /\ \A j \in 1..Len(q) : j < i /\ q[j].pv = pv => q[j].entry.val <= q[i].entry.val

InOrder == \A p \in Protocols, pv \in PVs : Ordered(p, pv)

Alone == CacheInv /\ StarterOnly /\ Unstarted

(* The steps of such a deployment. *)
AloneNext ==
  \/ \E pv \in PVs : DeviceChanges(pv) \/ DeviceFlips(pv) \/ GrowsOld(pv)
  \/ \E p \in Protocols, pv \in PVs :
       LinkUp(p, pv) \/ LinkDown(p, pv) \/ LinkLost(p, pv) \/ StartMonitor(p, pv)
  \/ \E p \in Protocols :
       Collect(p) \/ WriteBatch(p) \/ FetchBatch(p) \/ PublishBatch(p) \/ BatchFails(p)
  \/ MarkGet("starter") \/ MarkHset("starter") \/ MarkSadd("starter")
  \/ CommandFails("starter") /\ NextPV("starter")
  \/ MonitorRestarts
  \/ UNCHANGED vars

-----------------------------------------------------------------------------
(* Lemmas on numbers and queues *)

Below == {ss \in Nat \X Nat : ss[1] < ss[2]}

LEMMA LeastOf ==
  ASSUME NEW S \in SUBSET Nat, S # {}
  PROVE  \E n \in S : \A m \in S : n <= m
<1>1. IsWellFoundedOn(Below, Nat)
  BY NatLessThanWellFounded DEF OpToRel, Below
<1>2. PICK n \in S : \A m \in S : ~ (<<m, n>> \in Below)
  BY <1>1, WFMin
<1>3. ASSUME NEW m \in S PROVE n <= m
  <2>1. m \in Nat /\ n \in Nat /\ <<m, n>> \notin Below
    BY <1>2
  <2>2. <<m, n>> \in Nat \X Nat
    BY <2>1
  <2>3. ~ (<<m, n>>[1] < <<m, n>>[2])
    BY <2>1, <2>2 DEF Below
  <2> QED
    BY <2>1, <2>3
<1> QED
  BY <1>3

LEMMA GreatestOf ==
  ASSUME NEW n \in Nat, NEW S \in SUBSET (1..n), S # {}
  PROVE  \E i \in S : \A j \in S : j <= i
<1> DEFINE T == {n - i : i \in S}
<1>1. T \in SUBSET Nat /\ T # {}
  <2>1. \A i \in S : i \in 1..n /\ n - i \in Nat
    <3>1. \A i \in S : i \in 1..n
      OBVIOUS
    <3> QED
      BY <3>1
  <2>2. T \in SUBSET Nat
    BY <2>1
  <2>3. PICK i \in S : TRUE
    OBVIOUS
  <2>4. n - i \in T
    BY <2>3
  <2> QED
    BY <2>2, <2>4
<1>2. PICK t \in T : \A m \in T : t <= m
  BY <1>1, LeastOf
<1>3. PICK i \in S : t = n - i
  BY <1>2
<1>4. ASSUME NEW j \in S PROVE j <= i
  <2>1. j \in 1..n /\ i \in 1..n /\ n - j \in T
    <3>1. S \subseteq 1..n
      OBVIOUS
    <3> QED
      BY <3>1
  <2>2. n - i <= n - j
    BY <1>2, <1>3, <2>1
  <2> QED
    BY <2>1, <2>2
<1> QED
  BY <1>4

Updates == [pv : PVs, entry : Entries]

(* A batch takes at least one update, and no more than there are. *)
LEMMA TakenInRange ==
  ASSUME NEW q \in Seq(Updates), q # <<>>
  PROVE  Taken(q) \in 1..Len(q)
<1> DEFINE names(j) == {q[i].pv : i \in 1..j}
           distinct(j) == Cardinality(names(j))
           full == {k \in 1..Len(q) : distinct(k) >= BatchSize}
<1>0. Len(q) \in Nat /\ Len(q) >= 1
  OBVIOUS
<1>1. ASSUME NEW j \in 0..Len(q)
      PROVE  IsFiniteSet(names(j)) /\ distinct(j) \in Nat
  <2> DEFINE f == [i \in 1..j |-> q[i].pv]
  <2>1. IsFiniteSet(1..j)
    BY <1>0, FS_Interval
  <2>2. f \in Surjection(1..j, names(j))
    BY DEF Surjection
  <2>3. IsFiniteSet(names(j))
    <3> HIDE DEF f, names
    <3> QED
      BY <2>1, <2>2, FS_Surjection
  <2> HIDE DEF names
  <2> QED
    BY <2>3, FS_CardinalityType
<1>2. ASSUME NEW k \in 1..Len(q)
      PROVE  distinct(k) <= distinct(k - 1) + 1
  <2>1. names(k) = names(k - 1) \cup {q[k].pv}
    <3>1. 1..k = (1..(k - 1)) \cup {k}
      BY <1>0
    <3> QED
      BY <3>1
  <2>2. k - 1 \in 0..Len(q)
    BY <1>0
  <2>3. IsFiniteSet(names(k - 1)) /\ distinct(k - 1) \in Nat
    BY <1>1, <2>2
  <2> HIDE DEF names
  <2>4. distinct(k) \in {distinct(k - 1), distinct(k - 1) + 1}
    BY <2>1, <2>3, FS_AddElement
  <2> QED
    BY <2>3, <2>4
<1>3. distinct(0) = 0
  <2>1. names(0) = {}
    OBVIOUS
  <2> QED
    BY <2>1, FS_EmptySet
<1> HIDE DEF names
<1>4. \E k \in 1..Len(q) : /\ \A j \in 1..(k - 1) : distinct(j) < BatchSize
                           /\ k = Len(q) \/ distinct(k) = BatchSize
  <2>1. CASE full = {}
    <3>1. \A j \in 1..(Len(q) - 1) : j \in 1..Len(q) /\ distinct(j) < BatchSize
      <4> TAKE j \in 1..(Len(q) - 1)
      <4>1. j \in 1..Len(q) /\ j \in 0..Len(q)
        BY <1>0
      <4>2. distinct(j) \in Nat /\ ~(distinct(j) >= BatchSize)
        BY <1>1, <2>1, <4>1
      <4> QED
        BY <4>1, <4>2
    <3>2. Len(q) \in 1..Len(q)
      BY <1>0
    <3> HIDE DEF distinct
    <3> QED
      BY <3>1, <3>2
  <2>2. CASE full # {}
    <3>1. full \in SUBSET Nat
      OBVIOUS
    <3>2. PICK k \in full : \A m \in full : k <= m
      BY <2>2, <3>1, LeastOf
    <3>3. k \in 1..Len(q) /\ distinct(k) >= BatchSize
      OBVIOUS
    <3>4. \A j \in 1..(k - 1) : distinct(j) < BatchSize
      <4> TAKE j \in 1..(k - 1)
      <4>1. j \in 1..Len(q) /\ j \in 0..Len(q) /\ ~(k <= j)
        BY <1>0, <3>3
      <4>2. j \notin full
        BY <3>2, <4>1
      <4>3. distinct(j) \in Nat /\ ~(distinct(j) >= BatchSize)
        BY <1>1, <4>1, <4>2
      <4> QED
        BY <4>3
    <3>5. distinct(k) = BatchSize
      <4>1. k - 1 \in 0..Len(q) /\ k \in 0..Len(q)
        BY <1>0, <3>3
      <4>2. distinct(k - 1) \in Nat /\ distinct(k) \in Nat /\ distinct(k) <= distinct(k - 1) + 1
        BY <1>1, <1>2, <3>3, <4>1
      <4>3. distinct(k - 1) < BatchSize
        <5>1. CASE k = 1
          BY <1>3, <5>1
        <5>2. CASE k # 1
          <6>1. k - 1 \in 1..(k - 1)
            BY <3>3, <5>2
          <6> QED
            BY <3>4, <6>1
        <5> QED
          BY <5>1, <5>2
      <4> HIDE DEF distinct
      <4> QED
        BY <3>3, <4>2, <4>3
    <3> QED
      BY <3>3, <3>4, <3>5
  <2> QED
    BY <2>1, <2>2
<1> QED
  BY <1>4 DEF Taken, names

(* The last of several updates of a PV is one of them. *)
LEMMA LastForIs ==
  ASSUME NEW q \in Seq(Updates), NEW pv, \E i \in 1..Len(q) : q[i].pv = pv
  PROVE  /\ LastFor(q, pv) \in 1..Len(q) /\ q[LastFor(q, pv)].pv = pv
         /\ \A j \in 1..Len(q) : q[j].pv = pv => j <= LastFor(q, pv)
<1> DEFINE S == {i \in 1..Len(q) : q[i].pv = pv}
<1>1. Len(q) \in Nat /\ DOMAIN q = 1..Len(q) /\ S \in SUBSET (1..Len(q)) /\ S # {}
  OBVIOUS
<1>2. \E i \in S : \A j \in S : j <= i
  BY <1>1, GreatestOf
<1>3. \E i \in DOMAIN q : q[i].pv = pv /\ \A j \in DOMAIN q : q[j].pv = pv => j <= i
  BY <1>1, <1>2
<1> QED
  BY <1>1, <1>3 DEF LastFor

-----------------------------------------------------------------------------
(* Types *)

Cached == Entries \cup {Missing}
Pending == {"valueHset", "valueSrem", "restart", "markGet", "markHset", "markSadd"}

DeviceOK == device \in [PVs -> [val : 1..MaxVal, up : BOOLEAN]]
LinkOK == link \in [Protocols -> [PVs -> {"none", "search", "conn", "lost"}]]
QueueOK == queue \in [Protocols -> Seq(Updates)]
BatchOK == /\ batch \in [Protocols -> [PVs -> Cached]]
           /\ stage \in [Protocols -> {"collect", "write", "read", "publish"}]
           /\ fetched \in [Protocols -> [PVs -> Cached]]
           /\ published \in [PVs -> Cached]
RedisOK == hash \in [PVs -> Cached] /\ disc \subseteq PVs /\ old \subseteq PVs /\ torn \subseteq PVs
ActorsOK == /\ starting \subseteq Protocols \X PVs
            /\ at \in [Actors -> ActorStates]
            /\ on \in [Actors -> PVs \cup {NoPV}]
            /\ got \in [Actors -> Cached]
            /\ todo \in [Actors -> SUBSET PVs]
            /\ phase \in [Actors -> {"start", "disconnected", "stale", "except"}]
            /\ setup \in Setups
            /\ \A a \in Actors : at[a] \in Pending => on[a] \in PVs
CountsOK == flips \in 0..MaxFlips /\ faults \in 0..MaxFaults

LEMMA CacheParts ==
  CacheInv <=> DeviceOK /\ LinkOK /\ QueueOK /\ BatchOK /\ RedisOK /\ ActorsOK /\ CountsOK
BY DEF CacheInv, TypeOK, OnIsPV, DeviceOK, LinkOK, QueueOK, BatchOK, RedisOK, ActorsOK, CountsOK,
       Cached, Updates, Pending

LEMMA EntriesTyped ==
  /\ Lost \in Entries /\ Missing \in Cached /\ Entries \subseteq Cached /\ Missing \notin Entries
  /\ Empty \in [PVs -> Cached]
  /\ \A e \in Entries : [e EXCEPT !.conn = FALSE] \in Entries
<1>1. Lost \in Entries /\ Missing \notin Entries /\ Missing \in Cached /\ Entries \subseteq Cached
  BY DEF Lost, Entries, Missing, Cached
<1>2. Empty \in [PVs -> Cached]
  BY <1>1 DEF Empty
<1>3. \A e \in Entries : [e EXCEPT !.conn = FALSE] \in Entries
  BY DEF Entries
<1> QED
  BY <1>1, <1>2, <1>3

LEMMA ReadingTyped ==
  ASSUME DeviceOK, NEW pv \in PVs
  PROVE  Reading(pv) \in Entries
BY DEF DeviceOK, Reading, Entries

LEMMA DeliverTyped ==
  ASSUME QueueOK, NEW ps, NEW pv \in PVs, NEW entry \in Entries, Deliver(ps, pv, entry)
  PROVE  QueueOK' /\ UNCHANGED <<batch, stage, fetched, published>>
<1>1. [pv |-> pv, entry |-> entry] \in Updates
  BY DEF Updates
<1>2. \A p \in Protocols : queue[p] \in Seq(Updates)
  BY DEF QueueOK
<1>3. \A p \in Protocols : Append(queue[p], [pv |-> pv, entry |-> entry]) \in Seq(Updates)
  BY <1>1, <1>2
<1>4. queue' = [p \in Protocols |-> IF p \in ps THEN Append(queue[p], [pv |-> pv, entry |-> entry])
                                                 ELSE queue[p]]
  BY DEF Deliver
<1>5. QueueOK'
  BY <1>2, <1>3, <1>4 DEF QueueOK
<1> QED
  BY <1>5 DEF Deliver

LEMMA CollectTyped ==
  ASSUME QueueOK, BatchOK, NEW p \in Protocols, Collect(p)
  PROVE  QueueOK' /\ BatchOK'
<1> DEFINE k == Taken(queue[p])
           taken == SubSeq(queue[p], 1, k)
<1>1. queue[p] \in Seq(Updates) /\ queue[p] # <<>>
  BY DEF QueueOK, Collect
<1>2. k \in 1..Len(queue[p])
  BY <1>1, TakenInRange
<1>3. taken \in Seq(Updates) /\ Len(taken) = k /\ SubSeq(queue[p], k + 1, Len(queue[p])) \in Seq(Updates)
  <2> HIDE DEF k
  <2> QED
    BY <1>1, <1>2
<1>4. ASSUME NEW pv, \E i \in 1..k : taken[i].pv = pv
      PROVE  taken[LastFor(taken, pv)].entry \in Entries
  <2> HIDE DEF taken, k
  <2>1. LastFor(taken, pv) \in 1..Len(taken)
    BY <1>3, <1>4, LastForIs
  <2>2. taken[LastFor(taken, pv)] \in Updates
    BY <1>3, <2>1
  <2> QED
    BY <2>2 DEF Updates
<1>5. queue' = [queue EXCEPT ![p] = SubSeq(@, k + 1, Len(@))]
  BY DEF Collect
<1>6. QueueOK'
  BY <1>3, <1>5 DEF QueueOK
<1>7. batch' = [batch EXCEPT ![p] = [pv \in PVs |->
                  IF \E i \in 1..k : taken[i].pv = pv THEN taken[LastFor(taken, pv)].entry ELSE Missing]]
  BY DEF Collect
<1>8. [pv \in PVs |-> IF \E i \in 1..k : taken[i].pv = pv THEN taken[LastFor(taken, pv)].entry ELSE Missing]
        \in [PVs -> Cached]
  <2> HIDE DEF taken, k
  <2> QED
    BY <1>4, EntriesTyped
<1>9. stage' = [stage EXCEPT ![p] = "write"] /\ UNCHANGED <<fetched, published>>
  BY DEF Collect
<1>10. BatchOK'
  <2> HIDE DEF taken, k
  <2> QED
    BY <1>7, <1>8, <1>9 DEF BatchOK
<1> QED
  BY <1>6, <1>10

LEMMA NextPVTyped ==
  ASSUME ActorsOK, NEW a \in Actors, NextPV(a), UNCHANGED <<starting, setup>>
  PROVE  ActorsOK'
<1>1. /\ at' \in [Actors -> ActorStates] /\ phase' \in [Actors -> {"start", "disconnected", "stale", "except"}]
      /\ on' \in [Actors -> PVs \cup {NoPV}] /\ got' \in [Actors -> Cached]
  BY EntriesTyped DEF ActorsOK, NextPV, ActorStates
<1>2. \A b \in Actors : at'[b] \in Pending => on'[b] \in PVs
  BY DEF ActorsOK, NextPV, Pending
<1> QED
  BY <1>1, <1>2 DEF ActorsOK, NextPV

LEMMA RaiseTyped ==
  ASSUME ActorsOK, NEW a \in Actors, at[a] \in Pending, Raise(a), UNCHANGED <<starting, setup>>
  PROVE  ActorsOK'
<1>0. phase[a] \in {"start", "disconnected", "stale", "except"} /\ on[a] \in PVs
  BY DEF ActorsOK
<1>1. CASE phase[a] \in {"start", "disconnected"}
  <2>1. NextPV(a)
    BY <1>1 DEF Raise
  <2> QED
    BY <2>1, NextPVTyped
<1>2. CASE phase[a] = "stale"
  <2>1. /\ at' = [at EXCEPT ![a] = "markGet"] /\ phase' = [phase EXCEPT ![a] = "except"]
        /\ UNCHANGED <<on, got, todo>>
    BY <1>2 DEF Raise
  <2>2. \A b \in Actors : at'[b] \in Pending => on'[b] \in PVs
    BY <1>0, <2>1 DEF ActorsOK
  <2> QED
    BY <2>1, <2>2 DEF ActorsOK, ActorStates
<1>3. CASE phase[a] = "except"
  <2>1. /\ at' = [at EXCEPT ![a] = "idle"] /\ phase' = [phase EXCEPT ![a] = "disconnected"]
        /\ on' = [on EXCEPT ![a] = NoPV] /\ got' = [got EXCEPT ![a] = Missing]
        /\ todo' = [todo EXCEPT ![a] = {}]
    BY <1>3 DEF Raise
  <2>2. \A b \in Actors : at'[b] \in Pending => on'[b] \in PVs
    BY <2>1 DEF ActorsOK, Pending
  <2>3. got' \in [Actors -> Cached]
    BY <2>1, EntriesTyped DEF ActorsOK
  <2> QED
    BY <2>1, <2>2, <2>3 DEF ActorsOK, ActorStates
<1> QED
  BY <1>0, <1>1, <1>2, <1>3

LEMMA FaultTyped == CountsOK /\ Fault /\ UNCHANGED flips => CountsOK'
BY DEF CountsOK, Fault

LEMMA CacheStep == CacheInv /\ [Next]_vars => CacheInv'
<1> SUFFICES ASSUME CacheInv, [Next]_vars
             PROVE  CacheInv'
  OBVIOUS
<1> USE DEF redis, pipeline, actors, External
<1>0. DeviceOK /\ LinkOK /\ QueueOK /\ BatchOK /\ RedisOK /\ ActorsOK /\ CountsOK
  BY CacheParts
<1>c. ASSUME DeviceOK', LinkOK', QueueOK', BatchOK', RedisOK', ActorsOK', CountsOK' PROVE CacheInv'
  BY <1>c, CacheParts DEF CacheInv, TypeOK, OnIsPV, DeviceOK, LinkOK, QueueOK, BatchOK, RedisOK,
       ActorsOK, CountsOK, Cached, Updates, Pending
<1>d. UNCHANGED device => DeviceOK'
  BY <1>0 DEF DeviceOK
<1>l. UNCHANGED link => LinkOK'
  BY <1>0 DEF LinkOK
<1>q. UNCHANGED queue => QueueOK'
  BY <1>0 DEF QueueOK
<1>b. UNCHANGED <<batch, stage, fetched, published>> => BatchOK'
  BY <1>0 DEF BatchOK
<1>r. UNCHANGED redis => RedisOK'
  BY <1>0 DEF RedisOK
<1>a. UNCHANGED actors => ActorsOK'
  BY <1>0 DEF ActorsOK
<1>n. UNCHANGED <<flips, faults>> \/ (Fault /\ UNCHANGED flips) => CountsOK'
  BY <1>0, FaultTyped DEF CountsOK
<1>1. ASSUME NEW p \in Protocols, NEW pv \in PVs, LinkUp(p, pv) PROVE CacheInv'
  <2>1. LinkOK'
    BY <1>0, <1>1 DEF LinkUp, LinkOK
  <2>2. QueueOK' /\ BatchOK'
    BY <1>0, <1>1, <1>b, ReadingTyped, DeliverTyped DEF LinkUp
  <2> QED
    BY <1>1, <1>c, <1>d, <1>r, <1>a, <1>n, <2>1, <2>2 DEF LinkUp
<1>2. ASSUME NEW p \in Protocols, NEW pv \in PVs, LinkDown(p, pv) PROVE CacheInv'
  <2>1. LinkOK'
    BY <1>0, <1>2 DEF LinkDown, LinkOK
  <2>2. QueueOK' /\ BatchOK'
    BY <1>0, <1>2, <1>b, EntriesTyped, DeliverTyped DEF LinkDown
  <2> QED
    BY <1>2, <1>c, <1>d, <1>r, <1>a, <1>n, <2>1, <2>2 DEF LinkDown
<1>3. ASSUME NEW p \in Protocols, NEW pv \in PVs, LinkLost(p, pv) PROVE CacheInv'
  <2>1. LinkOK'
    BY <1>0, <1>3 DEF LinkLost, LinkOK
  <2> QED
    BY <1>3, <1>c, <1>d, <1>q, <1>b, <1>r, <1>a, <1>n, <2>1 DEF LinkLost
<1>4. ASSUME NEW pv \in PVs, DeviceChanges(pv) PROVE CacheInv'
  <2>1. device[pv].val \in 1..MaxVal /\ device[pv].val < setup.values /\ setup.values \in 1..MaxVal
    <3>1. setup \in [dogs : SUBSET {"monitor", "api"}, stamped : SUBSET PVs,
                   values : 1..MaxVal, flips : 0..MaxFlips]
      BY <1>0 DEF ActorsOK
    <3>2. device[pv] \in [val : 1..MaxVal, up : BOOLEAN] /\ device[pv].val < setup.values
      BY <1>0, <1>4 DEF DeviceOK, DeviceChanges
    <3> QED
      BY <3>1, <3>2
  <2>2. device[pv].val + 1 \in 1..MaxVal
    BY <2>1
  <2>3. DeviceOK'
    BY <1>0, <1>4, <2>2 DEF DeviceOK, DeviceChanges
  <2>4. [val |-> device[pv].val + 1, conn |-> TRUE] \in Entries
    BY <2>2 DEF Entries
  <2>5. QueueOK' /\ UNCHANGED <<batch, stage, fetched, published>>
    BY <1>0, <1>4, <2>4, DeliverTyped DEF DeviceChanges
  <2> QED
    BY <1>4, <1>c, <1>l, <1>b, <1>r, <1>a, <1>n, <2>3, <2>5 DEF DeviceChanges
<1>5. ASSUME NEW pv \in PVs, DeviceFlips(pv) PROVE CacheInv'
  <2>1. CountsOK'
    <3>1. setup.flips \in 0..MaxFlips
      BY <1>0 DEF ActorsOK
    <3> QED
      BY <1>0, <1>5, <3>1 DEF DeviceFlips, CountsOK
  <2>2. DeviceOK'
    BY <1>0, <1>5 DEF DeviceFlips, DeviceOK
  <2> QED
    BY <1>5, <1>c, <1>l, <1>q, <1>b, <1>r, <1>a, <2>1, <2>2 DEF DeviceFlips
<1>6. ASSUME NEW p \in Protocols, Collect(p) PROVE CacheInv'
  <2>1. QueueOK' /\ BatchOK'
    BY <1>0, <1>6, CollectTyped
  <2> QED
    BY <1>6, <1>c, <1>d, <1>l, <1>r, <1>a, <1>n, <2>1 DEF Collect
<1>7. ASSUME NEW p \in Protocols, WriteBatch(p) PROVE CacheInv'
  <2>1. hash' \in [PVs -> Cached]
    BY <1>0, <1>7 DEF WriteBatch, RedisOK, BatchOK
  <2>2. RedisOK'
    BY <1>0, <1>7, <2>1 DEF WriteBatch, RedisOK, InBatch
  <2>3. BatchOK'
    BY <1>0, <1>7 DEF WriteBatch, BatchOK
  <2> QED
    BY <1>7, <1>c, <1>d, <1>l, <1>q, <1>a, <1>n, <2>2, <2>3 DEF WriteBatch
<1>8. ASSUME NEW p \in Protocols, FetchBatch(p) PROVE CacheInv'
  <2>1. [pv \in PVs |-> IF pv \in InBatch(p) THEN hash[pv] ELSE Missing] \in [PVs -> Cached]
    BY <1>0, EntriesTyped DEF RedisOK
  <2>2. BatchOK'
    BY <1>0, <1>8, <2>1 DEF FetchBatch, BatchOK
  <2> QED
    BY <1>8, <1>c, <1>d, <1>l, <1>q, <1>r, <1>a, <1>n, <2>2 DEF FetchBatch
<1>9. ASSUME NEW p \in Protocols, PublishBatch(p) PROVE CacheInv'
  <2>1. published' \in [PVs -> Cached]
    BY <1>0, <1>9 DEF PublishBatch, BatchOK
  <2>2. BatchOK'
    BY <1>0, <1>9, <2>1, EntriesTyped DEF PublishBatch, BatchOK
  <2> QED
    BY <1>9, <1>c, <1>d, <1>l, <1>q, <1>r, <1>a, <1>n, <2>2 DEF PublishBatch
<1>10. ASSUME NEW p \in Protocols, BatchFails(p) PROVE CacheInv'
  <2>1. BatchOK'
    BY <1>0, <1>10, EntriesTyped DEF BatchFails, BatchOK
  <2> QED
    BY <1>10, <1>c, <1>d, <1>l, <1>q, <1>r, <1>a, <1>n, <2>1 DEF BatchFails
<1>11. ASSUME NEW a \in Actors, CommandFails(a) PROVE CacheInv'
  <2>1. ActorsOK' /\ on[a] \in PVs
    BY <1>0, <1>11, RaiseTyped DEF CommandFails, ActorsOK, Pending
  <2>2. RedisOK'
    BY <1>0, <1>11, <2>1 DEF CommandFails, RedisOK, Halfway
  <2> QED
    BY <1>11, <1>c, <1>d, <1>l, <1>q, <1>b, <1>n, <2>1, <2>2 DEF CommandFails
<1>12. ASSUME NEW a \in Actors, ValueHset(a) PROVE CacheInv'
  <2>0. on[a] \in PVs /\ got[a] \in Cached /\ at[a] \in Pending
    BY <1>0, <1>12 DEF ValueHset, ActorsOK, Pending
  <2>1. CASE Raise(a) /\ UNCHANGED redis
    <3>1. ActorsOK'
      BY <1>0, <1>12, <2>0, <2>1, RaiseTyped DEF ValueHset
    <3> QED
      BY <1>12, <1>c, <1>d, <1>l, <1>q, <1>b, <1>r, <1>n, <2>1, <3>1 DEF ValueHset
  <2>2. CASE /\ hash' = [hash EXCEPT ![on[a]] = got[a]] /\ old' = old \ {on[a]}
             /\ at' = [at EXCEPT ![a] = "valueSrem"] /\ UNCHANGED <<disc, torn, on, got, todo, phase>>
    <3>1. RedisOK'
      BY <1>0, <2>0, <2>2 DEF RedisOK
    <3>2. ActorsOK'
      BY <1>0, <1>12, <2>0, <2>2 DEF ValueHset, ActorsOK, ActorStates
    <3> QED
      BY <1>12, <1>c, <1>d, <1>l, <1>q, <1>b, <1>n, <3>1, <3>2 DEF ValueHset
  <2> QED
    BY <1>12, <2>1, <2>2 DEF ValueHset
<1>13. ASSUME NEW a \in Actors, ValueSrem(a) PROVE CacheInv'
  <2>0. on[a] \in PVs
    BY <1>0, <1>13 DEF ValueSrem, ActorsOK, Pending
  <2>1. ActorsOK'
    <3>1. CASE NextPV(a)
      BY <1>0, <1>13, <3>1, NextPVTyped DEF ValueSrem
    <3>2. CASE at' = [at EXCEPT ![a] = "restart"] /\ UNCHANGED <<on, got, todo, phase>>
      BY <1>0, <1>13, <2>0, <3>2 DEF ValueSrem, ActorsOK, ActorStates
    <3> QED
      BY <1>13, <3>1, <3>2 DEF ValueSrem
  <2>2. RedisOK'
    BY <1>0, <1>13 DEF ValueSrem, RedisOK
  <2> QED
    BY <1>13, <1>c, <1>d, <1>l, <1>q, <1>b, <1>n, <2>1, <2>2 DEF ValueSrem
<1>14. ASSUME NEW a \in Actors, MarkGet(a) PROVE CacheInv'
  <2>0. on[a] \in PVs
    BY <1>0, <1>14 DEF MarkGet, ActorsOK, Pending
  <2>1. got' \in [Actors -> Cached]
    BY <1>0, <1>14, <2>0 DEF MarkGet, ActorsOK, RedisOK
  <2>2. ActorsOK'
    BY <1>0, <1>14, <2>0, <2>1 DEF MarkGet, ActorsOK, ActorStates
  <2> QED
    BY <1>14, <1>c, <1>d, <1>l, <1>q, <1>b, <1>r, <1>n, <2>2 DEF MarkGet
<1>15. ASSUME NEW a \in Actors, MarkHset(a) PROVE CacheInv'
  <2>0. on[a] \in PVs /\ got[a] \in Cached
    BY <1>0, <1>15 DEF MarkHset, ActorsOK, Pending
  <2>1. (IF got[a] = Missing THEN Lost ELSE [got[a] EXCEPT !.conn = FALSE]) \in Cached
    <3>1. CASE got[a] = Missing
      BY <3>1, EntriesTyped
    <3>2. CASE got[a] # Missing
      <4>1. got[a] \in Entries
        BY <2>0, <3>2 DEF Cached
      <4> QED
        BY <3>2, <4>1, EntriesTyped
    <3> QED
      BY <3>1, <3>2
  <2>2. RedisOK'
    BY <1>0, <1>15, <2>1 DEF MarkHset, RedisOK
  <2>3. ActorsOK'
    BY <1>0, <1>15, <2>0 DEF MarkHset, ActorsOK, ActorStates
  <2> QED
    BY <1>15, <1>c, <1>d, <1>l, <1>q, <1>b, <1>n, <2>2, <2>3 DEF MarkHset
<1>16. ASSUME NEW a \in Actors, MarkSadd(a) PROVE CacheInv'
  <2>0. on[a] \in PVs
    BY <1>0, <1>16 DEF MarkSadd, ActorsOK, Pending
  <2>1. ActorsOK'
    BY <1>0, <1>16, NextPVTyped DEF MarkSadd
  <2>2. RedisOK'
    BY <1>0, <1>16, <2>0 DEF MarkSadd, RedisOK
  <2> QED
    BY <1>16, <1>c, <1>d, <1>l, <1>q, <1>b, <1>n, <2>1, <2>2 DEF MarkSadd
<1>17. ASSUME NEW p \in Protocols, NEW pv \in PVs, StartMonitor(p, pv) PROVE CacheInv'
  <2>1. CASE link' = [link EXCEPT ![p][pv] = "search"] /\ UNCHANGED <<at, on, faults>>
    <3>1. LinkOK' /\ ActorsOK'
      BY <1>0, <1>17, <2>1 DEF StartMonitor, LinkOK, ActorsOK
    <3> QED
      BY <1>17, <1>c, <1>d, <1>q, <1>b, <1>r, <1>n, <2>1, <3>1 DEF StartMonitor
  <2>2. CASE /\ Fault /\ at' = [at EXCEPT !["starter"] = "markGet"]
             /\ on' = [on EXCEPT !["starter"] = pv] /\ UNCHANGED link
    <3>1. ActorsOK'
      <4>1. \A a \in Actors : at'[a] \in Pending => on'[a] \in PVs
        BY <1>0, <2>2 DEF ActorsOK
      <4> QED
        BY <1>0, <1>17, <2>2, <4>1 DEF StartMonitor, ActorsOK, ActorStates
    <3> QED
      BY <1>17, <1>c, <1>d, <1>l, <1>q, <1>b, <1>r, <1>n, <2>2, <3>1 DEF StartMonitor
  <2> QED
    BY <1>17, <2>1, <2>2 DEF StartMonitor
<1>18. CASE MonitorRestarts
  <2>1. LinkOK' /\ QueueOK'
    BY <1>18 DEF MonitorRestarts, LinkOK, QueueOK
  <2>2. BatchOK'
    BY <1>0, <1>18, EntriesTyped DEF MonitorRestarts, BatchOK
  <2>3. RedisOK'
    <3>1. \A a \in Halfway({"starter", "monitor"}) : on[a] \in PVs
      BY <1>0 DEF Halfway, ActorsOK, Actors, Dogs, Pending
    <3> QED
      BY <1>0, <1>18, <3>1 DEF MonitorRestarts, RedisOK
  <2>4. ActorsOK'
    <3>1. \A a \in Actors : a \in {"starter", "monitor", "api"}
      BY DEF Actors, Dogs
    <3>2. /\ at' \in [Actors -> ActorStates]
          /\ phase' \in [Actors -> {"start", "disconnected", "stale", "except"}]
      BY <1>0, <1>18, <3>1 DEF MonitorRestarts, ActorsOK, ActorStates
    <3>3. /\ on' \in [Actors -> PVs \cup {NoPV}] /\ got' \in [Actors -> Cached]
          /\ todo' \in [Actors -> SUBSET PVs]
      BY <1>0, <1>18, <3>1, EntriesTyped DEF MonitorRestarts, ActorsOK
    <3>4. \A a \in Actors : at'[a] \in Pending => on'[a] \in PVs
      BY <1>0, <1>18, <3>1 DEF MonitorRestarts, ActorsOK, Pending
    <3> QED
      BY <1>0, <1>18, <3>2, <3>3, <3>4 DEF MonitorRestarts, ActorsOK
  <2> QED
    BY <1>18, <1>c, <1>d, <1>n, <2>1, <2>2, <2>3, <2>4 DEF MonitorRestarts
<1>19. ASSUME NEW pv \in PVs, GrowsOld(pv) PROVE CacheInv'
  <2>1. RedisOK'
    BY <1>0, <1>19 DEF GrowsOld, RedisOK
  <2>2. ActorsOK'
    BY <1>a, <1>19 DEF GrowsOld
  <2> QED
    BY <1>19, <1>c, <1>d, <1>l, <1>q, <1>b, <1>n, <2>1, <2>2 DEF GrowsOld
<1>20. ASSUME NEW d \in Dogs, StartCheck(d) \/ StartStale(d) \/ EndCheck(d) PROVE CacheInv'
  <2>1. d \in Actors
    BY DEF Actors
  <2>2. /\ \E s \in {"disconnected", "stale", "idle"} : at' = [at EXCEPT ![d] = s]
        /\ \E s \in {"disconnected", "stale"} : phase' = [phase EXCEPT ![d] = s]
        /\ UNCHANGED <<starting, setup, on, got>>
    BY <1>20 DEF StartCheck, StartStale, EndCheck
  <2>3. todo' \in [Actors -> SUBSET PVs]
    BY <1>0, <1>20, <2>1 DEF StartCheck, StartStale, EndCheck, ActorsOK, RedisOK
  <2>4. ActorsOK'
    <3>1. \A a \in Actors : at'[a] \in Pending => on'[a] \in PVs
      BY <1>0, <2>1, <2>2 DEF ActorsOK, Pending
    <3> QED
      BY <1>0, <2>1, <2>2, <2>3, <3>1 DEF ActorsOK, ActorStates
  <2> QED
    BY <1>20, <1>c, <1>d, <1>l, <1>q, <1>b, <1>r, <1>n, <2>4 DEF StartCheck, StartStale, EndCheck
<1>21. ASSUME NEW d \in Dogs, RestartMonitor(d) PROVE CacheInv'
  <2>1. d \in Actors /\ on[d] \in PVs
    BY <1>0, <1>21 DEF RestartMonitor, ActorsOK, Pending, Actors
  <2>2. LinkOK'
    <3>1. \A p \in Protocols, s \in {"none", "search"} :
            [link[p] EXCEPT ![on[d]] = s] \in [PVs -> {"none", "search", "conn", "lost"}]
      BY <1>0 DEF LinkOK
    <3> QED
      BY <1>0, <1>21, <3>1 DEF RestartMonitor, LinkOK
  <2>3. ActorsOK'
    <3>1. CASE NextPV(d)
      BY <1>0, <1>21, <2>1, <3>1, NextPVTyped DEF RestartMonitor
    <3>2. CASE at' = [at EXCEPT ![d] = "markGet"] /\ UNCHANGED <<on, got, todo, phase>>
      BY <1>0, <1>21, <2>1, <3>2 DEF RestartMonitor, ActorsOK, ActorStates
    <3> QED
      BY <1>21, <3>1, <3>2 DEF RestartMonitor
  <2>4. UNCHANGED <<device, pipeline, redis, flips>> /\ (UNCHANGED faults \/ Fault)
    BY <1>21 DEF RestartMonitor
  <2> QED
    BY <1>c, <1>d, <1>q, <1>b, <1>r, <1>n, <2>2, <2>3, <2>4
<1>22. ASSUME NEW d \in Dogs, NEW pv \in PVs, ReadDevice(d, pv) PROVE CacheInv'
  <2>1. d \in Actors /\ Reading(pv) \in Cached /\ Lost \in Cached
    BY <1>0, ReadingTyped, EntriesTyped DEF Actors
  <2>2. todo' \in [Actors -> SUBSET PVs] /\ UNCHANGED <<starting, setup, phase>>
    BY <1>0, <1>22, <2>1 DEF ReadDevice, ActorsOK
  <2>3. \/ \E e \in {Reading(pv), Lost}, s \in {"valueHset", "markGet"} :
             /\ got' = [got EXCEPT ![d] = e] /\ on' = [on EXCEPT ![d] = pv] /\ at' = [at EXCEPT ![d] = s]
        \/ UNCHANGED <<got, on, at>>
    BY <1>22 DEF ReadDevice
  <2>4. ActorsOK'
    <3>1. got' \in [Actors -> Cached] /\ on' \in [Actors -> PVs \cup {NoPV}] /\ at' \in [Actors -> ActorStates]
      BY <1>0, <2>1, <2>3 DEF ActorsOK, ActorStates
    <3>2. \A a \in Actors : at'[a] \in Pending => on'[a] \in PVs
      BY <1>0, <2>1, <2>3 DEF ActorsOK
    <3> QED
      BY <1>0, <2>2, <3>1, <3>2 DEF ActorsOK
  <2>5. UNCHANGED <<External, redis>> /\ (UNCHANGED faults \/ Fault)
    BY <1>22 DEF ReadDevice
  <2> QED
    BY <1>c, <1>d, <1>l, <1>q, <1>b, <1>r, <1>n, <2>4, <2>5
<1>23. CASE UNCHANGED vars
  BY <1>23, <1>c, <1>d, <1>l, <1>q, <1>b, <1>r, <1>a, <1>n DEF vars
<1> QED
  BY <1>1, <1>2, <1>3, <1>4, <1>5, <1>6, <1>7, <1>8, <1>9, <1>10, <1>11, <1>12, <1>13, <1>14, <1>15,
     <1>16, <1>17, <1>18, <1>19, <1>20, <1>21, <1>22, <1>23
  DEF Next, Library, Processor, Commands, Watchdog

LEMMA CacheInit == Init => CacheInv
<1> SUFFICES ASSUME Init
             PROVE  CacheInv
  OBVIOUS
<1>1. DeviceOK
  BY DEF Init, DeviceOK
<1>2. LinkOK /\ QueueOK
  BY DEF Init, LinkOK, QueueOK
<1>3. BatchOK /\ RedisOK
  BY EntriesTyped DEF Init, BatchOK, RedisOK
<1>4. ActorsOK
  BY EntriesTyped DEF Init, ActorsOK, ActorStates, Pending
<1>5. CountsOK
  BY DEF Init, CountsOK
<1> QED
  BY <1>1, <1>2, <1>3, <1>4, <1>5, CacheParts

LEMMA CacheInvariant == Spec => []CacheInv
BY CacheInit, CacheStep, PTL DEF Spec

(* Every variable keeps its type in every deployment: above all, the entries
   of the hash and of a batch are entries, not queued items
   (_process_update_queue of pv_monitor.py). *)
THEOREM TypeCorrect == Spec => []TypeOK
<1>1. CacheInv => TypeOK
  BY DEF CacheInv
<1> QED
  BY <1>1, CacheInvariant, PTL

-----------------------------------------------------------------------------
(* What is disconnected is listed *)

(* Steps that leave the entry of the PV alone. *)
LEMMA StaysListed ==
  ASSUME NEW pv, Listed(pv), hash'[pv] = hash[pv],
         pv \in disc \cup torn => pv \in disc' \cup torn',
         \A a \in Actors : at[a] = "markSadd" /\ on[a] = pv =>
           (at'[a] = "markSadd" /\ on'[a] = pv) \/ pv \in disc' \cup torn'
  PROVE  Listed(pv)'
BY DEF Listed

(* An actor goes on or raises: no other moves, and it is not in the middle
   of a reading. *)
LEMMA OneMoves ==
  ASSUME ActorsOK, NEW a \in Actors, at[a] \in Pending, NextPV(a) \/ Raise(a)
  PROVE  /\ \A b \in Actors : b # a => at'[b] = at[b] /\ on'[b] = on[b]
         /\ at'[a] # "valueSrem"
<1>1. phase[a] \in {"start", "disconnected", "stale", "except"} /\ at \in [Actors -> ActorStates]
      /\ on \in [Actors -> PVs \cup {NoPV}]
  BY DEF ActorsOK
<1>2. ASSUME NextPV(a)
      PROVE  /\ \A b \in Actors : b # a => at'[b] = at[b] /\ on'[b] = on[b]
             /\ at'[a] # "valueSrem"
  BY <1>1, <1>2 DEF NextPV
<1>3. ASSUME Raise(a), ~NextPV(a)
      PROVE  /\ \A b \in Actors : b # a => at'[b] = at[b] /\ on'[b] = on[b]
             /\ at'[a] # "valueSrem"
  <2>1. CASE phase[a] = "stale"
    BY <1>1, <1>3, <2>1 DEF Raise
  <2>2. CASE phase[a] = "except"
    BY <1>1, <1>3, <2>2 DEF Raise
  <2>3. CASE phase[a] \in {"start", "disconnected"}
    BY <1>3, <2>3 DEF Raise
  <2> QED
    BY <1>1, <2>1, <2>2, <2>3
<1> QED
  BY <1>2, <1>3

LEMMA ListedStep ==
  ASSUME CacheInv, AllListed, [Next]_vars
  PROVE  AllListed'
<1> USE DEF redis, pipeline, actors, External
<1>0. /\ ActorsOK /\ RedisOK /\ BatchOK
      /\ at \in [Actors -> ActorStates] /\ on \in [Actors -> PVs \cup {NoPV}]
      /\ DOMAIN hash = PVs
      /\ StampedRaises /\ \A pv \in setup.stamped : Listed(pv)
  BY CacheParts DEF ActorsOK, RedisOK, AllListed
<1>1. ASSUME setup' = setup, StampedRaises',
             \A pv \in setup.stamped : Listed(pv)'
      PROVE  AllListed'
  BY <1>1 DEF AllListed
<1>2. ASSUME UNCHANGED <<hash, disc, torn, at, on, setup>>
      PROVE  AllListed'
  BY <1>0, <1>2 DEF AllListed, StampedRaises, Listed
<1>3. ASSUME NEW p \in Protocols, WriteBatch(p) PROVE AllListed'
  <2>1. UNCHANGED <<at, on, setup>>
    BY <1>3 DEF WriteBatch
  <2>2. StampedRaises'
    BY <1>0, <2>1 DEF StampedRaises
  <2>3. ASSUME NEW pv \in setup.stamped PROVE Listed(pv)'
    <3>0. pv \in PVs
      BY <1>0 DEF ActorsOK
    <3>1. CASE pv \in InBatch(p)
      <4>1. hash'[pv] = batch[p][pv] /\ (~batch[p][pv].conn => pv \in disc')
        BY <1>3, <3>0, <3>1 DEF WriteBatch
      <4> QED
        BY <4>1 DEF Listed
    <3>2. CASE pv \notin InBatch(p)
      <4>1. hash'[pv] = hash[pv] /\ (pv \in disc => pv \in disc') /\ (pv \in torn => pv \in torn')
        BY <1>3, <3>0, <3>2 DEF WriteBatch
      <4> QED
        BY <1>0, <2>1, <4>1, StaysListed
    <3> QED
      BY <3>1, <3>2
  <2> QED
    BY <1>1, <2>1, <2>2, <2>3
(* One actor moves to a state that is not between the commands of
   set_pv_value, and hash and set keep what they have. *)
<1>4. ASSUME NEW a \in Actors, UNCHANGED <<hash, disc, setup>>, torn \subseteq torn',
             \A b \in Actors : b # a => at'[b] = at[b] /\ on'[b] = on[b],
             at'[a] # "valueSrem", at[a] = "markSadd" => on[a] \in torn'
      PROVE  AllListed'
  <2>1. StampedRaises'
    BY <1>0, <1>4 DEF StampedRaises
  <2>2. ASSUME NEW pv \in setup.stamped PROVE Listed(pv)'
    <3>1. \A b \in Actors : at[b] = "markSadd" /\ on[b] = pv =>
            (at'[b] = "markSadd" /\ on'[b] = pv) \/ pv \in disc' \cup torn'
      BY <1>4
    <3> QED
      BY <1>0, <1>4, <3>1, StaysListed
  <2> QED
    BY <1>1, <1>4, <2>1, <2>2
<1>5. ASSUME NEW a \in Actors, CommandFails(a) PROVE AllListed'
  <2>1. at[a] \in Pending /\ Raise(a) /\ UNCHANGED <<hash, disc, setup>>
        /\ torn' = torn \cup {on[b] : b \in Halfway({a})}
    BY <1>5 DEF CommandFails, Pending
  <2>2. at[a] = "markSadd" => on[a] \in torn'
    BY <2>1 DEF Halfway
  <2> QED
    BY <1>0, <1>4, <2>1, <2>2, OneMoves
<1>6. ASSUME NEW a \in Actors, ValueHset(a) PROVE AllListed'
  <2>0. at[a] = "valueHset" /\ at[a] \in Pending /\ UNCHANGED setup
    BY <1>6 DEF ValueHset, Pending
  <2>1. CASE Raise(a) /\ UNCHANGED redis
    BY <1>0, <1>4, <2>0, <2>1, OneMoves
  <2>2. CASE /\ on[a] \notin setup.stamped /\ hash' = [hash EXCEPT ![on[a]] = got[a]]
             /\ at' = [at EXCEPT ![a] = "valueSrem"] /\ UNCHANGED <<disc, torn, on>>
    <3>1. StampedRaises'
      BY <1>0, <2>0, <2>2 DEF StampedRaises
    <3>2. ASSUME NEW pv \in setup.stamped PROVE Listed(pv)'
      <4>1. hash'[pv] = hash[pv]
        BY <1>0, <2>2
      <4>2. \A b \in Actors : at[b] = "markSadd" => at'[b] = "markSadd"
        BY <1>0, <2>0, <2>2
      <4> QED
        BY <1>0, <2>2, <4>1, <4>2, StaysListed
    <3> QED
      BY <1>1, <2>0, <3>1, <3>2
  <2> QED
    BY <1>6, <2>1, <2>2 DEF ValueHset
<1>7. ASSUME NEW a \in Actors, ValueSrem(a) PROVE AllListed'
  <2>1. /\ at[a] = "valueSrem" /\ at[a] \in Pending /\ UNCHANGED <<hash, setup>>
        /\ disc' = disc \ {on[a]} /\ torn' = torn \ {on[a]}
    BY <1>7 DEF ValueSrem, Pending
  <2>2. on[a] \notin setup.stamped
    BY <1>0, <2>1 DEF StampedRaises
  <2>3. /\ \A b \in Actors : b # a => at'[b] = at[b] /\ on'[b] = on[b]
        /\ at'[a] # "valueSrem"
    <3>1. CASE NextPV(a)
      BY <1>0, <2>1, <3>1, OneMoves
    <3>2. CASE at' = [at EXCEPT ![a] = "restart"] /\ UNCHANGED on
      BY <1>0, <3>2
    <3> QED
      BY <1>7, <3>1, <3>2 DEF ValueSrem
  <2>4. StampedRaises'
    BY <1>0, <2>1, <2>3 DEF StampedRaises
  <2>5. ASSUME NEW pv \in setup.stamped PROVE Listed(pv)'
    <3>1. \A b \in Actors : at[b] = "markSadd" => at'[b] = "markSadd" /\ on'[b] = on[b]
      BY <2>1, <2>3
    <3>2. pv # on[a]
      BY <2>2
    <3> QED
      BY <1>0, <2>1, <3>1, <3>2, StaysListed
  <2> QED
    BY <1>1, <2>1, <2>4, <2>5
<1>8. ASSUME NEW a \in Actors, MarkGet(a) PROVE AllListed'
  <2>1. /\ at[a] = "markGet" /\ at' = [at EXCEPT ![a] = "markHset"]
        /\ UNCHANGED <<hash, disc, torn, on, setup>>
    BY <1>8 DEF MarkGet
  <2> QED
    BY <1>0, <1>4, <2>1
<1>9. ASSUME NEW a \in Actors, MarkHset(a) PROVE AllListed'
  <2>1. /\ at[a] = "markHset" /\ at' = [at EXCEPT ![a] = "markSadd"]
        /\ UNCHANGED <<disc, torn, on, setup>>
        /\ \A pv \in PVs : pv # on[a] => hash'[pv] = hash[pv]
    BY <1>0, <1>9 DEF MarkHset
  <2>2. StampedRaises'
    BY <1>0, <2>1 DEF StampedRaises
  <2>3. ASSUME NEW pv \in setup.stamped PROVE Listed(pv)'
    <3>0. pv \in PVs
      BY <1>0 DEF ActorsOK
    <3>1. CASE pv = on[a]
      <4>1. at'[a] = "markSadd" /\ on'[a] = pv
        BY <1>0, <2>1, <3>1
      <4> QED
        BY <4>1 DEF Listed
    <3>2. CASE pv # on[a]
      <4>1. \A b \in Actors : at[b] = "markSadd" => at'[b] = "markSadd"
        BY <1>0, <2>1
      <4> QED
        BY <1>0, <2>1, <3>0, <3>2, <4>1, StaysListed
    <3> QED
      BY <3>1, <3>2
  <2> QED
    BY <1>1, <2>1, <2>2, <2>3
<1>10. ASSUME NEW a \in Actors, MarkSadd(a) PROVE AllListed'
  <2>1. /\ at[a] = "markSadd" /\ at[a] \in Pending /\ NextPV(a) /\ UNCHANGED <<hash, setup>>
        /\ disc' = disc \cup {on[a]} /\ torn' = torn \ {on[a]}
    BY <1>10 DEF MarkSadd, Pending
  <2>2. /\ \A b \in Actors : b # a => at'[b] = at[b] /\ on'[b] = on[b]
        /\ at'[a] # "valueSrem"
    BY <1>0, <2>1, OneMoves
  <2>3. StampedRaises'
    BY <1>0, <2>1, <2>2 DEF StampedRaises
  <2>4. ASSUME NEW pv \in setup.stamped PROVE Listed(pv)'
    <3>1. \A b \in Actors : at[b] = "markSadd" /\ on[b] = pv =>
            (at'[b] = "markSadd" /\ on'[b] = pv) \/ pv \in disc' \cup torn'
      BY <2>1, <2>2
    <3> QED
      BY <1>0, <2>1, <3>1, StaysListed
  <2> QED
    BY <1>1, <2>1, <2>3, <2>4
<1>11. ASSUME NEW p \in Protocols, NEW pv \in PVs, StartMonitor(p, pv) PROVE AllListed'
  <2>1. /\ at["starter"] = "start" /\ "starter" \in Actors /\ UNCHANGED <<hash, disc, torn, setup>>
        /\ \/ UNCHANGED <<at, on>>
           \/ /\ at' = [at EXCEPT !["starter"] = "markGet"]
              /\ on' = [on EXCEPT !["starter"] = pv]
    BY <1>11 DEF StartMonitor, Actors
  <2> QED
    BY <1>0, <1>4, <2>1
<1>12. ASSUME MonitorRestarts PROVE AllListed'
  <2>1. /\ UNCHANGED <<hash, disc, setup>>
        /\ torn' = torn \cup {on[a] : a \in Halfway({"starter", "monitor"})}
        /\ \A a \in Actors : \/ (a = "starter" \/ a = "monitor") /\ at'[a] \in {"start", "idle"}
                             \/ at'[a] = at[a] /\ on'[a] = on[a]
    <3>1. /\ \A a \in Actors : a = "starter" \/ a = "monitor" \/ a = "api"
          /\ at' = [a \in Actors |-> CASE a = "starter" -> "start" [] a = "monitor" -> "idle"
                                       [] a = "api" -> at[a]]
          /\ on' = [a \in Actors |-> IF a = "api" THEN on[a] ELSE NoPV]
      BY <1>12 DEF MonitorRestarts, Actors, Dogs
    <3>2. \A a \in Actors : \/ a = "starter" /\ at'[a] = "start"
                            \/ a = "monitor" /\ at'[a] = "idle"
                            \/ at'[a] = at[a] /\ on'[a] = on[a]
      BY <3>1
    <3> QED
      BY <1>12, <3>2 DEF MonitorRestarts
  <2>2. StampedRaises'
    BY <1>0, <2>1 DEF StampedRaises
  <2>3. \A a \in {"starter", "monitor"} : at[a] = "markSadd" => on[a] \in torn'
    BY <2>1 DEF Halfway
  <2>4. ASSUME NEW pv \in setup.stamped PROVE Listed(pv)'
    <3>1. \A b \in Actors : at[b] = "markSadd" /\ on[b] = pv =>
            (at'[b] = "markSadd" /\ on'[b] = pv) \/ pv \in disc' \cup torn'
      BY <2>1, <2>3
    <3> QED
      BY <1>0, <2>1, <3>1, StaysListed
  <2> QED
    BY <1>1, <2>1, <2>2, <2>4
<1>13. ASSUME NEW d \in Dogs, StartCheck(d) \/ StartStale(d) \/ EndCheck(d) PROVE AllListed'
  <2>1. /\ d \in Actors /\ UNCHANGED <<hash, disc, torn, on, setup>>
        /\ at[d] # "markSadd"
        /\ \E s \in {"disconnected", "stale", "idle"} : at' = [at EXCEPT ![d] = s]
    BY <1>13 DEF StartCheck, StartStale, EndCheck, Actors
  <2> QED
    BY <1>0, <1>4, <2>1
<1>14. ASSUME NEW d \in Dogs, RestartMonitor(d) PROVE AllListed'
  <2>1. /\ d \in Actors /\ at[d] = "restart" /\ at[d] \in Pending
        /\ UNCHANGED <<hash, disc, torn, setup>>
        /\ NextPV(d) \/ (at' = [at EXCEPT ![d] = "markGet"] /\ UNCHANGED on)
    BY <1>14 DEF RestartMonitor, Actors, Pending
  <2>2. CASE NextPV(d)
    BY <1>0, <1>4, <2>1, <2>2, OneMoves
  <2>3. CASE at' = [at EXCEPT ![d] = "markGet"] /\ UNCHANGED on
    BY <1>0, <1>4, <2>1, <2>3
  <2> QED
    BY <2>1, <2>2, <2>3
<1>15. ASSUME NEW d \in Dogs, NEW pv \in PVs, ReadDevice(d, pv) PROVE AllListed'
  <2>1. /\ d \in Actors /\ at[d] # "markSadd" /\ UNCHANGED <<hash, disc, torn, setup>>
        /\ \/ UNCHANGED <<at, on>>
           \/ /\ on' = [on EXCEPT ![d] = pv]
              /\ \E s \in {"valueHset", "markGet"} : at' = [at EXCEPT ![d] = s]
    BY <1>15 DEF ReadDevice, Actors
  <2> QED
    BY <1>0, <1>2, <1>4, <2>1
<1>16. ASSUME NEW p \in Protocols, Collect(p) \/ FetchBatch(p) \/ PublishBatch(p) \/ BatchFails(p)
       PROVE  AllListed'
  BY <1>2, <1>16 DEF Collect, FetchBatch, PublishBatch, BatchFails
<1>17. ASSUME NEW p \in Protocols, NEW pv \in PVs, LinkUp(p, pv) \/ LinkDown(p, pv) \/ LinkLost(p, pv)
       PROVE  AllListed'
  BY <1>2, <1>17 DEF LinkUp, LinkDown, LinkLost
<1>18. ASSUME NEW pv \in PVs, DeviceChanges(pv) \/ DeviceFlips(pv) \/ GrowsOld(pv)
       PROVE  AllListed'
  BY <1>2, <1>18 DEF DeviceChanges, DeviceFlips, GrowsOld
<1>19. UNCHANGED vars => AllListed'
  BY <1>2 DEF vars
<1> QED
  BY <1>3, <1>5, <1>6, <1>7, <1>8, <1>9, <1>10, <1>11, <1>12, <1>13, <1>14, <1>15, <1>16, <1>17,
     <1>18, <1>19 DEF Next, Library, Processor, Commands, Watchdog

(* What the watchdog depends on ("Track disconnected PVs in a separate set
   for quick lookup", redis_service.py:138): with any watchdogs and both
   monitors writing at once, one command at a time, through failed commands,
   failed batches and restarts, an entry that says disconnected is in the
   disconnected set, unless a writer is between its two commands or stopped
   there.  For PVs whose readings carry a timestamp, which set_pv_value
   cannot store. *)
THEOREM DisconnectedAreListed == Spec => []DisconnectedIsListed
<1>1. Init => AllListed
  <2> SUFFICES ASSUME Init PROVE AllListed
    OBVIOUS
  <2>1. StampedRaises
    BY DEF Init, StampedRaises
  <2>2. setup.stamped \subseteq PVs
    BY DEF Init
  <2>3. \A pv \in PVs : Listed(pv)
    BY DEF Init, Listed, Empty
  <2> QED
    BY <2>1, <2>2, <2>3 DEF AllListed
<1>2. CacheInv /\ AllListed /\ [Next]_vars => AllListed'
  BY ListedStep
<1>3. AllListed => DisconnectedIsListed
  <2> SUFFICES ASSUME AllListed, NEW pv \in setup.stamped,
                      Settled(pv), pv \notin torn, hash[pv] # Missing, ~hash[pv].conn
               PROVE  pv \in disc
    BY DEF DisconnectedIsListed
  <2>1. Listed(pv)
    BY DEF AllListed
  <2> QED
    BY <2>1 DEF Listed, Settled
<1> QED
  BY <1>1, <1>2, <1>3, CacheInvariant, PTL DEF Spec

-----------------------------------------------------------------------------
(* Hash and channel *)

LEMMA DogsStep ==
  ASSUME CacheInv, DogsInSetup, [Next]_vars
  PROVE  DogsInSetup'
<1> USE DEF redis, pipeline, actors, External
<1>0. ActorsOK /\ at \in [Actors -> ActorStates] /\ \A d \in Dogs : d \in Actors
  BY CacheParts DEF ActorsOK, Actors
<1>1. ASSUME setup' = setup, \A d \in Dogs : at'[d] # "idle" => at[d] # "idle" \/ d \in setup.dogs
      PROVE  DogsInSetup'
  BY <1>1 DEF DogsInSetup
<1>2. ASSUME NEW a \in Actors, setup' = setup, at[a] \in Pending,
             \A b \in Actors : b # a => at'[b] = at[b]
      PROVE  DogsInSetup'
  BY <1>0, <1>1, <1>2 DEF Pending
<1>3. ASSUME NEW a \in Actors, Commands(a) PROVE DogsInSetup'
  <2>1. at[a] \in Pending /\ setup' = setup
    BY <1>3 DEF Commands, ValueHset, ValueSrem, MarkGet, MarkHset, MarkSadd, Pending
  <2>2. NextPV(a) \/ Raise(a) \/ \E s \in ActorStates : at' = [at EXCEPT ![a] = s]
    BY <1>3 DEF Commands, ValueHset, ValueSrem, MarkGet, MarkHset, MarkSadd, ActorStates
  <2>3. \A b \in Actors : b # a => at'[b] = at[b]
    BY <1>0, <2>1, <2>2, OneMoves
  <2> QED
    BY <1>2, <2>1, <2>3
<1>4. ASSUME NEW a \in Actors, CommandFails(a) PROVE DogsInSetup'
  <2>1. at[a] \in Pending /\ setup' = setup /\ Raise(a)
    BY <1>4 DEF CommandFails, Pending
  <2> QED
    BY <1>0, <1>2, <2>1, OneMoves
<1>5. ASSUME NEW p \in Protocols, NEW pv \in PVs, StartMonitor(p, pv) PROVE DogsInSetup'
  <2>1. setup' = setup /\ \A d \in Dogs : at'[d] = at[d]
    BY <1>0, <1>5 DEF StartMonitor, Dogs
  <2> QED
    BY <1>1, <2>1
<1>6. ASSUME MonitorRestarts PROVE DogsInSetup'
  <2>1. setup' = setup /\ \A d \in Dogs : at'[d] \in {"idle", at[d]}
    BY <1>6 DEF MonitorRestarts, Dogs, Actors
  <2> QED
    BY <1>1, <2>1
<1>7. ASSUME NEW d \in Dogs, StartCheck(d) \/ StartStale(d) \/ EndCheck(d) PROVE DogsInSetup'
  <2>1. setup' = setup /\ d \in Actors /\ (d \in setup.dogs \/ at[d] # "idle")
    BY <1>0, <1>7 DEF StartCheck, StartStale, EndCheck
  <2>2. \A b \in Actors : b # d => at'[b] = at[b]
    BY <1>0, <1>7 DEF StartCheck, StartStale, EndCheck
  <2> QED
    BY <1>0, <1>1, <2>1, <2>2
<1>8. ASSUME NEW d \in Dogs, RestartMonitor(d) PROVE DogsInSetup'
  <2>1. setup' = setup /\ d \in Actors /\ at[d] \in Pending
    BY <1>0, <1>8 DEF RestartMonitor, Pending
  <2>2. \A b \in Actors : b # d => at'[b] = at[b]
    <3>1. NextPV(d) \/ at' = [at EXCEPT ![d] = "markGet"]
      BY <1>8 DEF RestartMonitor
    <3> QED
      BY <1>0, <2>1, <3>1, OneMoves
  <2> QED
    BY <1>2, <2>1, <2>2
<1>9. ASSUME NEW d \in Dogs, NEW pv \in PVs, ReadDevice(d, pv) PROVE DogsInSetup'
  <2>1. setup' = setup /\ d \in Actors /\ at[d] # "idle"
    BY <1>0, <1>9 DEF ReadDevice
  <2>2. \A b \in Actors : b # d => at'[b] = at[b]
    BY <1>0, <1>9 DEF ReadDevice
  <2> QED
    BY <1>0, <1>1, <2>1, <2>2
<1>10. ASSUME NEW p \in Protocols, Processor(p) \/ BatchFails(p) PROVE DogsInSetup'
  BY <1>1, <1>10 DEF Processor, Collect, WriteBatch, FetchBatch, PublishBatch, BatchFails
<1>11. ASSUME NEW p \in Protocols, NEW pv \in PVs, Library(p, pv) \/ LinkLost(p, pv) PROVE DogsInSetup'
  BY <1>1, <1>11 DEF Library, LinkUp, LinkDown, LinkLost
<1>12. ASSUME NEW pv \in PVs, DeviceChanges(pv) \/ DeviceFlips(pv) \/ GrowsOld(pv) PROVE DogsInSetup'
  BY <1>1, <1>12 DEF DeviceChanges, DeviceFlips, GrowsOld
<1>13. UNCHANGED vars => DogsInSetup'
  BY <1>1 DEF vars
<1> QED
  BY <1>3, <1>4, <1>5, <1>6, <1>7, <1>8, <1>9, <1>10, <1>11, <1>12, <1>13 DEF Next, Watchdog

LEMMA ToldStep ==
  ASSUME OneProtocol, CacheInv, DogsInSetup, Told, [Next]_vars
  PROVE  Told'
<1> USE DEF redis, pipeline, actors, External
<1>0. /\ BatchOK /\ RedisOK /\ ActorsOK /\ faults \in Nat
      /\ at \in [Actors -> ActorStates] /\ "starter" \in Actors
  BY CacheParts DEF CountsOK, ActorsOK, Actors
<1>1. Fault => Told'
  BY <1>0 DEF Fault, Told
<1>2. UNCHANGED <<batch, stage, fetched, published, hash, setup, faults>>
      /\ at'["starter"] = at["starter"] => Told'
  BY DEF Told, InBatch, OfWatchdog
(* A command of a watchdog changes the entry of one PV, in a way that it may. *)
<1>3. ASSUME UNCHANGED <<batch, stage, fetched, published, setup, faults>>,
             at'["starter"] = at["starter"],
             \A pv \in PVs : hash'[pv] = hash[pv] \/ OfWatchdog(pv)'
      PROVE  Told'
  <2>1. \A pv \in PVs : OfWatchdog(pv) => OfWatchdog(pv)'
    BY <1>3 DEF OfWatchdog
  <2>2. \A p \in Protocols : InBatch(p)' = InBatch(p)
    BY <1>3 DEF InBatch
  <2> HIDE DEF OfWatchdog
  <2> QED
    BY <1>3, <2>1, <2>2 DEF Told
<1>4. ASSUME NEW a \in Actors, at[a] \in Pending, NextPV(a) \/ Raise(a)
      PROVE  a # "starter" => at'["starter"] = at["starter"]
  BY <1>0, <1>4, OneMoves
<1>5. ASSUME NEW a \in Actors, Commands(a) PROVE Told'
  <2>0. /\ at[a] \in Pending /\ UNCHANGED <<batch, stage, fetched, published, setup, faults>>
        /\ on[a] \in PVs /\ got[a] \in Cached
    BY <1>0, <1>5 DEF Commands, ValueHset, ValueSrem, MarkGet, MarkHset, MarkSadd, Pending, ActorsOK
  <2>1. CASE a = "starter"
    <3>1. faults # 0
      BY <2>0, <2>1 DEF Told, Pending
    <3> QED
      BY <2>0, <3>1 DEF Told
  <2>2. CASE a # "starter"
    <3>1. a \in Dogs /\ setup.dogs # {}
      BY <2>0, <2>2 DEF Actors, Pending, DogsInSetup
    <3>2. at'["starter"] = at["starter"]
      <4>1. NextPV(a) \/ Raise(a) \/ \E s \in ActorStates : at' = [at EXCEPT ![a] = s]
        BY <1>5 DEF Commands, ValueHset, ValueSrem, MarkGet, MarkHset, MarkSadd, ActorStates
      <4> QED
        BY <1>0, <1>4, <2>0, <2>2, <4>1
    <3>3. ASSUME NEW pv \in PVs, hash'[pv] # hash[pv] PROVE OfWatchdog(pv)'
      <4>1. CASE ValueHset(a)
        <5>1. pv = on[a] /\ on[a] \notin setup.stamped /\ setup' = setup
          BY <1>0, <3>3, <4>1 DEF ValueHset, RedisOK
        <5> QED
          BY <3>1, <5>1 DEF OfWatchdog
      <4>2. CASE MarkHset(a)
        <5>1. pv = on[a] /\ setup' = setup
              /\ hash'[pv] = IF got[a] = Missing THEN Lost ELSE [got[a] EXCEPT !.conn = FALSE]
          BY <1>0, <3>3, <4>2 DEF MarkHset, RedisOK
        <5>2. got[a] # Missing => got[a] \in [val : 0..MaxVal, conn : BOOLEAN]
          BY <2>0 DEF Cached, Entries
        <5>3. ~hash'[pv].conn
          BY <5>1, <5>2 DEF Lost
        <5> QED
          BY <3>1, <5>1, <5>3 DEF OfWatchdog
      <4>3. hash' = hash \/ ValueHset(a) \/ MarkHset(a)
        BY <1>5 DEF Commands, ValueSrem, MarkGet, MarkSadd
      <4> QED
        BY <3>3, <4>1, <4>2, <4>3
    <3> QED
      BY <1>3, <2>0, <3>2, <3>3
  <2> QED
    BY <2>1, <2>2
<1>6. ASSUME NEW a \in Actors, CommandFails(a) PROVE Told'
  BY <1>1, <1>6 DEF CommandFails
<1>7. ASSUME NEW p \in Protocols, Collect(p) PROVE Told'
  <2>1. /\ UNCHANGED <<fetched, published, hash, at, setup, faults>>
        /\ stage' = [stage EXCEPT ![p] = "write"] /\ stage[p] = "collect"
    BY <1>7 DEF Collect
  <2>2. \A q \in Protocols : q = p
    BY DEF OneProtocol
  <2>3. stage'[p] = "write"
    BY <1>0, <2>1 DEF BatchOK
  <2> QED
    BY <2>1, <2>2, <2>3 DEF Told, OfWatchdog
<1>8. ASSUME NEW p \in Protocols, WriteBatch(p) PROVE Told'
  <2>1. UNCHANGED <<batch, fetched, published, at, setup, faults>> /\ stage'[p] = "read" /\ stage[p] = "write"
    BY <1>0, <1>8 DEF WriteBatch, BatchOK
  <2>2. \A q \in Protocols : q = p
    BY DEF OneProtocol
  <2>3. \A pv \in PVs : pv \notin InBatch(p) => hash'[pv] = hash[pv]
    BY <1>8 DEF WriteBatch
  <2>4. InBatch(p)' = InBatch(p)
    BY <2>1 DEF InBatch
  <2> QED
    BY <2>1, <2>2, <2>3, <2>4 DEF Told, OfWatchdog
<1>9. ASSUME NEW p \in Protocols, FetchBatch(p) PROVE Told'
  <2>1. UNCHANGED <<batch, hash, published, at, setup, faults>> /\ stage'[p] = "publish" /\ stage[p] = "read"
    BY <1>0, <1>9 DEF FetchBatch, BatchOK
  <2>2. \A q \in Protocols : q = p
    BY DEF OneProtocol
  <2>3. \A pv \in PVs : pv \in InBatch(p) => fetched'[p][pv] = hash[pv]
    BY <1>0, <1>9 DEF FetchBatch, BatchOK
  <2>4. InBatch(p)' = InBatch(p)
    BY <2>1 DEF InBatch
  <2> QED
    BY <2>1, <2>2, <2>3, <2>4 DEF Told, OfWatchdog
<1>10. ASSUME NEW p \in Protocols, PublishBatch(p) PROVE Told'
  <2>1. UNCHANGED <<hash, at, setup, faults>> /\ stage'[p] = "collect" /\ stage[p] = "publish"
    BY <1>0, <1>10 DEF PublishBatch, BatchOK
  <2>2. \A q \in Protocols : q = p
    BY DEF OneProtocol
  <2>3. \A pv \in PVs : published'[pv] = IF pv \in InBatch(p) THEN fetched[p][pv] ELSE published[pv]
    BY <1>10 DEF PublishBatch
  <2> QED
    BY <2>1, <2>2, <2>3 DEF Told, OfWatchdog
<1>11. ASSUME NEW p \in Protocols, BatchFails(p) PROVE Told'
  BY <1>1, <1>11 DEF BatchFails
<1>12. ASSUME NEW p \in Protocols, NEW pv \in PVs, StartMonitor(p, pv) PROVE Told'
  BY <1>1, <1>2, <1>12 DEF StartMonitor
<1>13. ASSUME NEW p \in Protocols, NEW pv \in PVs, LinkUp(p, pv) \/ LinkDown(p, pv) \/ LinkLost(p, pv)
       PROVE  Told'
  BY <1>1, <1>2, <1>13 DEF LinkUp, LinkDown, LinkLost, Deliver
<1>14. ASSUME NEW pv \in PVs, DeviceChanges(pv) \/ DeviceFlips(pv) \/ GrowsOld(pv)
       PROVE  Told'
  BY <1>2, <1>14 DEF DeviceChanges, DeviceFlips, GrowsOld, Deliver
<1>15. ASSUME NEW d \in Dogs, StartCheck(d) \/ StartStale(d) \/ EndCheck(d) PROVE Told'
  <2>1. at'["starter"] = at["starter"]
    BY <1>0, <1>15 DEF StartCheck, StartStale, EndCheck, Dogs
  <2> QED
    BY <1>2, <1>15, <2>1 DEF StartCheck, StartStale, EndCheck
<1>16. ASSUME NEW d \in Dogs, NEW pv \in PVs, ReadDevice(d, pv) PROVE Told'
  <2>1. at'["starter"] = at["starter"]
    BY <1>0, <1>16 DEF ReadDevice, Dogs
  <2> QED
    BY <1>1, <1>2, <1>16, <2>1 DEF ReadDevice
<1>17. ASSUME NEW d \in Dogs, RestartMonitor(d) PROVE Told'
  <2>1. d \in Actors /\ d # "starter" /\ at[d] \in Pending
    BY <1>17 DEF RestartMonitor, Pending, Actors, Dogs
  <2>2. NextPV(d) => at'["starter"] = at["starter"]
    BY <1>4, <2>1
  <2> QED
    BY <1>1, <1>2, <1>17, <2>2 DEF RestartMonitor
<1>18. MonitorRestarts \/ UNCHANGED vars => Told'
  BY <1>1, <1>2 DEF MonitorRestarts, vars
<1> QED
  BY <1>5, <1>6, <1>7, <1>8, <1>9, <1>10, <1>11, <1>12, <1>13, <1>14, <1>15, <1>16, <1>17, <1>18
  DEF Next, Library, Processor, Watchdog

(* A client that only listens to the channel is as up to date as one that
   reads the hash, between batches and until something fails, whichever
   watchdogs write between a batch and the second read of it that is
   published (publish_pv_updates_bulk of redis_service.py): the channel
   lacks what a watchdog wrote, and nothing else. *)
THEOREM ChannelFollowsHash ==
  ASSUME OneProtocol
  PROVE  Spec => []PublishedMatchesHash
<1>1. Init => Told /\ DogsInSetup
  BY DEF Init, Told, DogsInSetup, Empty, Actors, Dogs
<1>2. CacheInv /\ Told /\ DogsInSetup /\ [Next]_vars => Told' /\ DogsInSetup'
  BY ToldStep, DogsStep
<1>3. Told => PublishedMatchesHash
  <2>1. PICK p \in Protocols : TRUE
    BY DEF OneProtocol
  <2> QED
    BY <2>1 DEF Told, PublishedMatchesHash, OfWatchdog
<1> QED
  BY <1>1, <1>2, <1>3, CacheInvariant, PTL DEF Spec

-----------------------------------------------------------------------------
(* The monitor alone *)

LEMMA AloneSteps ==
  ASSUME MonitorAlone, Alone, [Next]_vars
  PROVE  AloneNext
<1>1. \A d \in Dogs : at[d] = "idle" /\ d \in Actors
  BY DEF Alone, StarterOnly, Actors
<1>2. setup.dogs = {}
  BY DEF Alone, CacheInv, TypeOK, MonitorAlone
<1>3. ASSUME NEW d \in Dogs, Watchdog(d) PROVE FALSE
  BY <1>1, <1>2, <1>3 DEF Watchdog, StartCheck, StartStale, EndCheck, RestartMonitor, ReadDevice
<1>4. ASSUME NEW a \in Actors, at[a] \in Pending
      PROVE  a = "starter" /\ at[a] \in {"markGet", "markHset", "markSadd"}
  BY <1>1, <1>4 DEF Actors, Pending, Alone, StarterOnly
<1>5. ASSUME NEW a \in Actors, Commands(a)
      PROVE  MarkGet("starter") \/ MarkHset("starter") \/ MarkSadd("starter")
  BY <1>4, <1>5 DEF Commands, ValueHset, ValueSrem, MarkGet, MarkHset, MarkSadd, Pending
<1>6. ASSUME NEW a \in Actors, CommandFails(a)
      PROVE  CommandFails("starter") /\ NextPV("starter")
  <2>1. a = "starter"
    BY <1>4, <1>6 DEF CommandFails, Pending
  <2>2. phase["starter"] = "start"
    BY DEF Alone, StarterOnly
  <2> QED
    BY <1>6, <2>1, <2>2 DEF CommandFails, Raise
<1> QED
  BY <1>3, <1>5, <1>6 DEF Next, AloneNext, Library, Processor

(* The starter goes on. *)
LEMMA StarterGoesOn ==
  ASSUME CacheInv, StarterOnly, NextPV("starter")
  PROVE  /\ StarterOnly' /\ at'["starter"] = "start" /\ on'["starter"] = NoPV
<1>1. /\ DOMAIN at = Actors /\ DOMAIN on = Actors /\ DOMAIN phase = Actors
  BY DEF CacheInv, TypeOK
<1> QED
  BY <1>1 DEF StarterOnly, NextPV, Actors, Dogs

LEMMA StarterStep ==
  ASSUME MonitorAlone, Alone, AloneNext
  PROVE  StarterOnly'
<1> USE DEF redis, pipeline, actors, External
<1>0. /\ CacheInv /\ StarterOnly /\ DOMAIN at = Actors /\ DOMAIN phase = Actors
      /\ "starter" \in Actors /\ "starter" \notin Dogs /\ Dogs \subseteq Actors
  BY DEF Alone, CacheInv, TypeOK, Actors, Dogs
<1>1. UNCHANGED <<at, phase>> => StarterOnly'
  BY <1>0 DEF StarterOnly
<1>2. ASSUME NEW s \in {"markGet", "markHset", "markSadd"}, at' = [at EXCEPT !["starter"] = s], UNCHANGED phase
      PROVE  StarterOnly'
  BY <1>0, <1>2 DEF StarterOnly
<1>3. ASSUME NEW p \in Protocols, NEW pv \in PVs, StartMonitor(p, pv) PROVE StarterOnly'
  BY <1>1, <1>2, <1>3 DEF StartMonitor
<1>4. MarkGet("starter") \/ MarkHset("starter") => StarterOnly'
  BY <1>2 DEF MarkGet, MarkHset
<1>5. MarkSadd("starter") \/ NextPV("starter") => StarterOnly'
  BY <1>0, StarterGoesOn DEF MarkSadd
<1>6. MonitorRestarts => StarterOnly'
  <2> SUFFICES ASSUME MonitorRestarts PROVE StarterOnly'
    OBVIOUS
  <2>1. at["api"] = "idle"
    BY <1>0 DEF StarterOnly, Dogs
  <2>2. /\ \A d \in Dogs : at'[d] = "idle"
        /\ at'["starter"] = "start"
    BY <2>1 DEF MonitorRestarts, Actors, Dogs
  <2>3. phase'["starter"] = "start"
    BY <1>0 DEF MonitorRestarts
  <2> QED
    BY <2>2, <2>3 DEF StarterOnly
<1>7. ASSUME NEW p \in Protocols,
             Collect(p) \/ WriteBatch(p) \/ FetchBatch(p) \/ PublishBatch(p) \/ BatchFails(p)
      PROVE  StarterOnly'
  BY <1>1, <1>7 DEF Collect, WriteBatch, FetchBatch, PublishBatch, BatchFails
<1>8. ASSUME NEW p \in Protocols, NEW pv \in PVs, LinkUp(p, pv) \/ LinkDown(p, pv) \/ LinkLost(p, pv)
      PROVE  StarterOnly'
  BY <1>1, <1>8 DEF LinkUp, LinkDown, LinkLost
<1>9. ASSUME NEW pv \in PVs, DeviceChanges(pv) \/ DeviceFlips(pv) \/ GrowsOld(pv)
      PROVE  StarterOnly'
  BY <1>1, <1>9 DEF DeviceChanges, DeviceFlips, GrowsOld
<1> QED
  BY <1>1, <1>3, <1>4, <1>5, <1>6, <1>7, <1>8, <1>9 DEF AloneNext, vars

(* A delivery adds at the end of the queues it is for, and nothing else. *)
LEMMA Delivered ==
  ASSUME QueueOK, NEW ps, NEW pv \in PVs, NEW e \in Entries, Deliver(ps, pv, e), NEW p \in Protocols
  PROVE  /\ queue[p] \in Seq(Updates)
         /\ IF p \in ps
            THEN /\ Len(queue'[p]) = Len(queue[p]) + 1
                 /\ \A i \in 1..Len(queue[p]) : queue'[p][i] = queue[p][i]
                 /\ queue'[p][Len(queue[p]) + 1] = [pv |-> pv, entry |-> e]
            ELSE queue'[p] = queue[p]
<1>1. queue[p] \in Seq(Updates) /\ [pv |-> pv, entry |-> e] \in Updates
  BY DEF QueueOK, Updates
<1>2. queue'[p] = IF p \in ps THEN Append(queue[p], [pv |-> pv, entry |-> e]) ELSE queue[p]
  BY DEF Deliver
<1> QED
  BY <1>1, <1>2

(* What a batch takes out of the queue. *)
LEMMA Collected ==
  ASSUME QueueOK, BatchOK, NEW p \in Protocols, Collect(p)
  PROVE  \E k \in 1..Len(queue[p]) :
           /\ queue[p] \in Seq(Updates)
           /\ Len(queue'[p]) = Len(queue[p]) - k
           /\ \A i \in 1..(Len(queue[p]) - k) : queue'[p][i] = queue[p][i + k]
           /\ \A pv \in PVs :
                IF \E i \in 1..k : queue[p][i].pv = pv
                THEN \E i \in 1..k : /\ queue[p][i].pv = pv /\ batch'[p][pv] = queue[p][i].entry
                                     /\ \A j \in 1..k : queue[p][j].pv = pv => j <= i
                ELSE batch'[p][pv] = Missing
<1> DEFINE k == Taken(queue[p])
           taken == SubSeq(queue[p], 1, k)
<1>1. queue[p] \in Seq(Updates) /\ queue[p] # <<>>
  BY DEF QueueOK, Collect
<1>2. k \in 1..Len(queue[p])
  BY <1>1, TakenInRange
<1>3. queue'[p] = SubSeq(queue[p], k + 1, Len(queue[p]))
  BY DEF Collect, QueueOK
<1>4. batch'[p] = [pv \in PVs |->
                     IF \E i \in 1..k : taken[i].pv = pv THEN taken[LastFor(taken, pv)].entry ELSE Missing]
  BY DEF Collect, BatchOK
<1> HIDE DEF k
<1>5. /\ Len(queue'[p]) = Len(queue[p]) - k
      /\ \A i \in 1..(Len(queue[p]) - k) : queue'[p][i] = queue[p][i + k]
  <2>1. ASSUME NEW q \in Seq(Updates), NEW m \in 1..Len(q)
        PROVE  /\ Len(SubSeq(q, m + 1, Len(q))) = Len(q) - m
               /\ \A i \in 1..(Len(q) - m) : SubSeq(q, m + 1, Len(q))[i] = q[i + m]
    <3>1. SubSeq(q, m + 1, Len(q)) = [i \in 1..(Len(q) - m) |-> q[i + m]]
      <4>1. (Len(q) - (m + 1)) + 1 = Len(q) - m /\ \A i \in 1..(Len(q) - m) : (i + (m + 1)) - 1 = i + m
        BY <2>1
      <4> QED
        BY <4>1
    <3>2. Len(q) - m \in Nat
      BY <2>1
    <3> QED
      BY <3>1, <3>2
  <2>2. /\ Len(SubSeq(queue[p], k + 1, Len(queue[p]))) = Len(queue[p]) - k
        /\ \A i \in 1..(Len(queue[p]) - k) :
             SubSeq(queue[p], k + 1, Len(queue[p]))[i] = queue[p][i + k]
    BY <1>1, <1>2, <2>1
  <2> QED
    BY <1>3, <2>2
<1>6. taken \in Seq(Updates) /\ Len(taken) = k /\ \A i \in 1..k : taken[i] = queue[p][i]
  <2>1. ASSUME NEW q \in Seq(Updates), NEW m \in 1..Len(q)
        PROVE  /\ SubSeq(q, 1, m) \in Seq(Updates) /\ Len(SubSeq(q, 1, m)) = m
               /\ \A i \in 1..m : SubSeq(q, 1, m)[i] = q[i]
    <3>1. SubSeq(q, 1, m) = [i \in 1..m |-> q[i]]
      BY <2>1
    <3>2. m \in Nat /\ \A i \in 1..m : q[i] \in Updates
      BY <2>1
    <3> QED
      BY <3>1, <3>2
  <2> QED
    BY <1>1, <1>2, <2>1
<1> HIDE DEF taken
<1>7. ASSUME NEW pv \in PVs
      PROVE  IF \E i \in 1..k : queue[p][i].pv = pv
             THEN \E i \in 1..k : /\ queue[p][i].pv = pv /\ batch'[p][pv] = queue[p][i].entry
                                  /\ \A j \in 1..k : queue[p][j].pv = pv => j <= i
             ELSE batch'[p][pv] = Missing
  <2>1. CASE \E i \in 1..k : queue[p][i].pv = pv
    <3> DEFINE i == LastFor(taken, pv)
    <3>1. i \in 1..k /\ taken[i].pv = pv /\ \A j \in 1..k : taken[j].pv = pv => j <= i
      BY <1>6, <2>1, LastForIs
    <3> HIDE DEF i
    <3>2. batch'[p][pv] = taken[i].entry
      BY <1>4, <3>1 DEF i
    <3> QED
      BY <1>6, <2>1, <3>1, <3>2
  <2>2. CASE ~ \E i \in 1..k : queue[p][i].pv = pv
    BY <1>4, <1>6, <2>2
  <2> QED
    BY <2>1, <2>2
<1> QED
  BY <1>1, <1>2, <1>5, <1>7

LEMMA StaysSilent ==
  ASSUME MonitorAlone, Alone, AloneNext, ~MonitorRestarts, NEW p \in Protocols, NEW pv \in PVs, Silent(p, pv),
         ~(StartMonitor(p, pv) /\ link'[p][pv] = "search")
  PROVE  Silent(p, pv)'
<1> USE DEF redis, pipeline, actors, External
<1>0. LinkOK /\ QueueOK /\ BatchOK /\ DeviceOK /\ queue[p] \in Seq(Updates)
  BY CacheParts DEF Alone, QueueOK
<1>1. ASSUME link'[p][pv] = link[p][pv], UNCHANGED <<batch, queue>> PROVE Silent(p, pv)'
  BY <1>1 DEF Silent
<1>2. ASSUME NEW ps, NEW pv2 \in PVs, NEW e \in Entries, Deliver(ps, pv2, e), p \in ps => pv2 # pv,
             link'[p][pv] = link[p][pv]
      PROVE  Silent(p, pv)'
  <2>1. \A i \in 1..Len(queue'[p]) : queue'[p][i].pv # pv
    <3>1. /\ Len(queue[p]) \in Nat /\ \A i \in 1..Len(queue[p]) : queue[p][i].pv # pv
      BY <1>0 DEF Silent
    <3>2. CASE p \in ps
      <4>0. QueueOK /\ Deliver(ps, pv2, e)
        BY <1>0, <1>2
      <4>1. /\ Len(queue'[p]) = Len(queue[p]) + 1
            /\ \A i \in 1..Len(queue[p]) : queue'[p][i] = queue[p][i]
            /\ queue'[p][Len(queue[p]) + 1] = [pv |-> pv2, entry |-> e]
        <5>1. queue[p] \in Seq(Updates) /\ [pv |-> pv2, entry |-> e] \in Updates
          BY <1>0 DEF Updates
        <5>2. queue'[p] = Append(queue[p], [pv |-> pv2, entry |-> e])
          BY <3>2, <4>0 DEF Deliver
        <5> QED
          BY <5>1, <5>2
      <4>2. \A i \in 1..Len(queue'[p]) : i \in 1..Len(queue[p]) \/ i = Len(queue[p]) + 1
        BY <3>1, <4>1
      <4>3. \A i \in 1..Len(queue[p]) : queue'[p][i].pv # pv
        BY <3>1, <4>1
      <4>4. queue'[p][Len(queue[p]) + 1].pv # pv
        BY <1>2, <3>2, <4>1
      <4> QED
        BY <4>2, <4>3, <4>4
    <3>3. CASE p \notin ps
      <4>1. queue'[p] = queue[p]
        BY <1>0, <1>2, <3>3, Delivered
      <4> QED
        BY <3>1, <4>1
    <3> QED
      BY <3>2, <3>3
  <2> QED
    BY <1>2, <2>1 DEF Silent, Deliver
<1>3. ASSUME NEW p2 \in Protocols, NEW pv2 \in PVs, LinkUp(p2, pv2) \/ LinkDown(p2, pv2) PROVE Silent(p, pv)'
  <2>1. link[p2][pv2] # "none" /\ link[p][pv] = "none"
    BY <1>3 DEF LinkUp, LinkDown, Silent
  <2>2. link'[p][pv] = link[p][pv] /\ (p = p2 => pv # pv2)
    BY <1>0, <1>3, <2>1 DEF LinkUp, LinkDown, LinkOK
  <2>3. \E e \in Entries : Deliver({p2}, pv2, e)
    BY <1>0, <1>3, ReadingTyped, EntriesTyped DEF LinkUp, LinkDown
  <2> QED
    BY <1>2, <2>2, <2>3
<1>4. ASSUME NEW p2 \in Protocols, NEW pv2 \in PVs, LinkLost(p2, pv2) PROVE Silent(p, pv)'
  <2>1. link[p2][pv2] # "none" /\ link[p][pv] = "none"
    BY <1>4 DEF LinkLost, Silent
  <2> QED
    BY <1>0, <1>1, <1>4, <2>1 DEF LinkLost, LinkOK
<1>5. ASSUME NEW p2 \in Protocols, NEW pv2 \in PVs, StartMonitor(p2, pv2) PROVE Silent(p, pv)'
  <2>1. link'[p][pv] = link[p][pv]
    BY <1>0, <1>5 DEF StartMonitor, LinkOK
  <2> QED
    BY <1>1, <1>5, <2>1 DEF StartMonitor
<1>6. ASSUME NEW pv2 \in PVs, DeviceChanges(pv2) PROVE Silent(p, pv)'
  <2>1. [val |-> device[pv2].val + 1, conn |-> TRUE] \in Entries
    <3>1. device[pv2] \in [val : 1..MaxVal, up : BOOLEAN] /\ device[pv2].val < setup.values
      BY <1>0, <1>6 DEF DeviceOK, DeviceChanges
    <3>2. setup.values \in 1..MaxVal
      BY DEF Alone, CacheInv, TypeOK
    <3> QED
      BY <3>1, <3>2 DEF Entries
  <2>2. p \in {q \in Protocols : link[q][pv2] = "conn"} => pv2 # pv
    BY DEF Silent
  <2> QED
    BY <1>2, <1>6, <2>1, <2>2 DEF DeviceChanges
<1>7. ASSUME NEW pv2 \in PVs, DeviceFlips(pv2) \/ GrowsOld(pv2) PROVE Silent(p, pv)'
  BY <1>1, <1>7 DEF DeviceFlips, GrowsOld
<1>8. ASSUME NEW p2 \in Protocols, Collect(p2) PROVE Silent(p, pv)'
  <2>1. p2 = p
    BY DEF MonitorAlone
  <2>2. PICK k \in 1..Len(queue[p]) :
           /\ Len(queue'[p]) = Len(queue[p]) - k
           /\ \A i \in 1..(Len(queue[p]) - k) : queue'[p][i] = queue[p][i + k]
           /\ (\E i \in 1..k : queue[p][i].pv = pv) \/ batch'[p][pv] = Missing
    BY <1>0, <1>8, <2>1, Collected
  <2>3. /\ Len(queue[p]) \in Nat /\ \A i \in 1..Len(queue[p]) : queue[p][i].pv # pv
    BY <1>0 DEF Silent
  <2>4. batch'[p][pv] = Missing
    <3>1. \A i \in 1..k : i \in 1..Len(queue[p])
      BY <2>3
    <3> QED
      BY <2>2, <2>3, <3>1
  <2>5. \A i \in 1..Len(queue'[p]) : queue'[p][i].pv # pv
    <3>1. \A i \in 1..(Len(queue[p]) - k) : i + k \in 1..Len(queue[p])
      BY <2>3
    <3> QED
      BY <2>2, <2>3, <3>1
  <2> QED
    BY <1>8, <2>4, <2>5 DEF Silent, Collect
<1>9. ASSUME NEW p2 \in Protocols, WriteBatch(p2) \/ FetchBatch(p2) PROVE Silent(p, pv)'
  BY <1>1, <1>9 DEF WriteBatch, FetchBatch
<1>10. ASSUME NEW p2 \in Protocols, PublishBatch(p2) \/ BatchFails(p2) PROVE Silent(p, pv)'
  <2>1. batch'[p][pv] = Missing
    BY <1>0, <1>10 DEF PublishBatch, BatchFails, Silent, Empty, BatchOK
  <2> QED
    BY <1>10, <2>1 DEF PublishBatch, BatchFails, Silent
<1>11. ASSUME MarkGet("starter") \/ MarkHset("starter") \/ MarkSadd("starter") \/ CommandFails("starter")
       PROVE  Silent(p, pv)'
  BY <1>1, <1>11 DEF MarkGet, MarkHset, MarkSadd, CommandFails
<1>12. UNCHANGED vars => Silent(p, pv)'
  BY <1>1 DEF vars
<1> QED
  BY <1>3, <1>4, <1>5, <1>6, <1>7, <1>8, <1>9, <1>10, <1>11, <1>12 DEF AloneNext

LEMMA UnstartedStep ==
  ASSUME MonitorAlone, Alone, AloneNext
  PROVE  Unstarted'
<1> USE DEF redis, pipeline, actors, External
<1>0. /\ CacheInv /\ StarterOnly /\ Unstarted /\ DOMAIN at = Actors /\ DOMAIN on = Actors
      /\ "starter" \in Actors
  BY DEF Alone, CacheInv, TypeOK, Actors
<1> SUFFICES ASSUME NEW p \in Protocols, NEW pv \in PVs,
                    <<p, pv>> \in starting' \/ (at'["starter"] # "start" /\ on'["starter"] = pv)
             PROVE  Silent(p, pv)'
  BY DEF Unstarted
<1>1. CASE MonitorRestarts
  <2>1. link'[p][pv] = "none" /\ batch'[p][pv] = Missing /\ queue'[p] = <<>>
    BY <1>1 DEF MonitorRestarts, Empty
  <2> QED
    BY <2>1 DEF Silent
<1>2. CASE ~MonitorRestarts
  <2>1. <<p, pv>> \in starting \/ (at["starter"] # "start" /\ on["starter"] = pv)
    <3>1. ASSUME NEW p2 \in Protocols, NEW pv2 \in PVs, StartMonitor(p2, pv2)
          PROVE  <<p, pv>> \in starting
      <4>1. p2 = p
        BY DEF MonitorAlone
      <4>2. <<p, pv>> \in starting' => <<p, pv>> \in starting
        BY <3>1 DEF StartMonitor
      <4>3. at'["starter"] # "start" => on'["starter"] = pv2
        BY <1>0, <3>1 DEF StartMonitor
      <4> QED
        BY <3>1, <4>1, <4>2, <4>3 DEF StartMonitor
    <3>2. ASSUME MarkGet("starter") \/ MarkHset("starter")
          PROVE  UNCHANGED <<starting, on>> /\ at["starter"] # "start"
      BY <3>2 DEF MarkGet, MarkHset
    <3>3. ASSUME MarkSadd("starter") \/ (CommandFails("starter") /\ NextPV("starter"))
          PROVE  at'["starter"] = "start" /\ UNCHANGED starting
      BY <1>0, <3>3, StarterGoesOn DEF MarkSadd, CommandFails
    <3>4. ASSUME NEW p2 \in Protocols,
                 Collect(p2) \/ WriteBatch(p2) \/ FetchBatch(p2) \/ PublishBatch(p2) \/ BatchFails(p2)
          PROVE  UNCHANGED <<starting, at, on>>
      BY <3>4 DEF Collect, WriteBatch, FetchBatch, PublishBatch, BatchFails
    <3>5. ASSUME NEW p2 \in Protocols, NEW pv2 \in PVs, LinkUp(p2, pv2) \/ LinkDown(p2, pv2) \/ LinkLost(p2, pv2)
          PROVE  UNCHANGED <<starting, at, on>>
      BY <3>5 DEF LinkUp, LinkDown, LinkLost
    <3>6. ASSUME NEW pv2 \in PVs, DeviceChanges(pv2) \/ DeviceFlips(pv2) \/ GrowsOld(pv2)
          PROVE  UNCHANGED <<starting, at, on>>
      BY <3>6 DEF DeviceChanges, DeviceFlips, GrowsOld
    <3>7. UNCHANGED vars => UNCHANGED <<starting, at, on>>
      BY DEF vars
    <3> QED
      BY <1>2, <3>1, <3>2, <3>3, <3>4, <3>5, <3>6, <3>7 DEF AloneNext
  <2>2. Silent(p, pv)
    BY <1>0, <2>1 DEF Unstarted
  <2>3. ~(StartMonitor(p, pv) /\ link'[p][pv] = "search")
    <3> SUFFICES ASSUME StartMonitor(p, pv), link'[p][pv] = "search" PROVE FALSE
      OBVIOUS
    <3>1. UNCHANGED at /\ at["starter"] = "start" /\ <<p, pv>> \notin starting'
      BY <2>2 DEF StartMonitor, Silent
    <3> QED
      BY <3>1
  <2> QED
    BY <1>2, <2>2, <2>3, StaysSilent
<1> QED
  BY <1>1, <1>2

LEMMA AloneInvariant ==
  ASSUME MonitorAlone
  PROVE  Spec => []Alone
<1>1. Init => Alone
  <2> SUFFICES ASSUME Init PROVE Alone
    OBVIOUS
  <2>1. StarterOnly
    BY DEF Init, StarterOnly, Actors, Dogs
  <2>2. Unstarted
    BY DEF Init, Unstarted, Silent, Empty
  <2> QED
    BY <2>1, <2>2, CacheInit DEF Alone
<1>2. Alone /\ [Next]_vars => Alone'
  BY AloneSteps, CacheStep, StarterStep, UnstartedStep DEF Alone
<1> QED
  BY <1>1, <1>2, PTL DEF Spec

(* Steps that leave the hash, its set and the starter alone. *)
LEMMA ElsewhereSteps ==
  ASSUME AloneNext
  PROVE  \/ UNCHANGED <<hash, disc, torn, at, on, got>>
         \/ \E p \in Protocols : WriteBatch(p)
         \/ \E p \in Protocols, pv \in PVs : StartMonitor(p, pv)
         \/ MarkGet("starter") \/ MarkHset("starter") \/ MarkSadd("starter")
         \/ CommandFails("starter") /\ NextPV("starter")
         \/ MonitorRestarts
<1> USE DEF redis, pipeline, actors, External
<1>1. ASSUME NEW p \in Protocols, Collect(p) \/ FetchBatch(p) \/ PublishBatch(p) \/ BatchFails(p)
      PROVE  UNCHANGED <<hash, disc, torn, at, on, got>>
  BY <1>1 DEF Collect, FetchBatch, PublishBatch, BatchFails
<1>2. ASSUME NEW p \in Protocols, NEW pv \in PVs, LinkUp(p, pv) \/ LinkDown(p, pv) \/ LinkLost(p, pv)
      PROVE  UNCHANGED <<hash, disc, torn, at, on, got>>
  BY <1>2 DEF LinkUp, LinkDown, LinkLost
<1>3. ASSUME NEW pv \in PVs, DeviceChanges(pv) \/ DeviceFlips(pv) \/ GrowsOld(pv)
      PROVE  UNCHANGED <<hash, disc, torn, at, on, got>>
  BY <1>3 DEF DeviceChanges, DeviceFlips, GrowsOld
<1>4. UNCHANGED vars => UNCHANGED <<hash, disc, torn, at, on, got>>
  BY DEF vars
<1> QED
  BY <1>1, <1>2, <1>3, <1>4 DEF AloneNext

-----------------------------------------------------------------------------
(* The order of values *)

LEMMA ValuesTyped ==
  ASSUME CacheInv, NEW p \in Protocols, NEW pv \in PVs
  PROVE  /\ device[pv].val \in Int /\ device[pv].val >= 1
         /\ hash[pv].val \in Int /\ hash[pv].val >= -1 /\ batch[p][pv].val \in Int
         /\ hash[pv].val <= 0 \/ hash[pv] # Missing
         /\ Len(queue[p]) \in Nat
         /\ \A i \in 1..Len(queue[p]) : queue[p][i].entry.val \in Int /\ queue[p][i].entry.val >= 0
<1>0. DeviceOK /\ BatchOK /\ RedisOK /\ QueueOK /\ MaxVal \in Nat
  BY CacheParts
<1>1. \A e \in Cached : e.val \in Int /\ e.val >= -1 /\ (e.val <= 0 \/ e # Missing)
  BY <1>0 DEF Cached, Entries, Missing
<1>2. device[pv].val \in 1..MaxVal /\ hash[pv] \in Cached /\ batch[p][pv] \in Cached
  BY <1>0 DEF DeviceOK, RedisOK, BatchOK
<1>3. queue[p] \in Seq(Updates)
  BY <1>0 DEF QueueOK
<1>4. \A i \in 1..Len(queue[p]) : queue[p][i].entry \in Entries
  <2>1. \A i \in 1..Len(queue[p]) : queue[p][i] \in Updates
    BY <1>3
  <2> QED
    BY <2>1 DEF Updates
<1>5. \A e \in Entries : e.val \in Int /\ e.val >= 0
  BY DEF Entries
<1> QED
  BY <1>1, <1>2, <1>3, <1>4, <1>5

(* Steps that leave what Ordered relates alone, but for a later device. *)
LEMMA OrderedStays ==
  ASSUME CacheInv, NEW p \in Protocols, NEW pv \in PVs, Ordered(p, pv),
         hash'[pv] = hash[pv], batch'[p][pv] = batch[p][pv], queue'[p] = queue[p],
         device'[pv].val = device[pv].val \/ device'[pv].val = device[pv].val + 1
  PROVE  Ordered(p, pv)'
<1>0. device[pv].val \in Int
  BY ValuesTyped
<1>1. device[pv].val \in Int /\ device[pv].val <= device'[pv].val
  BY <1>0
<1>2. /\ hash[pv].val \in Int /\ batch[p][pv].val \in Int
      /\ \A i \in 1..Len(queue[p]) : queue[p][i].entry.val \in Int
  BY ValuesTyped
<1>3. device'[pv].val \in Int
  BY <1>1
<1>4. \A v \in Int : v <= device[pv].val => v <= device'[pv].val
  BY <1>1, <1>3
<1> QED
  BY <1>2, <1>4 DEF Ordered

(* The order of integers is transitive. *)
LEMMA AtMost == \A a \in Int, b \in Int, c \in Int : a <= b /\ b <= c => a <= c
OBVIOUS

(* An update joins the queue. *)
LEMMA OrderedJoins ==
  ASSUME CacheInv, NEW p \in Protocols, NEW pv \in PVs, Ordered(p, pv), NEW pv2 \in PVs, NEW e \in Entries,
         Deliver({p}, pv2, e), hash'[pv] = hash[pv],
         e.val = 0 \/ e.val = device'[pv2].val,
         device'[pv].val = device[pv].val \/ device'[pv].val = device[pv].val + 1
  PROVE  Ordered(p, pv)'
<1> DEFINE n == Len(queue[p])
<1>1. /\ n \in Nat /\ Len(queue'[p]) = n + 1
      /\ \A i \in 1..n : queue'[p][i] = queue[p][i]
      /\ queue'[p][n + 1] = [pv |-> pv2, entry |-> e]
  <2>1. QueueOK
    BY CacheParts
  <2>2. n \in Nat
    BY ValuesTyped
  <2>3. /\ Len(queue'[p]) = Len(queue[p]) + 1
        /\ \A i \in 1..Len(queue[p]) : queue'[p][i] = queue[p][i]
        /\ queue'[p][Len(queue[p]) + 1] = [pv |-> pv2, entry |-> e]
    <3>1. queue[p] \in Seq(Updates) /\ [pv |-> pv2, entry |-> e] \in Updates
      BY <2>1 DEF QueueOK, Updates
    <3>2. queue'[p] = Append(queue[p], [pv |-> pv2, entry |-> e])
      BY DEF Deliver
    <3> QED
      BY <3>1, <3>2
  <2> QED
    BY <2>2, <2>3
<1>2. batch'[p][pv] = batch[p][pv]
  BY DEF Deliver
<1>3. /\ device[pv].val \in Int /\ device[pv].val >= 1 /\ hash[pv].val \in Int /\ batch[p][pv].val \in Int
      /\ \A i \in 1..n : queue[p][i].entry.val \in Int /\ queue[p][i].entry.val >= 0
  BY ValuesTyped
<1>4. /\ hash[pv].val <= device[pv].val /\ batch[p][pv].val <= device[pv].val
      /\ batch[p][pv].val > 0 => hash[pv].val <= batch[p][pv].val
  BY DEF Ordered
<1>5. \A i \in 1..n : queue[p][i].pv = pv /\ queue[p][i].entry.val > 0 =>
        /\ hash[pv].val <= queue[p][i].entry.val /\ batch[p][pv].val <= queue[p][i].entry.val
        /\ queue[p][i].entry.val <= device[pv].val
        /\ \A j \in 1..n : j < i /\ queue[p][j].pv = pv => queue[p][j].entry.val <= queue[p][i].entry.val
  BY DEF Ordered
<1>6. ASSUME NEW i \in 1..Len(queue'[p]), queue'[p][i].pv = pv, queue'[p][i].entry.val > 0
      PROVE  /\ hash'[pv].val <= queue'[p][i].entry.val /\ batch'[p][pv].val <= queue'[p][i].entry.val
             /\ queue'[p][i].entry.val <= device'[pv].val
             /\ \A j \in 1..Len(queue'[p]) : j < i /\ queue'[p][j].pv = pv =>
                  queue'[p][j].entry.val <= queue'[p][i].entry.val
  <2> HIDE DEF n
  <2>1. CASE i \in 1..n
    <3>1. \A j \in 1..Len(queue'[p]) : j < i => j \in 1..n
      BY <1>1, <2>1
    <3>2. queue'[p][i] = queue[p][i]
      BY <1>1, <2>1
    <3>3. /\ hash[pv].val <= queue[p][i].entry.val /\ batch[p][pv].val <= queue[p][i].entry.val
          /\ queue[p][i].entry.val <= device[pv].val
          /\ \A j \in 1..n : j < i /\ queue[p][j].pv = pv => queue[p][j].entry.val <= queue[p][i].entry.val
      BY <1>5, <1>6, <2>1, <3>2
    <3>4. \A j \in 1..Len(queue'[p]) : j < i /\ queue'[p][j].pv = pv =>
            queue'[p][j].entry.val <= queue'[p][i].entry.val
      BY <1>1, <3>1, <3>2, <3>3
    <3>5. queue[p][i].entry.val <= device'[pv].val
      BY <1>3, <2>1, <3>3
    <3> QED
      BY <1>2, <3>2, <3>3, <3>4, <3>5
  <2>2. CASE i = n + 1
    <3>1. pv2 = pv /\ queue'[p][i].entry = e /\ e.val = device'[pv].val
      BY <1>1, <1>6, <2>2
    <3>2. device'[pv].val >= device[pv].val /\ device'[pv].val \in Int
      BY <1>3
    <3>3. \A j \in 1..n : queue[p][j].pv = pv => queue[p][j].entry.val <= device[pv].val
      BY <1>3, <1>5
    <3>4. \A j \in 1..Len(queue'[p]) : j < i => j \in 1..n /\ queue'[p][j] = queue[p][j]
      <4>1. \A j \in 1..Len(queue'[p]) : j < i => j \in 1..n
        BY <1>1, <2>2
      <4> QED
        BY <1>1, <4>1
    <3>5. \A j \in 1..n : queue[p][j].pv = pv => queue[p][j].entry.val <= device'[pv].val
      BY <1>3, <3>2, <3>3
    <3>6. hash[pv].val <= device'[pv].val /\ batch[p][pv].val <= device'[pv].val
      <4>1. /\ device[pv].val \in Int /\ hash[pv].val \in Int /\ batch[p][pv].val \in Int
            /\ hash[pv].val <= device[pv].val /\ batch[p][pv].val <= device[pv].val
        BY <1>3, <1>4
      <4> QED
        BY <3>2, <4>1, AtMost
    <3> QED
      BY <1>2, <3>1, <3>2, <3>4, <3>5, <3>6
  <2>3. i \in 1..n \/ i = n + 1
    BY <1>1
  <2> QED
    BY <2>1, <2>2, <2>3
<1>7. /\ hash'[pv].val <= device'[pv].val /\ batch'[p][pv].val <= device'[pv].val
      /\ batch'[p][pv].val > 0 => hash'[pv].val <= batch'[p][pv].val
  BY <1>2, <1>3, <1>4
<1> HIDE DEF n
<1> QED
  BY <1>6, <1>7 DEF Ordered

(* A batch is taken from the queue. *)
LEMMA OrderedCollects ==
  ASSUME CacheInv, NEW p \in Protocols, NEW pv \in PVs, Ordered(p, pv), Collect(p)
  PROVE  Ordered(p, pv)'
<1> DEFINE n == Len(queue[p])
<1>1. PICK k \in 1..n :
        /\ Len(queue'[p]) = n - k
        /\ \A i \in 1..(n - k) : queue'[p][i] = queue[p][i + k]
        /\ IF \E i \in 1..k : queue[p][i].pv = pv
           THEN \E i \in 1..k : /\ queue[p][i].pv = pv /\ batch'[p][pv] = queue[p][i].entry
                                /\ \A j \in 1..k : queue[p][j].pv = pv => j <= i
           ELSE batch'[p][pv] = Missing
  BY CacheParts, Collected
<1>2. UNCHANGED <<device, hash>>
  BY DEF Collect, redis
<1>3. /\ device[pv].val \in Int /\ device[pv].val >= 1 /\ hash[pv].val \in Int /\ n \in Nat
      /\ \A i \in 1..n : queue[p][i].entry.val \in Int /\ queue[p][i].entry.val >= 0
  BY ValuesTyped
<1>4. hash[pv].val <= device[pv].val
  BY DEF Ordered
<1>5. \A i \in 1..n : queue[p][i].pv = pv /\ queue[p][i].entry.val > 0 =>
        /\ hash[pv].val <= queue[p][i].entry.val /\ queue[p][i].entry.val <= device[pv].val
        /\ \A j \in 1..n : j < i /\ queue[p][j].pv = pv => queue[p][j].entry.val <= queue[p][i].entry.val
  BY DEF Ordered
<1> HIDE DEF n
<1>6. /\ batch'[p][pv].val <= device[pv].val
      /\ batch'[p][pv].val > 0 => hash[pv].val <= batch'[p][pv].val
      /\ \A i \in (k + 1)..n : queue[p][i].pv = pv /\ queue[p][i].entry.val > 0 =>
           batch'[p][pv].val <= queue[p][i].entry.val
  <2>1. CASE \E i \in 1..k : queue[p][i].pv = pv
    <3>1. PICK i \in 1..k : queue[p][i].pv = pv /\ batch'[p][pv] = queue[p][i].entry
      BY <1>1, <2>1
    <3>2. i \in 1..n /\ \A j \in (k + 1)..n : i < j /\ j \in 1..n
      BY <1>3
    <3> QED
      BY <1>3, <1>5, <3>1, <3>2
  <2>2. CASE ~ \E i \in 1..k : queue[p][i].pv = pv
    <3>1. batch'[p][pv].val = -1
      BY <1>1, <2>2 DEF Missing
    <3>2. \A i \in (k + 1)..n : queue[p][i].entry.val \in Int /\ queue[p][i].entry.val >= 0
      BY <1>3
    <3> QED
      BY <1>3, <3>1, <3>2
  <2> QED
    BY <2>1, <2>2
<1>7. ASSUME NEW i \in 1..Len(queue'[p]), queue'[p][i].pv = pv, queue'[p][i].entry.val > 0
      PROVE  /\ hash[pv].val <= queue'[p][i].entry.val /\ batch'[p][pv].val <= queue'[p][i].entry.val
             /\ queue'[p][i].entry.val <= device[pv].val
             /\ \A j \in 1..Len(queue'[p]) : j < i /\ queue'[p][j].pv = pv =>
                  queue'[p][j].entry.val <= queue'[p][i].entry.val
  <2>1. i + k \in 1..n /\ i + k \in (k + 1)..n /\ queue'[p][i] = queue[p][i + k]
    BY <1>1, <1>3
  <2>2. \A j \in 1..Len(queue'[p]) : /\ j + k \in 1..n /\ queue'[p][j] = queue[p][j + k]
                                    /\ (j < i => j + k < i + k)
    BY <1>1, <1>3
  <2> QED
    BY <1>5, <1>6, <1>7, <2>1, <2>2
<1> QED
  BY <1>2, <1>4, <1>6, <1>7 DEF Ordered

LEMMA OrderedStep ==
  ASSUME MonitorAlone, Alone, Fresh, AloneNext, InOrder, NEW p \in Protocols, NEW pv \in PVs
  PROVE  Ordered(p, pv)'
<1> USE DEF redis, pipeline, actors, External
<1>0. /\ CacheInv /\ Ordered(p, pv) /\ DeviceOK /\ BatchOK /\ RedisOK
      /\ \A q \in Protocols : q = p
  BY CacheParts DEF Alone, InOrder, MonitorAlone
<1>1. ASSUME UNCHANGED <<hash, batch, queue>>, device'[pv].val = device[pv].val PROVE Ordered(p, pv)'
  BY <1>0, <1>1, OrderedStays
<1>2. ASSUME NEW pv2 \in PVs, LinkUp(p, pv2) \/ LinkDown(p, pv2) PROVE Ordered(p, pv)'
  <2>1. Reading(pv2) \in Entries /\ Lost \in Entries /\ Reading(pv2).val = device[pv2].val /\ Lost.val = 0
    BY <1>0, ReadingTyped, EntriesTyped DEF Reading, Lost
  <2>2. UNCHANGED <<hash, device>>
    BY <1>2 DEF LinkUp, LinkDown
  <2>3. \E e \in Entries : Deliver({p}, pv2, e) /\ (e.val = 0 \/ e.val = device'[pv2].val)
    BY <1>2, <2>1, <2>2 DEF LinkUp, LinkDown
  <2> QED
    BY <1>0, <2>2, <2>3, OrderedJoins
<1>3. ASSUME NEW pv2 \in PVs, DeviceChanges(pv2) PROVE Ordered(p, pv)'
  <2>0. [val |-> device[pv2].val + 1, conn |-> TRUE] \in Entries
    <3>1. device[pv2] \in [val : 1..MaxVal, up : BOOLEAN] /\ device[pv2].val < setup.values
      BY <1>0, <1>3 DEF DeviceOK, DeviceChanges
    <3>2. setup.values \in 1..MaxVal
      BY <1>0 DEF CacheInv, TypeOK
    <3> QED
      BY <3>1, <3>2 DEF Entries
  <2>1. hash' = hash /\ device'[pv2].val = device[pv2].val + 1
    BY <1>0, <1>3 DEF DeviceChanges, DeviceOK
  <2>2. device'[pv].val = device[pv].val \/ device'[pv].val = device[pv].val + 1
    BY <1>0, <1>3 DEF DeviceChanges, DeviceOK
  <2>3. CASE link[p][pv2] = "conn"
    <3>1. {q \in Protocols : link[q][pv2] = "conn"} = {p}
      BY <1>0, <2>3
    <3>2. Deliver({p}, pv2, [val |-> device[pv2].val + 1, conn |-> TRUE])
      BY <1>3, <3>1 DEF DeviceChanges
    <3> DEFINE e == [val |-> device[pv2].val + 1, conn |-> TRUE]
    <3>3. e \in Entries /\ e.val = device'[pv2].val /\ Deliver({p}, pv2, e)
      BY <2>0, <2>1, <3>2
    <3> HIDE DEF e
    <3> QED
      BY <1>0, <2>1, <2>2, <3>3, OrderedJoins
  <2>4. CASE link[p][pv2] # "conn"
    <3>1. queue'[p] = queue[p] /\ batch' = batch
      BY <1>3, <2>4 DEF DeviceChanges, Deliver
    <3> QED
      BY <1>0, <2>1, <2>2, <3>1, OrderedStays
  <2> QED
    BY <2>3, <2>4
<1>4. ASSUME NEW pv2 \in PVs, DeviceFlips(pv2) PROVE Ordered(p, pv)'
  <2>1. device'[pv].val = device[pv].val
    BY <1>0, <1>4 DEF DeviceFlips, DeviceOK
  <2> QED
    BY <1>1, <1>4, <2>1 DEF DeviceFlips
<1>5. ASSUME WriteBatch(p) PROVE Ordered(p, pv)'
  <2>1. UNCHANGED <<device, queue, batch>> /\ (hash'[pv] = hash[pv] \/ (batch[p][pv] # Missing /\ hash'[pv] = batch[p][pv]))
    BY <1>5 DEF WriteBatch, InBatch
  <2>2. CASE hash'[pv] = hash[pv]
    BY <1>0, <2>1, <2>2, OrderedStays
  <2>3. CASE hash'[pv] = batch[p][pv]
    BY <1>0, <2>1, <2>3, ValuesTyped DEF Ordered
  <2> QED
    BY <2>1, <2>2, <2>3
<1>6. ASSUME PublishBatch(p) \/ BatchFails(p) PROVE Ordered(p, pv)'
  <2>1. UNCHANGED <<device, queue, hash>> /\ batch'[p][pv].val = -1
    BY <1>0, <1>6 DEF PublishBatch, BatchFails, BatchOK, Empty, Missing
  <2>2. /\ device[pv].val \in Int /\ device[pv].val >= 1
        /\ \A i \in 1..Len(queue[p]) : queue[p][i].entry.val \in Int
    BY <1>0, ValuesTyped
  <2>3. /\ batch'[p][pv].val <= device'[pv].val /\ ~(batch'[p][pv].val > 0)
        /\ \A i \in 1..Len(queue[p]) : queue[p][i].entry.val > 0 => batch'[p][pv].val <= queue[p][i].entry.val
    BY <2>1, <2>2
  <2> QED
    BY <1>0, <2>1, <2>3 DEF Ordered
<1>7. ASSUME MarkHset("starter") PROVE Ordered(p, pv)'
  <2>1. /\ UNCHANGED <<device, queue, batch>> /\ at["starter"] = "markHset" /\ on["starter"] \in PVs
        /\ got["starter"] = hash[on["starter"]]
    BY <1>0, <1>7 DEF MarkHset, Fresh, CacheInv, OnIsPV, Actors
  <2>2. CASE pv # on["starter"]
    <3>1. hash'[pv] = hash[pv]
      BY <1>0, <1>7, <2>1, <2>2 DEF MarkHset, RedisOK
    <3> QED
      BY <1>0, <2>1, <3>1, OrderedStays
  <2>3. CASE pv = on["starter"]
    <3>0. Silent(p, pv)
      BY <2>1, <2>3 DEF Alone, Unstarted
    <3>1. batch[p][pv] = Missing /\ \A i \in 1..Len(queue[p]) : queue[p][i].pv # pv
      BY <3>0 DEF Silent
    <3>2. hash'[pv].val = 0 \/ hash'[pv].val = hash[pv].val
      <4>1. hash'[pv] = IF got["starter"] = Missing THEN Lost ELSE [got["starter"] EXCEPT !.conn = FALSE]
        BY <1>0, <1>7, <2>1, <2>3 DEF MarkHset, RedisOK
      <4>2. hash[pv] # Missing => hash[pv] \in [val : 0..MaxVal, conn : BOOLEAN]
        BY <1>0 DEF RedisOK, Cached, Entries
      <4> QED
        BY <2>1, <2>3, <4>1, <4>2 DEF Lost
    <3> QED
      BY <1>0, <2>1, <3>1, <3>2, ValuesTyped DEF Ordered, Missing
  <2> QED
    BY <2>2, <2>3
<1>8. ASSUME MonitorRestarts PROVE Ordered(p, pv)'
  <2>1. UNCHANGED <<device, hash>> /\ batch'[p][pv].val = -1 /\ queue'[p] = <<>>
    BY <1>8 DEF MonitorRestarts, Empty, Missing
  <2>2. Len(queue'[p]) = 0
    BY <2>1
  <2>3. device[pv].val \in Int /\ device[pv].val >= 1 /\ hash[pv].val \in Int
    BY <1>0, ValuesTyped
  <2>4. hash[pv].val <= device[pv].val
    <3>1. Ordered(p, pv)
      BY <1>0
    <3> QED
      BY ONLY <3>1 DEF Ordered
  <2> QED
    BY <2>1, <2>2, <2>3, <2>4 DEF Ordered
<1>9. ASSUME NEW pv2 \in PVs, GrowsOld(pv2) \/ LinkLost(p, pv2) \/ StartMonitor(p, pv2) PROVE Ordered(p, pv)'
  BY <1>1, <1>9 DEF GrowsOld, LinkLost, StartMonitor
<1>10. ASSUME FetchBatch(p) \/ MarkGet("starter") \/ MarkSadd("starter") \/ CommandFails("starter")
       PROVE  Ordered(p, pv)'
  BY <1>1, <1>10 DEF FetchBatch, MarkGet, MarkSadd, CommandFails
<1>11. Collect(p) => Ordered(p, pv)'
  BY <1>0, OrderedCollects
<1>12. UNCHANGED vars => Ordered(p, pv)'
  BY <1>1 DEF vars
<1> QED
  BY <1>0, <1>2, <1>3, <1>4, <1>5, <1>6, <1>7, <1>8, <1>9, <1>10, <1>11, <1>12 DEF AloneNext

LEMMA FreshStep ==
  ASSUME MonitorAlone, Alone, AloneNext, Fresh
  PROVE  Fresh'
<1> USE DEF redis, pipeline, actors, External
<1>0. /\ CacheInv /\ StarterOnly /\ Unstarted /\ OnIsPV
      /\ DOMAIN at = Actors /\ DOMAIN on = Actors /\ DOMAIN got = Actors /\ "starter" \in Actors
  BY DEF Alone, CacheInv, TypeOK, Actors
<1>1. UNCHANGED <<hash, disc, torn, at, on, got>> => Fresh'
  BY DEF Fresh
<1>2. ASSUME NEW p \in Protocols, WriteBatch(p) PROVE Fresh'
  <2> SUFFICES ASSUME at["starter"] = "markHset" PROVE hash'[on["starter"]] = hash[on["starter"]]
    BY <1>2 DEF WriteBatch, Fresh
  <2>1. on["starter"] \in PVs
    BY <1>0 DEF OnIsPV
  <2>2. batch[p][on["starter"]] = Missing
    BY <1>0, <2>1 DEF Unstarted, Silent
  <2> QED
    BY <1>2, <2>1, <2>2 DEF WriteBatch, InBatch
<1>3. ASSUME NEW p \in Protocols, NEW pv \in PVs, StartMonitor(p, pv) PROVE Fresh'
  <2>1. at'["starter"] \in {"start", "markGet"}
    BY <1>0, <1>3 DEF StartMonitor
  <2> QED
    BY <2>1 DEF Fresh
<1>4. ASSUME MarkGet("starter") PROVE Fresh'
  BY <1>0, <1>4 DEF MarkGet, Fresh
<1>5. ASSUME MarkHset("starter") PROVE Fresh'
  <2>1. at'["starter"] = "markSadd"
    BY <1>0, <1>5 DEF MarkHset
  <2> QED
    BY <2>1 DEF Fresh
<1>6. ASSUME MarkSadd("starter") \/ (CommandFails("starter") /\ NextPV("starter")) PROVE Fresh'
  <2>1. at'["starter"] = "start"
    BY <1>0, <1>6, StarterGoesOn DEF MarkSadd
  <2> QED
    BY <2>1 DEF Fresh
<1>7. ASSUME MonitorRestarts PROVE Fresh'
  <2>1. at'["starter"] = "start"
    BY <1>0, <1>7 DEF MonitorRestarts
  <2> QED
    BY <2>1 DEF Fresh
<1> QED
  BY <1>1, <1>2, <1>3, <1>4, <1>5, <1>6, <1>7, ElsewhereSteps

LEMMA NoneGoesBack ==
  ASSUME MonitorAlone, Alone, Fresh, AloneNext, InOrder, NEW pv \in PVs, hash'[pv].val > 0
  PROVE  hash'[pv].val >= hash[pv].val
<1> USE DEF redis, pipeline, actors, External
<1>0. CacheInv /\ RedisOK /\ hash[pv].val \in Int
  <2>1. PICK p \in Protocols : TRUE
    BY DEF MonitorAlone
  <2> QED
    BY <2>1, CacheParts, ValuesTyped DEF Alone
<1>1. ASSUME NEW p \in Protocols, WriteBatch(p) PROVE hash'[pv].val >= hash[pv].val
  <2>1. hash'[pv] = hash[pv] \/ hash'[pv] = batch[p][pv]
    BY <1>1 DEF WriteBatch
  <2>2. batch[p][pv].val \in Int /\ (batch[p][pv].val > 0 => hash[pv].val <= batch[p][pv].val)
    BY <1>0, ValuesTyped DEF InOrder, Ordered
  <2> QED
    BY <1>0, <2>1, <2>2
<1>2. ASSUME MarkHset("starter") PROVE hash'[pv].val >= hash[pv].val
  <2>1. got["starter"] = hash[on["starter"]] /\ on["starter"] \in PVs
    BY <1>0, <1>2 DEF MarkHset, Fresh, CacheInv, OnIsPV, Actors
  <2>2. CASE pv # on["starter"]
    BY <1>0, <1>2, <2>1, <2>2 DEF MarkHset, RedisOK
  <2>3. CASE pv = on["starter"]
    <3>1. hash'[pv] = IF got["starter"] = Missing THEN Lost ELSE [got["starter"] EXCEPT !.conn = FALSE]
      BY <1>0, <1>2, <2>1, <2>3 DEF MarkHset, RedisOK
    <3>2. hash[pv] # Missing => hash[pv] \in [val : 0..MaxVal, conn : BOOLEAN]
      BY <1>0 DEF RedisOK, Cached, Entries
    <3> QED
      BY <1>0, <2>1, <2>3, <3>1, <3>2 DEF Lost
  <2> QED
    BY <2>2, <2>3
<1>3. UNCHANGED hash => hash'[pv].val >= hash[pv].val
  BY <1>0
<1> QED
  BY <1>1, <1>2, <1>3, ElsewhereSteps DEF StartMonitor, MarkGet, MarkSadd, CommandFails, MonitorRestarts

(* The monitor never puts a value back that the device had before the one in
   the hash: one batch after the other keeps the order of the updates, and
   what fails or restarts loses updates but reorders none
   (_process_update_queue of pv_monitor.py; set_pv_connected of
   redis_service.py writes back what it read). *)
THEOREM ValuesGoForward ==
  ASSUME MonitorAlone
  PROVE  Spec => ValueNeverRegresses
<1>1. Init => Fresh /\ InOrder
  <2> SUFFICES ASSUME Init PROVE Fresh /\ InOrder
    OBVIOUS
  <2>1. Fresh
    BY DEF Init, Fresh, Actors
  <2>2. ASSUME NEW p \in Protocols, NEW pv \in PVs PROVE Ordered(p, pv)
    <3>1. hash[pv].val = -1 /\ batch[p][pv].val = -1 /\ device[pv].val = 1 /\ queue[p] = <<>>
      BY DEF Init, Empty, Missing
    <3>2. Len(queue[p]) = 0
      BY <3>1
    <3> QED
      BY <3>1, <3>2 DEF Ordered
  <2> QED
    BY <2>1, <2>2 DEF InOrder
<1>2. Alone /\ Fresh /\ InOrder /\ [Next]_vars => Fresh' /\ InOrder'
  BY AloneSteps, FreshStep, OrderedStep DEF InOrder
<1>3. Alone /\ Fresh /\ InOrder /\ [Next]_vars =>
        [\A pv \in PVs : hash'[pv].val > 0 => hash'[pv].val >= hash[pv].val]_vars
  BY AloneSteps, NoneGoesBack
<1> QED
  BY <1>1, <1>2, <1>3, AloneInvariant, PTL DEF Spec, ValueNeverRegresses

=============================================================================
