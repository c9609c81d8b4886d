-------------------------- MODULE SnapshotRequests --------------------------
(***************************************************************************)
(* The handlers of app/api/v1/snapshots.py that read, compare, change and  *)
(* delete snapshots, and the creation of one with ?async=false, with       *)
(* SnapshotService and SnapshotRepository.                                 *)
(*                                                                         *)
(* A value is [kind, n]: "none" is null or absent, "number" is n, "text"   *)
(* is one that float() refuses, and what a device answers has its address  *)
(* for a kind.  A record whose value is null and an absent one are not     *)
(* told apart: compare_snapshots and the restore take both for no value.   *)
(***************************************************************************)
EXTENDS PVRequests

CONSTANTS Protocol(_),  \* of an address, by its prefix: "ca", "pva" or "bare"
          Fallback      \* the setting epics_unprefixed_pva_fallback

NoLimit == -1
Null == [kind |-> "none", n |-> 0]
ValuesOf(rows, s) == DOMAIN rows \cap ({s} \X PVs)

(* SnapshotRepository.get_with_values: the snapshot with its values, which
   are all marked here as orphans ... *)
Reading(r) == Call(r).op \in {"get_snapshot", "compare"}

BeginRead(r) ==
  /\ Reading(r) /\ at[r] = "read"
  /\ list' = [list EXCEPT ![r] = Call(r).snapshots]
  /\ at' = [at EXCEPT ![r] = "load"]
  /\ UNCHANGED <<scenario, db, used, tx, work, next, status, stored, broken, got, heard>>

LoadSnapshot(r) ==
  /\ Reading(r) /\ at[r] = "load"
  /\ LET s == Head(list[r])
     IN IF s \in DOMAIN Sees(r)
        THEN /\ work' = [work EXCEPT ![r].del = @ \cup ValuesOf(Sees(r), s)]
             /\ at' = [at EXCEPT ![r] = "page"]
             /\ UNCHANGED <<scenario, db, used, tx, next, status, stored, broken, memory>>
        ELSE Fail(r, 404)

(* ... until the page that is read next is assigned to snapshot.values: what
   is not on it stays an orphan, and the commit deletes it. *)
PageOf(r, rows) ==
  LET s == Head(list[r])
      all == Sorted({v[2] : v \in ValuesOf(rows, s)})
      rest == SubSeq(all, Call(r).offset + 1, Len(all))
      page == IF Call(r).limit = NoLimit THEN rest ELSE First(Call(r).limit, rest)
  IN {s} \X {page[i] : i \in DOMAIN page}

ReadValues(r) ==
  /\ Reading(r) /\ at[r] = "page"
  /\ LET page == PageOf(r, Sees(r))
     IN /\ work' = [work EXCEPT ![r].del = @ \ page]
        /\ got' = [got EXCEPT ![r] = After(@, Insert(RowsIn(Sees(r), page)))]
  /\ list' = [list EXCEPT ![r] = Tail(@)]
  /\ at' = [at EXCEPT ![r] = IF Len(list[r]) > 1 THEN "load" ELSE "tolerances"]
  /\ UNCHANGED <<scenario, db, used, tx, next, status, stored, broken, heard>>

(* get_by_ids: the PVs of the values, for their addresses or tolerances. *)
ReadPVs(r) ==
  /\ Reading(r) /\ at[r] = "tolerances"
  /\ Keep(r, After(got[r], Insert(RowsIn(Sees(r), {v[2] : v \in DOMAIN got[r]}))), "answer")

-----------------------------------------------------------------------------
(* compare_snapshots, over the rows that were read *)

Abs(n) == IF n < 0 THEN -n ELSE n

(* As a mutant: an absent value counts as 0. *)
WithinWithZero(v1, v2, tol) ==
  IF "text" \in {v1.kind, v2.kind} THEN v1 = v2
  ELSE LET diff == Abs(v1.n - v2.n)
       IN \/ diff <= tol.abs
          \/ tol.rel > 0 /\ v1.n # 0 /\ 100 * diff <= tol.rel * Abs(v1.n)

(* _values_within_tolerance; tol.rel is in percent. *)
WithinTolerance(v1, v2, tol) ==
  CASE v1.kind = "none" \/ v2.kind = "none" -> v1.kind = v2.kind
    [] v1.kind = "number" /\ v2.kind = "number" ->
         LET diff == Abs(v1.n - v2.n)
         IN \/ diff <= tol.abs
            \/ tol.rel > 0 /\ v1.n # 0 /\ 100 * diff <= tol.rel * Abs(v1.n)
    [] OTHER -> v1 = v2

ValueIn(rows, s, p) ==
  IF <<s, p>> \in DOMAIN rows THEN rows[<<s, p>>] ELSE [setpoint |-> Null, readback |-> Null]
ToleranceOf(rows, p) == IF p \in DOMAIN rows THEN rows[p].tol ELSE [abs |-> 0, rel |-> 0]

Compared(rows) == {v[2] : v \in DOMAIN rows \cap Values}

Differs(rows, s1, s2, p) ==
  LET v1 == ValueIn(rows, s1, p)
      v2 == ValueIn(rows, s2, p)
      tol == ToleranceOf(rows, p)
  IN ~(WithinTolerance(v1.setpoint, v2.setpoint, tol)
       /\ WithinTolerance(v1.readback, v2.readback, tol))

(* The pair that is reported: the setpoints if there is one. *)
Shown(rows, s1, s2, p) ==
  LET v1 == ValueIn(rows, s1, p)
      v2 == ValueIn(rows, s2, p)
  IN IF {v1.setpoint, v2.setpoint} # {Null}
     THEN <<v1.setpoint, v2.setpoint>>
     ELSE <<v1.readback, v2.readback>>

-----------------------------------------------------------------------------
(* PUT and DELETE /snapshots/{snapshot_id} *)
UpdateSnapshot(r) ==
  /\ At(r, "update_snapshot", "read")
  /\ LET s == Call(r).snapshot
     IN IF s \in DOMAIN Sees(r)
        THEN Flush(r, Update(s, [name |-> Call(r).name]), "answer") /\ UNCHANGED memory
        ELSE Fail(r, 404)

DeleteSnapshot(r) ==
  /\ At(r, "delete_snapshot", "read")
  /\ IF Call(r).snapshot \in DOMAIN Sees(r)
     THEN Flush(r, Delete({Call(r).snapshot}), "answer") /\ UNCHANGED memory
     ELSE Fail(r, 404)

(* POST /snapshots?async=false: the PVs, the reads from the cache or from
   EPICS, then the snapshot, then its values. *)
Creates(r, l) == At(r, "create_snapshot", l)

ReadAddresses(r) ==
  /\ Creates(r, "read") \/ Creates(r, "direct")
  /\ Keep(r, RowsIn(Sees(r), PVs), IF at[r] = "read" /\ Call(r).cached THEN "cache" ELSE "ca")

(* An empty cache sends the request to EPICS, from the start. *)
ReadCache(r) ==
  /\ Creates(r, "cache")
  /\ Goto(r, "check") \/ Goto(r, "direct")

NoReadback == "no readback"
SetpointsOf(r) == {got[r][p].name : p \in DOMAIN got[r]}
ReadbacksOf(r) == {got[r][p].readback : p \in DOMAIN got[r]} \ {NoReadback}
(* As a mutant: the readbacks are left out of what is read. *)
SetpointsOnly(r, protocols) == {a \in SetpointsOf(r) : Protocol(a) \in protocols}

Addresses(r, protocols) == {a \in SetpointsOf(r) \cup ReadbacksOf(r) : Protocol(a) \in protocols}

(* EpicsService.get_many goes on with the addresses that answered; those in
   call.silent[protocol] do not. *)
Heard(r, answers, l) ==
  /\ heard' = [heard EXCEPT ![r] = @ \cup answers]
  /\ at' = [at EXCEPT ![r] = l]
  /\ UNCHANGED <<scenario, db, used, tx, work, next, status, stored, broken, got, list>>

(* CA: every address has a result of its own, a silent one after a timeout;
   an exception (call.raises) is the result of all. *)
ReadCA(r) ==
  /\ Creates(r, "ca")
  /\ LET names == Addresses(r, {"ca", "bare"})
     IN Heard(r, IF "ca" \in Call(r).raises THEN {} ELSE names \ Call(r).silent.ca, "pva")

(* PVA: one gather of reads without a timeout waits for the last answer. *)
ReadPVA(r) ==
  /\ Creates(r, "pva")
  /\ LET names == Addresses(r, {"pva"})
     IN IF "pva" \in Call(r).raises
        THEN Heard(r, {}, "fallback")
        ELSE names \cap Call(r).silent.pva = {} /\ Heard(r, names, "fallback")

(* The unprefixed addresses that CA has not read, over PVA, if the setting
   epics_unprefixed_pva_fallback is on. *)
ReadFallback(r) ==
  /\ Creates(r, "fallback")
  /\ LET names == IF Fallback THEN Addresses(r, {"bare"}) \ heard[r] ELSE {}
     IN IF "fallback" \in Call(r).raises
        THEN Heard(r, {}, "insert")
        ELSE names \cap Call(r).silent.pva = {} /\ Heard(r, names, "insert")

InsertSnapshot(r) ==
  /\ Creates(r, "check") \/ Creates(r, "insert")
  /\ Left(Snapshots)
  /\ LET s == CHOOSE i \in Snapshots : i \notin used
     IN /\ Flush(r, Insert(Row(s, [name |-> Call(r).name])),
                 IF at[r] = "check" THEN "commitNow" ELSE "values")
        /\ list' = [list EXCEPT ![r] = <<s>>]
  /\ UNCHANGED <<got, heard>>

(* What a device holds: a value of its own for every address.  NaN and the
   infinities, which the addresses in call.nan hold, are no JSON:
   _sanitize_value makes them null, and the answer still counts as one. *)
ReadingOf(a) == [kind |-> a, n |-> 0]
Sanitized(call, a) == IF a \in call.nan THEN Null ELSE ReadingOf(a)

(* What the snapshot records under an address. *)
Recorded(r, a) == IF a \in heard[r] THEN Sanitized(Call(r), a) ELSE Null

(* Direct mode: the values go into the same transaction.  readback_map has
   one PV for each readback address, the one that the query gave last. *)
InsertValues(r) ==
  /\ Creates(r, "values")
  /\ \E of \in [ReadbacksOf(r) -> DOMAIN got[r]] :
       /\ \A a \in ReadbacksOf(r) : got[r][of[a]].readback = a
       /\ Flush(r, Insert(
            [v \in {list[r][1]} \X DOMAIN got[r] |->
               LET pv == got[r][v[2]]
               IN [setpoint |-> Recorded(r, pv.name),
                   readback |-> IF pv.readback \in ReadbacksOf(r) /\ of[pv.readback] = v[2]
                                THEN Recorded(r, pv.readback) ELSE Null]]), "answer")
  /\ UNCHANGED memory

(* Cached mode: the snapshot is committed first, then its values (what they
   are is left out) are inserted over a connection of the bulk service, one
   transaction. *)
Captured(r) == [v \in {list[r][1]} \X DOMAIN got[r] |-> [setpoint |-> Null, readback |-> Null]]

CommitSnapshot(r) ==
  /\ Creates(r, "commitNow")
  /\ db' = After(db, tx[r])
  /\ tx' = [tx EXCEPT ![r] = NoChanges]
  /\ stored' = [stored EXCEPT ![r] = TRUE]
  /\ at' = [at EXCEPT ![r] = "bulk"]
  /\ UNCHANGED <<scenario, used, work, next, status, broken, memory>>

BulkInsert(r) ==
  /\ Creates(r, "bulk")
  /\ WaitsFor(r, Insert(Captured(r))) = {}
  /\ IF Violates(db, Insert(Captured(r)))
     THEN Fail(r, 500)
     ELSE /\ db' = After(db, Insert(Captured(r)))
          /\ used' = used \cup DOMAIN Captured(r)
          /\ at' = [at EXCEPT ![r] = "answer"]
          /\ UNCHANGED <<scenario, tx, work, next, status, stored, broken, memory>>

SnapshotStep(r) ==
  \/ BeginRead(r) \/ LoadSnapshot(r) \/ ReadValues(r) \/ ReadPVs(r)
  \/ UpdateSnapshot(r) \/ DeleteSnapshot(r)
  \/ ReadAddresses(r) \/ ReadCache(r) \/ ReadCA(r) \/ ReadPVA(r) \/ ReadFallback(r)
  \/ InsertSnapshot(r) \/ InsertValues(r)
  \/ CommitSnapshot(r) \/ BulkInsert(r)
=============================================================================
