----------------------------- MODULE PVRequests -----------------------------
(***************************************************************************)
(* The handlers of app/api/v1/pvs.py that use the database, with PVService *)
(* and PVRepository.                                                       *)
(*                                                                         *)
(* Every PV here has a setpoint address (name), the only unique one, and   *)
(* perhaps a readback.  Of its other columns the tolerances stand for      *)
(* those that PUT changes.                                                 *)
(***************************************************************************)
EXTENDS Database

LinkRow == [link |-> TRUE]

(* ORDER BY: the place of a PV is the number of those not after it. *)
Place(p) == CHOOSE i \in DOMAIN Order : Order[i] = p
UpTo(S, p) == {q \in S : Place(q) <= Place(p)}
Sorted(S) == [n \in 1..Cardinality(S) |-> CHOOSE p \in S : Cardinality(UpTo(S, p)) = n]

LivePVs(r) == PVs \cap DOMAIN Sees(r)

(* POST /pvs and /pvs/multi: items [name, tags], the names distinct.  A
   check of the setpoints, a SELECT of the tags, an INSERT of it all. *)
Creating(r) == Call(r).op \in {"create_pv", "create_many"}
Items(r) == {Call(r).items[k] : k \in DOMAIN Call(r).items}

CheckSetpoints(r) ==
  /\ Creating(r) /\ at[r] = "read"
  /\ IF \E p \in LivePVs(r), item \in Items(r) : Sees(r)[p].name = item.name
     THEN Fail(r, 409)
     ELSE Goto(r, "tags")

(* create() refuses an unknown tag, create_many() drops it. *)
InsertPVs(r) ==
  /\ Creating(r) /\ at[r] = "tags"
  /\ LET known == Tags \cap DOMAIN Sees(r)
     IN IF Call(r).op = "create_pv" /\ \E item \in Items(r) : ~(item.tags \subseteq known)
        THEN Fail(r, 409)
        ELSE \E id \in [Items(r) -> PVs \ used] :
               /\ \A i, j \in Items(r) : id[i] = id[j] => i = j
               /\ Flush(r, Insert(
                    [k \in {id[i] : i \in Items(r)} \cup UNION {{id[i]} \X (i.tags \cap known) : i \in Items(r)} |->
                       IF k \in Links THEN LinkRow
                       ELSE LET item == CHOOSE i \in Items(r) : id[i] = k
                            IN [name |-> item.name, readback |-> item.readback, tol |-> item.tol]]), "answer")
               /\ UNCHANGED memory

(* PUT /pvs/{pv_id}: the tags of the PV as loaded are made those asked for. *)
GetPV(r) ==
  /\ At(r, "update_pv", "read")
  /\ LET p == Call(r).pv
     IN IF p \in DOMAIN Sees(r)
        THEN Keep(r, RowsIn(Sees(r), {p} \cup ({p} \X Tags)), "tags")
        ELSE Fail(r, 404)

UpdatePV(r) ==
  /\ At(r, "update_pv", "tags")
  /\ LET p == Call(r).pv
         had == DOMAIN got[r] \cap Links
         want == {p} \X (Call(r).tags \cap DOMAIN Sees(r))
         row == [got[r][p] EXCEPT !.tol = Call(r).tol]
     IN Flush(r, [ins |-> [l \in want \ had |-> LinkRow],
                  upd |-> IF row = got[r][p] THEN NoRows ELSE Row(p, row),
                  del |-> had \ want], "reload")
  /\ UNCHANGED memory

RefreshPV(r) ==
  /\ At(r, "update_pv", "reload")
  /\ IF Call(r).pv \in DOMAIN Sees(r) THEN Goto(r, "answer") ELSE Fail(r, 500)

(* DELETE /pvs/{pv_id} *)
DeletePV(r) ==
  /\ At(r, "delete_pv", "read")
  /\ IF Call(r).pv \in DOMAIN Sees(r)
     THEN Flush(r, Delete(Cascade(r, {Call(r).pv})), "answer") /\ UNCHANGED memory
     ELSE Fail(r, 404)

-----------------------------------------------------------------------------
(* A client reads all PVs page by page; each page is a request of its own. *)

Paged(r, page, more) ==
  /\ list' = [list EXCEPT ![r] = @ \o page]
  /\ got' = [got EXCEPT ![r] = IF at[r] = "read" THEN RowsIn(db, PVs) ELSE @]
  /\ at' = [at EXCEPT ![r] = IF more THEN "more" ELSE "done"]
  /\ status' = [status EXCEPT ![r] = 200]
  /\ stored' = [stored EXCEPT ![r] = TRUE]
  /\ UNCHANGED <<scenario, db, used, tx, work, next, broken, heard>>

First(n, s) == SubSeq(s, 1, IF n < Len(s) THEN n ELSE Len(s))

Walking(r, op) == Call(r).op = op /\ at[r] \in {"read", "more"}

(* As a mutant: the token is the first id of the next page. *)
BeyondNext(r) ==
  IF list[r] = <<>> THEN PVs
  ELSE {p \in PVs : Place(list[r][Len(list[r])]) + 1 < Place(p)}

(* GET /pvs/paged: ids beyond the continuation token, the last id of the
   page before. *)
Beyond(r) ==
  IF list[r] = <<>> THEN PVs
  ELSE {p \in PVs : Place(list[r][Len(list[r])]) < Place(p)}

WalkPVs(r) ==
  /\ Walking(r, "walk")
  /\ LET rest == Sorted(LivePVs(r) \cap Beyond(r))
     IN Paged(r, First(Call(r).limit, rest), Len(rest) > Call(r).limit)

(* GET /pvs/search: the rows after the first offset ones. *)
SearchPVs(r) ==
  /\ Walking(r, "search")
  /\ LET all == Sorted(LivePVs(r))
         rest == SubSeq(all, Len(list[r]) + 1, Len(all))
     IN Paged(r, First(Call(r).limit, rest), Len(rest) > Call(r).limit)

PVStep(r) ==
  \/ CheckSetpoints(r) \/ InsertPVs(r)
  \/ GetPV(r) \/ UpdatePV(r) \/ RefreshPV(r) \/ DeletePV(r)
  \/ WalkPVs(r) \/ SearchPVs(r)
=============================================================================
