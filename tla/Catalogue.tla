------------------------------ MODULE Catalogue ------------------------------
(***************************************************************************)
(* The API process under concurrent requests: every handler that reads or  *)
(* changes the catalogue of tags, PVs, API keys and snapshots, each with a *)
(* database session of its own.                                            *)
(***************************************************************************)
EXTENDS TagRequests, KeyRequests, SnapshotRequests

-----------------------------------------------------------------------------
(* What may be asked, and what the tables may hold at the start *)

(* FastAPI takes the ids from the path and the body; the services look them
   up in the table of their kind. *)
Tolerances == [abs : Int, rel : Int]
IsCall(c) ==
  /\ c.op \in {"update_group", "delete_group", "add_tag", "update_tag", "remove_tag"} =>
       c.group \in Groups
  /\ c.op \in {"update_tag", "remove_tag"} => c.tag \in Tags
  /\ c.op \in {"create_pv", "create_many"} => \A k \in DOMAIN c.items : c.items[k].tol \in Tolerances
  /\ c.op = "update_pv" => c.pv \in PVs /\ c.tags \subseteq Tags /\ c.tol \in Tolerances
  /\ c.op = "delete_pv" => c.pv \in PVs
  /\ c.op = "walk" => c.limit \in Nat \ {0}
  /\ c.op = "deactivate_key" => c.target \in Keys
  /\ c.op \in {"get_snapshot", "compare"} => c.snapshots \in Seq(Snapshots) /\ c.snapshots # <<>>
  /\ c.op = "compare" => Len(c.snapshots) = 2
  /\ c.op \in {"update_snapshot", "delete_snapshot"} => c.snapshot \in Snapshots

IsValue(v) ==
  /\ v = [kind |-> v.kind, n |-> v.n]
  /\ v.n \in Int /\ (v.kind = "none" => v.n = 0)
IsRow(i, row) ==
  /\ i \in Tags => DOMAIN row = {"name", "group"} /\ row.group \in Groups
  /\ i \in PVs => DOMAIN row = {"name", "readback", "tol"} /\ row.tol \in Tolerances
  /\ i \in Values => IsValue(row.setpoint) /\ IsValue(row.readback)

(* No two rows have an entry of a unique index in common. *)
Distinct(rows) ==
  \A i, j \in DOMAIN rows : i # j => Unique(i, rows[i]) \cap Unique(j, rows[j]) = {}

ASSUME ScenariosAssumption ==
  \A s \in Scenarios :
    /\ \A r \in Requests : IsCall(s.calls[r])
    /\ DOMAIN s.rows \subseteq Ids /\ \A i \in DOMAIN s.rows : IsRow(i, s.rows[i])
    /\ Distinct(s.rows) /\ ParentsIn(s.rows) \subseteq DOMAIN s.rows

-----------------------------------------------------------------------------

(* What an exception of a flush becomes.  The PV handlers answer 409 to an
   IntegrityError, the import goes on with its next tag, a request that has
   its answer keeps it, and every other one answers 500. *)
Raised(r) ==
  /\ at[r] \in {"integrity", "failed"}
  /\ IF Call(r).op = "bulk_import" /\ next[r] = "task"
     THEN Goto(r, "task")
     ELSE Fail(r, CASE status[r] = 200 -> 200
                    [] Creating(r) /\ at[r] = "integrity" -> 409
                    [] OTHER -> 500)

Handler(r) ==
  \/ TagStep(r) \/ PVStep(r) \/ KeyStep(r) \/ SnapshotStep(r)
  \/ Raised(r) \/ Answer(r) \/ Commit(r)

Statement(r) == FlushDone(r) \/ FlushFails(r) \/ Deadlock(r)

Next == \E r \in Requests : Handler(r) \/ Statement(r)

Spec == Init /\ [][Next]_vars

(* The event loop and PostgreSQL do not stop while something can be done;
   which request goes on is left open. *)
FairSpec == Spec /\ WF_vars(Next)

-----------------------------------------------------------------------------
(* Properties *)

Ended(r) == at[r] = "done" /\ Call(r).op # "none"

ActiveKeys == {k \in Keys \cap DOMAIN db : db[k].active}

(* The schema's promises, with handlers that check first and insert later:
   no two groups, PVs or active keys of one name, and no tag, link or value
   without its parents (models/tag.py:17, models/pv.py:28,
   models/api_key.py:20, the ON DELETE CASCADE keys). *)
SchemaHolds ==
  /\ \A table \in {Groups, PVs, ActiveKeys} : \A i, j \in table \cap DOMAIN db :
       db[i].name = db[j].name => i = j
  /\ ParentsIn(db) \subseteq DOMAIN db

(* An answer tells whether the request was stored, although the commit
   comes after it: success is followed by a commit that works, and an error
   leaves nothing.  Not so for an import that met an error on the way, and
   for a snapshot from the cache whose values were refused. *)
AnswersAreTrue ==
  \A r \in Requests : Ended(r) =>
    \/ stored[r] <=> status[r] = 200
    \/ Call(r).op = "bulk_import" /\ broken[r]
    \/ Call(r).op = "create_snapshot" /\ Call(r).cached /\ status[r] = 500

(* A captured value goes only with its snapshot or its PV: reading and
   comparing snapshots lose nothing (snapshots.py:76, "Get snapshot by ID
   with values"). *)
ReadsLoseNothing ==
  [][\A v \in Values : v \in DOMAIN db /\ v \notin DOMAIN db' =>
       v[1] \notin DOMAIN db' \/ v[2] \notin DOMAIN db']_vars

(* A client that follows the continuation tokens of GET /pvs/paged gets
   every PV that existed throughout exactly once, whatever is inserted and
   deleted meanwhile (docs/api-reference/index.md:104). *)
WalkIsComplete ==
  \A r \in Requests : Ended(r) /\ Call(r).op = "walk" /\ status[r] = 200 =>
    /\ \A i, j \in DOMAIN list[r] : list[r][i] = list[r][j] => i = j
    /\ \A p \in DOMAIN got[r] \cap DOMAIN db : \E i \in DOMAIN list[r] : list[r][i] = p

(* The same for a client that follows the offsets of GET /pvs/search. *)
SearchIsComplete ==
  \A r \in Requests : Ended(r) /\ Call(r).op = "search" /\ status[r] = 200 =>
    \A p \in DOMAIN got[r] \cap DOMAIN db : \E i \in DOMAIN list[r] : list[r][i] = p

Max2(m, n) == IF m < n THEN n ELSE m
Close(v1, v2, tol) ==
  \/ v1 = v2
  \/ /\ v1.kind = "number" /\ v2.kind = "number"
     /\ LET diff == 100 * Abs(v1.n - v2.n)
        IN diff <= Max2(100 * tol.abs, tol.rel * Max2(Abs(v1.n), Abs(v2.n)))

(* A comparison reports only PVs with a value that changed (or with a
   negative absolute tolerance, which the schema accepts), and leaves out
   only PVs whose values are equal or both numbers within the larger of the
   tolerances, the relative one taken of the larger magnitude. *)
ComparisonIsRight ==
  \A r \in Requests : Ended(r) /\ Call(r).op = "compare" /\ status[r] = 200 =>
    \A p \in Compared(got[r]) :
      LET s == Call(r).snapshots
          v1 == ValueIn(got[r], s[1], p)
          v2 == ValueIn(got[r], s[2], p)
          tol == ToleranceOf(got[r], p)
      IN IF Differs(got[r], s[1], s[2], p)
         THEN v1 # v2 \/ tol.abs < 0
         ELSE Close(v1.setpoint, v2.setpoint, tol) /\ Close(v1.readback, v2.readback, tol)

(* What a comparison shows as a difference is one. *)
ShownDiffer ==
  \A r \in Requests : Ended(r) /\ Call(r).op = "compare" /\ status[r] = 200 =>
    \A p \in Compared(got[r]) :
      LET s == Call(r).snapshots
          shown == Shown(got[r], s[1], s[2], p)
      IN Differs(got[r], s[1], s[2], p) => shown[1] # shown[2]

(* A direct snapshot has a row for every PV there was when the reads began,
   with what its own addresses answered; null stands for an address that did
   not answer, whose protocol raised, or that answered NaN or an infinity
   (snapshot_service.py:290, 306).  Of PVs with one readback address between
   them one has its reading and the others null (snapshot_service.py:239). *)
Answers(call, a) ==
  \/ Protocol(a) = "pva" /\ "pva" \notin call.raises
  \/ Protocol(a) \in {"ca", "bare"} /\ a \notin call.silent.ca /\ "ca" \notin call.raises
  \/ Protocol(a) = "bare" /\ Fallback /\ a \notin call.silent.pva /\ "fallback" \notin call.raises

Expected(call, a) == IF Answers(call, a) /\ a \notin call.nan THEN ReadingOf(a) ELSE Null
ExpectedBack(r, p) ==
  IF got[r][p].readback = NoReadback THEN Null ELSE Expected(Call(r), got[r][p].readback)

CaptureIsTrue ==
  \A r \in Requests : At(r, "create_snapshot", "commit") /\ ~Call(r).cached =>
    \A p \in DOMAIN got[r] :
      LET row(q) == Sees(r)[<<list[r][1], q>>]
      IN /\ <<list[r][1], p>> \in DOMAIN Sees(r)
         /\ row(p).setpoint = Expected(Call(r), got[r][p].name)
         /\ row(p).readback \in {ExpectedBack(r, p), Null}
         /\ \E q \in DOMAIN got[r] :
              got[r][q].readback = got[r][p].readback /\ row(q).readback = ExpectedBack(r, p)

(* "This captures the current state of all configured PVs."
   (snapshots.py:108): no PV is without what its readback answered. *)
CaptureIsWhole ==
  \A r \in Requests : At(r, "create_snapshot", "commit") /\ ~Call(r).cached =>
    \A p \in DOMAIN got[r] :
      Sees(r)[<<list[r][1], p>>].readback = ExpectedBack(r, p)

(* Comparing in the other direction gives the same differences. *)
ComparisonIsSymmetric ==
  \A r \in Requests : Ended(r) /\ Call(r).op = "compare" /\ status[r] = 200 =>
    \A p \in Compared(got[r]) :
      LET s == Call(r).snapshots
      IN Differs(got[r], s[1], s[2], p) <=> Differs(got[r], s[2], s[1], p)

(* Handlers check for a duplicate, ignoring case, before they insert
   (tag_service.py:48, 123): no two groups, and no two tags of a group, of
   one name. *)
NamesAreDistinct ==
  \A i, j \in DOMAIN db \cap (Groups \cup Tags) :
    i # j /\ Parents(i, db[i]) = Parents(j, db[j]) => Fold(db[i].name) # Fold(db[j].name)

(* "Cannot deactivate the API key currently used for authentication"
   (api_keys.py:49): without ?force=true some key with write access stays
   active. *)
SomeKeyIsActive ==
  (\A r \in Requests : Call(r).op = "deactivate_key" => ~Call(r).force) =>
    \E k \in Keys \cap DOMAIN db : db[k].active /\ "write" \in db[k].access

(* A request that answered an error left nothing behind. *)
ErrorsLeaveNothing ==
  \A r \in Requests : Ended(r) /\ status[r] >= 400 => ~stored[r]

(* A request that answered success was committed. *)
SuccessIsStored ==
  \A r \in Requests : Ended(r) /\ status[r] = 200 => stored[r]

(* A PV has the tags some update asked for, not a mixture. *)
TagsAreOnesAskedFor ==
  (\A r \in Requests : at[r] = "done") =>
    \A p \in PVs \cap DOMAIN db :
      LET tags == {t \in Tags : <<p, t>> \in DOMAIN db}
          asked == {Call(r).tags : r \in {q \in Requests : Call(q).op = "update_pv"
                                                        /\ Call(q).pv = p /\ status[q] = 200}}
      IN asked # {} => tags \in asked

(* Every request ends: no handler waits forever for the rows or names of
   another, and deadlocks are broken. *)
EveryRequestEnds == \A r \in Requests : <>(at[r] = "done")
=============================================================================
