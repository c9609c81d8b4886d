------------------------------ MODULE Database ------------------------------
(***************************************************************************)
(* The tables of the API (app/models), and what a request handler does to  *)
(* them through its AsyncSession (app/db/session.py, repositories/base.py).*)
(*                                                                         *)
(* One session per request, READ COMMITTED, no autoflush: a handler reads, *)
(* changes objects in memory (work), flushes them (tx), and get_db commits *)
(* after the answer is sent.  PostgreSQL and SQLAlchemy are external: row  *)
(* locks, unique indexes, foreign keys with ON DELETE CASCADE, and the     *)
(* victim of a deadlock are modelled as the handlers meet them.            *)
(***************************************************************************)
EXTENDS Integers, Sequences, FiniteSets

CONSTANTS Requests,
          Groups, Tags, PVs, Keys, Snapshots,  \* the primary keys of each table
          Order,      \* the PVs in the order of their ids, and of their names
          Scenarios   \* what the requests ask and the rows there are:
                      \* records of calls and rows

ASSUME OrderAssumption ==
  /\ Order \in Seq(PVs) /\ Len(Order) = Cardinality(PVs)
  /\ \A p \in PVs : \E i \in DOMAIN Order : Order[i] = p

Links == PVs \X Tags            \* the association table pv_tag
Values == Snapshots \X PVs      \* snapshot_value
Ids == Groups \cup Tags \cup PVs \cup Keys \cup Snapshots \cup Links \cup Values

(* An id tells its table; there are as many as one needs (UUIDs). *)
ASSUME TablesAssumption ==
  /\ Groups # {}
  /\ Groups \cap (Tags \cup PVs \cup Keys \cup Snapshots \cup Links \cup Values) = {}
  /\ Tags \cap (PVs \cup Keys \cup Snapshots \cup Links \cup Values) = {}
  /\ PVs \cap (Keys \cup Snapshots \cup Links \cup Values) = {}
  /\ Keys \cap (Snapshots \cup Links \cup Values) = {}
  /\ Snapshots \cap (Links \cup Values) = {}

NoRows == [i \in {} |-> {}]
Row(i, row) == [j \in {i} |-> row]

(* Changes to rows: of a unit of work, or of an open transaction. *)
NoChanges == [ins |-> NoRows, upd |-> NoRows, del |-> {}]
Insert(rows) == [NoChanges EXCEPT !.ins = rows]
Update(i, row) == [NoChanges EXCEPT !.upd = Row(i, row)]
Delete(ids) == [NoChanges EXCEPT !.del = ids]

VARIABLES
  scenario,  \* the calls and the rows of this behaviour
  db,        \* the committed rows, by id
  used,      \* the ids drawn so far (UUIDs: none is drawn twice)
  tx,        \* tx[r]: what r has flushed and not committed
  work,      \* work[r]: what the session of r has yet to flush
  at, next,  \* at[r]: the next step of r; next[r]: the one after a flush
  status,    \* status[r]: the HTTP status answered, 0 before
  stored,    \* stored[r]: r has committed
  broken,    \* broken[r]: a flush failed, the session waits for a rollback
  got,       \* got[r]: rows the handler keeps in its variables
  list,      \* list[r]: tasks, snapshots left to read, or PVs returned
  heard      \* heard[r]: the addresses that EPICS has answered for

memory == <<got, list, heard>>
vars == <<scenario, db, used, tx, work, at, next, status, stored, broken, memory>>

Labels == {"arrive", "read", "check", "tags", "flush", "reload", "task", "group", "load",
           "page", "tolerances", "cache", "direct", "ca", "pva",
           "fallback", "insert", "values", "commitNow", "bulk", "more",
           "integrity", "failed", "answer", "commit", "done"}

IsChanges(c) ==
  /\ DOMAIN c = {"ins", "upd", "del"}
  /\ DOMAIN c.ins \cup DOMAIN c.upd \cup c.del \subseteq Ids

TypeOK ==
  /\ scenario \in Scenarios
  /\ DOMAIN db \subseteq used /\ used \subseteq Ids
  /\ \A r \in Requests : IsChanges(tx[r]) /\ IsChanges(work[r])
  /\ at \in [Requests -> Labels] /\ next \in [Requests -> Labels]
  /\ status \in [Requests -> {0, 200, 401, 404, 409, 500}]
  /\ stored \in [Requests -> BOOLEAN] /\ broken \in [Requests -> BOOLEAN]
  /\ \A r \in Requests : DOMAIN got[r] \subseteq Ids

Init ==
  /\ scenario \in Scenarios
  /\ db = scenario.rows
  /\ used = DOMAIN db
  /\ tx = [r \in Requests |-> NoChanges] /\ work = tx
  /\ at = [r \in Requests |-> IF scenario.calls[r].op = "none" THEN "done" ELSE "arrive"]
  /\ next = at
  /\ status = [r \in Requests |-> 0]
  /\ stored = [r \in Requests |-> FALSE] /\ broken = stored
  /\ got = [r \in Requests |-> NoRows]
  /\ list = [r \in Requests |-> <<>>]
  /\ heard = [r \in Requests |-> {}]

(* The bound on new rows: an id of the table is left. *)
Left(table) == table \ used # {}

Call(r) == scenario.calls[r]
At(r, op, l) == Call(r).op = op /\ at[r] = l

-----------------------------------------------------------------------------
(* Rows *)

(* The rows a row refers to by a foreign key. *)
Parents(i, row) ==
  CASE i \in Tags -> {row.group}
    [] i \in Links \cup Values -> {i[1], i[2]}
    [] OTHER -> {}

(* As a mutant: the index on the names of the keys is not unique. *)
UniqueWithoutKeys(i, row) ==
  CASE i \in Groups -> {<<"tag_group.name", row.name>>}
    [] i \in PVs -> {<<"pv.setpoint_address", row.name>>}
    [] OTHER -> {}

(* The entries of a row in the unique indexes. *)
Unique(i, row) ==
  CASE i \in Groups -> {<<"tag_group.name", row.name>>}
    [] i \in PVs -> {<<"pv.setpoint_address", row.name>>}
    [] i \in Keys /\ row.active -> {<<"api_key.app_name", row.name>>}
    [] OTHER -> {}

ParentsIn(rows) == UNION {Parents(i, rows[i]) : i \in DOMAIN rows}
UniqueIn(rows) == UNION {Unique(i, rows[i]) : i \in DOMAIN rows}
RowsIn(rows, S) == [i \in S \cap DOMAIN rows |-> rows[i]]

After(rows, c) ==
  [i \in (DOMAIN rows \cup DOMAIN c.ins) \ c.del |->
     CASE i \in DOMAIN c.ins -> c.ins[i]
       [] i \in DOMAIN c.upd \ DOMAIN c.ins -> c.upd[i]
       [] OTHER -> rows[i]]

(* What a statement of r reads: the committed rows and its own changes. *)
Sees(r) == After(db, tx[r])

(* Foreign keys go two tables deep. *)
Children(r, S) ==
  {i \in DOMAIN Sees(r) : Parents(i, IF i \in DOMAIN db THEN db[i] ELSE tx[r].ins[i]) \cap S # {}}
Cascade(r, S) ==
  LET near == S \cup Children(r, S) IN near \cup Children(r, near)

-----------------------------------------------------------------------------
(* The steps a handler is made of *)

Goto(r, l) ==
  /\ at' = [at EXCEPT ![r] = l]
  /\ UNCHANGED <<scenario, db, used, tx, work, next, status, stored, broken, memory>>

Keep(r, rows, l) ==
  /\ got' = [got EXCEPT ![r] = rows]
  /\ at' = [at EXCEPT ![r] = l]
  /\ UNCHANGED <<scenario, db, used, tx, work, next, status, stored, broken, list, heard>>

(* An exception leaves the handler: get_db rolls back. *)
Fail(r, s) ==
  /\ at' = [at EXCEPT ![r] = "done"]
  /\ status' = [status EXCEPT ![r] = s]
  /\ tx' = [tx EXCEPT ![r] = NoChanges]
  /\ work' = [work EXCEPT ![r] = NoChanges]
  /\ UNCHANGED <<scenario, db, used, next, stored, broken, memory>>

(* As a mutant: the id of a new row is drawn again by a later request. *)
FlushReusing(r, c, l) ==
  /\ at' = [at EXCEPT ![r] = "flush"]
  /\ next' = [next EXCEPT ![r] = l]
  /\ work' = [work EXCEPT ![r] = c]
  /\ UNCHANGED <<scenario, db, used, tx, status, stored, broken>>

(* session.add, session.delete or an assignment, then flush. *)
Flush(r, c, l) ==
  /\ at' = [at EXCEPT ![r] = "flush"]
  /\ next' = [next EXCEPT ![r] = l]
  /\ work' = [work EXCEPT ![r] = c]
  /\ used' = used \cup DOMAIN c.ins
  /\ UNCHANGED <<scenario, db, tx, status, stored, broken>>

(* As a mutant: the repository leaves the flush to the commit. *)
NoFlush(r, c, l) ==
  /\ at' = [at EXCEPT ![r] = l]
  /\ work' = [work EXCEPT ![r] = c]
  /\ used' = used \cup DOMAIN c.ins
  /\ UNCHANGED <<scenario, db, tx, next, status, stored, broken>>

-----------------------------------------------------------------------------
(* Flushes *)

(* What the statements of the unit of work change, cascades included. *)
Effect(r) ==
  [work[r] EXCEPT !.del = IF @ = {} THEN {} ELSE Cascade(r, @) \cap DOMAIN Sees(r)]

Touched(c) == DOMAIN c.ins \cup DOMAIN c.upd \cup c.del

(* Rows no child can be inserted under while the transaction is open: those
   it deletes, and the groups it renames (their name is a unique key). *)
Withheld(c) == c.del \cup (DOMAIN c.upd \cap Groups)

(* Entries of the unique indexes that a transaction adds or removes. *)
InDoubt(c) == UniqueIn(c.ins) \cup UniqueIn(c.upd) \cup UniqueIn(RowsIn(db, Touched(c)))

Blocks(c, open) ==
  \/ Touched(c) \cap Touched(open) # {}
  \/ ParentsIn(c.ins) \cap Withheld(open) # {}
  \/ Withheld(c) \cap ParentsIn(open.ins) # {}
  \/ (UniqueIn(c.ins) \cup UniqueIn(c.upd)) \cap InDoubt(open) # {}

WaitsFor(r, c) == {o \in Requests \ {r} : Blocks(c, tx[o])}

(* IntegrityError: a unique index, a primary key or a foreign key. *)
Violates(rows, c) ==
  \/ DOMAIN c.ins \cap DOMAIN rows # {}
  \/ ~(ParentsIn(c.ins) \subseteq DOMAIN rows \cup DOMAIN c.ins)
  \/ (UniqueIn(c.ins) \cup UniqueIn(c.upd))
       \cap UniqueIn(RowsIn(rows, DOMAIN rows \ Touched(c))) # {}
  \/ \E i, j \in DOMAIN c.ins : i # j /\ Unique(i, c.ins[i]) \cap Unique(j, c.ins[j]) # {}

(* StaleDataError: an UPDATE found no row. *)
Stale(r) == ~(DOMAIN work[r].upd \subseteq DOMAIN Sees(r))

(* A DELETE on pv_tag that finds fewer rows than it was given raises, or
   not, by what the driver tells of its row count. *)
Doubtful(r) == ~(work[r].del \cap Links \subseteq DOMAIN Sees(r))

FlushDone(r) ==
  /\ at[r] = "flush" /\ WaitsFor(r, Effect(r)) = {}
  /\ ~Violates(Sees(r), Effect(r)) /\ ~Stale(r)
  /\ LET c == Effect(r)
         put(old, new) == [i \in DOMAIN old \cup DOMAIN new |->
                             IF i \in DOMAIN new THEN new[i] ELSE old[i]]
     IN tx' = [tx EXCEPT ![r] = [ins |-> put(@.ins, c.ins), upd |-> put(@.upd, c.upd),
                                 del |-> @.del \cup c.del]]
  /\ work' = [work EXCEPT ![r] = NoChanges]
  /\ at' = [at EXCEPT ![r] = next[r]]
  /\ UNCHANGED <<scenario, db, used, next, status, stored, broken, memory>>

(* The transaction is rolled back at once, and the session is of no use
   until its rollback is called. *)
FlushRaises(r, error) ==
  /\ tx' = [tx EXCEPT ![r] = NoChanges]
  /\ work' = [work EXCEPT ![r] = NoChanges]
  /\ broken' = [broken EXCEPT ![r] = TRUE]
  /\ at' = [at EXCEPT ![r] = error]
  /\ UNCHANGED <<scenario, db, used, next, status, stored, memory>>

FlushFails(r) ==
  /\ at[r] = "flush" /\ WaitsFor(r, Effect(r)) = {}
  /\ \/ Violates(Sees(r), Effect(r)) /\ FlushRaises(r, "integrity")
     \/ (Stale(r) \/ Doubtful(r)) /\ FlushRaises(r, "failed")

(* PostgreSQL cancels one of the transactions that wait in a circle. *)
Deadlock(r) ==
  /\ at[r] = "flush" /\ WaitsFor(r, Effect(r)) # {}
  /\ \E S \in SUBSET Requests :
       r \in S /\ \A s \in S : at[s] = "flush" /\ WaitsFor(s, Effect(s)) \cap S # {}
  /\ FlushRaises(r, "failed")

-----------------------------------------------------------------------------
(* The ends of a request *)

(* The answer is sent; what the session still holds is flushed by the
   commit. *)
Answer(r) ==
  /\ at[r] = "answer"
  /\ status' = [status EXCEPT ![r] = 200]
  /\ IF work[r] = NoChanges
     THEN at' = [at EXCEPT ![r] = "commit"] /\ UNCHANGED next
     ELSE at' = [at EXCEPT ![r] = "flush"] /\ next' = [next EXCEPT ![r] = "commit"]
  /\ UNCHANGED <<scenario, db, used, tx, work, stored, broken, memory>>

(* As a mutant: a session that is neither committed nor closed. *)
CommitForgotten(r) ==
  /\ at[r] = "commit"
  /\ at' = [at EXCEPT ![r] = "done"]
  /\ UNCHANGED <<scenario, db, used, tx, work, next, status, stored, broken, memory>>

(* get_db after the yield: a commit, which a broken session refuses. *)
Commit(r) ==
  /\ at[r] = "commit"
  /\ IF broken[r] THEN UNCHANGED <<db, stored>>
     ELSE db' = After(db, tx[r]) /\ stored' = [stored EXCEPT ![r] = TRUE]
  /\ tx' = [tx EXCEPT ![r] = NoChanges]
  /\ at' = [at EXCEPT ![r] = "done"]
  /\ UNCHANGED <<scenario, used, work, next, status, broken, memory>>
=============================================================================
