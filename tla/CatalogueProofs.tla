---------------------------- MODULE CatalogueProofs ----------------------------
(***************************************************************************)
(* Theorems of Catalogue for any tables, any number of requests and any    *)
(* calls they may make at the same time.                                   *)
(***************************************************************************)
EXTENDS Catalogue, FiniteSetTheorems, TLAPS

USE TablesAssumption

Sound(rows) == Distinct(rows) /\ ParentsIn(rows) \subseteq DOMAIN rows

(* A tag has one group for ever, its home: every copy of its row, committed,
   flushed or in the memory of a request, says so. *)
HasHome(home, rows) ==
  \A i \in DOMAIN rows : IsRow(i, rows[i]) /\ (i \in Tags => rows[i].group = home[i])
ChangesHaveHome(home, c) == HasHome(home, c.ins) /\ HasHome(home, c.upd)

(* The parents of a row by its id alone. *)
ParentIds(home, i) ==
  CASE i \in Tags -> {home[i]}
    [] i \in Links \cup Values -> {i[1], i[2]}
    [] OTHER -> {}
Rooted(home, D) == \A i \in D : ParentIds(home, i) \subseteq D

LEMMA ParentKinds ==
  ASSUME NEW home \in [Tags -> Groups], NEW i
  PROVE  /\ i \in Tags => ParentIds(home, i) \subseteq Groups
         /\ i \in Links => ParentIds(home, i) \subseteq PVs \cup Tags
         /\ i \in Values => ParentIds(home, i) \subseteq Snapshots \cup PVs
         /\ i \notin Tags \cup Links \cup Values => ParentIds(home, i) = {}
         /\ ParentIds(home, i) \cap (Links \cup Values) = {}
<1>1. i \in Tags => ParentIds(home, i) \subseteq Groups
  BY DEF ParentIds
<1>2. i \in Links => ParentIds(home, i) \subseteq PVs \cup Tags
  BY DEF ParentIds, Links
<1>3. i \in Values => ParentIds(home, i) \subseteq Snapshots \cup PVs
  BY DEF ParentIds, Values
<1>4. i \notin Tags \cup Links \cup Values => ParentIds(home, i) = {}
  BY DEF ParentIds
<1> QED
  BY <1>1, <1>2, <1>3, <1>4

LEMMA ParentsById ==
  ASSUME NEW home \in [Tags -> Groups], NEW rows, HasHome(home, rows), NEW i \in DOMAIN rows
  PROVE  Parents(i, rows[i]) = ParentIds(home, i)
BY DEF HasHome, Parents, ParentIds

LEMMA RootedRows ==
  ASSUME NEW home \in [Tags -> Groups], NEW rows, HasHome(home, rows)
  PROVE  /\ ParentsIn(rows) = UNION {ParentIds(home, i) : i \in DOMAIN rows}
         /\ ParentsIn(rows) \subseteq DOMAIN rows <=> Rooted(home, DOMAIN rows)
<1>1. \A i \in DOMAIN rows : Parents(i, rows[i]) = ParentIds(home, i)
  BY ParentsById
<1>2. \A x : x \in ParentsIn(rows) <=> \E i \in DOMAIN rows : x \in ParentIds(home, i)
  BY <1>1 DEF ParentsIn
<1> QED
  BY <1>2 DEF Rooted

LEMMA AfterHasHome ==
  ASSUME NEW home, NEW rows, HasHome(home, rows), NEW c, ChangesHaveHome(home, c)
  PROVE  HasHome(home, After(rows, c))
BY DEF HasHome, ChangesHaveHome, After

(* What After holds, row by row. *)
LEMMA AfterRows ==
  ASSUME NEW rows, NEW c
  PROVE  /\ DOMAIN After(rows, c) = (DOMAIN rows \cup DOMAIN c.ins) \ c.del
         /\ \A i \in DOMAIN After(rows, c) :
              /\ i \in DOMAIN c.ins => After(rows, c)[i] = c.ins[i]
              /\ i \notin DOMAIN c.ins /\ i \in DOMAIN c.upd => After(rows, c)[i] = c.upd[i]
              /\ i \notin DOMAIN c.ins /\ i \notin DOMAIN c.upd => After(rows, c)[i] = rows[i]
BY DEF After

LEMMA AfterNothing ==
  ASSUME NEW rows, NEW c, Touched(c) = {}
  PROVE  /\ DOMAIN After(rows, c) = DOMAIN rows
         /\ \A i \in DOMAIN rows : After(rows, c)[i] = rows[i]
         /\ Sound(rows) => Sound(After(rows, c))
<1>1. DOMAIN c.ins = {} /\ DOMAIN c.upd = {} /\ c.del = {}
  BY DEF Touched
<1>2. DOMAIN After(rows, c) = DOMAIN rows
  BY <1>1 DEF After
<1>3. \A i \in DOMAIN rows : After(rows, c)[i] = rows[i]
  BY <1>1 DEF After
<1>4. ParentsIn(After(rows, c)) = ParentsIn(rows)
  <2>1. \A x : x \in ParentsIn(After(rows, c)) <=> x \in ParentsIn(rows)
    BY <1>2, <1>3 DEF ParentsIn
  <2> QED
    BY <2>1
<1>5. Distinct(rows) => Distinct(After(rows, c))
  BY <1>2, <1>3 DEF Distinct
<1> QED
  BY <1>2, <1>3, <1>4, <1>5 DEF Sound

-----------------------------------------------------------------------------
(* What a statement does to sound rows, and what a commit does to those that
   another transaction sees. *)

(* A unit of work does not delete what it inserts a child of, and updates
   one row at most, next to links. *)
Plain(c) ==
  /\ DOMAIN c.ins # {} => c.del \subseteq Links \cup Values
  /\ DOMAIN c.upd # {} => DOMAIN c.ins \subseteq Links
  /\ \A i, j \in DOMAIN c.upd : i = j

Closed(home, D, S) == \A i \in D : ParentIds(home, i) \cap S # {} => i \in S

(* A flush that PostgreSQL accepts leaves what its transaction sees sound. *)
LEMMA FlushIsSound ==
  ASSUME NEW home \in [Tags -> Groups], NEW rows, HasHome(home, rows), Sound(rows),
         NEW c, ChangesHaveHome(home, c), Plain(c), Closed(home, DOMAIN rows, c.del), ~Violates(rows, c)
  PROVE  Sound(After(rows, c))
<1> DEFINE new == After(rows, c)
<1>1. DOMAIN new = (DOMAIN rows \cup DOMAIN c.ins) \ c.del
  BY DEF After
<1>2. \A i \in DOMAIN new :
        /\ i \in DOMAIN c.ins => new[i] = c.ins[i]
        /\ i \notin DOMAIN c.ins /\ i \in DOMAIN c.upd => new[i] = c.upd[i]
        /\ i \notin DOMAIN c.ins /\ i \notin DOMAIN c.upd => new[i] = rows[i]
  BY DEF After
<1>3. HasHome(home, new)
  BY AfterHasHome, Zenon
<1> HIDE DEF new
<1>4. Rooted(home, DOMAIN rows)
  BY RootedRows, Zenon DEF Sound
<1>5. \A i \in DOMAIN c.ins : ParentIds(home, i) \subseteq DOMAIN rows \cup DOMAIN c.ins
  <2>1. ParentsIn(c.ins) = UNION {ParentIds(home, i) : i \in DOMAIN c.ins}
    BY RootedRows, Zenon DEF ChangesHaveHome
  <2>2. ParentsIn(c.ins) \subseteq DOMAIN rows \cup DOMAIN c.ins
    BY DEF Violates
  <2> QED
    BY <2>1, <2>2
<1>6. Rooted(home, DOMAIN new)
  <2> SUFFICES ASSUME NEW i \in DOMAIN new, NEW x \in ParentIds(home, i) PROVE x \in DOMAIN new
    BY DEF Rooted
  <2>1. x \notin Links \cup Values
    BY ParentKinds, Zenon
  <2>2. CASE i \in DOMAIN c.ins
    BY <1>1, <1>5, <2>1, <2>2 DEF Plain
  <2>3. CASE i \notin DOMAIN c.ins
    BY <1>1, <1>4, <2>3 DEF Rooted, Closed
  <2> QED
    BY <2>2, <2>3
<1>7. Distinct(new)
  <2>1. \A i \in Links : \A row : Unique(i, row) = {}
    BY DEF Unique
  <2>2. \A i \in DOMAIN rows \ Touched(c) : Unique(i, rows[i]) \subseteq UniqueIn(RowsIn(rows, DOMAIN rows \ Touched(c)))
    BY DEF UniqueIn, RowsIn
  <2>3. /\ \A i \in DOMAIN c.ins : Unique(i, c.ins[i]) \subseteq UniqueIn(c.ins)
        /\ \A i \in DOMAIN c.upd : Unique(i, c.upd[i]) \subseteq UniqueIn(c.upd)
    BY DEF UniqueIn
  <2>4. /\ (UniqueIn(c.ins) \cup UniqueIn(c.upd)) \cap UniqueIn(RowsIn(rows, DOMAIN rows \ Touched(c))) = {}
        /\ \A i, j \in DOMAIN c.ins : i # j => Unique(i, c.ins[i]) \cap Unique(j, c.ins[j]) = {}
    BY DEF Violates
  <2> SUFFICES ASSUME NEW i \in DOMAIN new, NEW j \in DOMAIN new, i # j
               PROVE  Unique(i, new[i]) \cap Unique(j, new[j]) = {}
    BY DEF Distinct
  <2>5. \A k \in DOMAIN new : k \notin DOMAIN c.ins /\ k \notin DOMAIN c.upd => k \in DOMAIN rows \ Touched(c)
    BY <1>1 DEF Touched
  <2>6. CASE i \notin DOMAIN c.ins /\ i \notin DOMAIN c.upd
    <3>1. CASE j \notin DOMAIN c.ins /\ j \notin DOMAIN c.upd
      <4>1. new[i] = rows[i] /\ new[j] = rows[j] /\ i \in DOMAIN rows /\ j \in DOMAIN rows
        BY <1>2, <2>5, <2>6, <3>1
      <4> QED
        BY <4>1 DEF Sound, Distinct
    <3>2. CASE j \in DOMAIN c.ins
      BY <1>2, <2>2, <2>3, <2>4, <2>5, <2>6, <3>2
    <3>3. CASE j \notin DOMAIN c.ins /\ j \in DOMAIN c.upd
      BY <1>2, <2>2, <2>3, <2>4, <2>5, <2>6, <3>3
    <3> QED
      BY <3>1, <3>2, <3>3
  <2>7. CASE i \in DOMAIN c.ins
    <3>1. CASE j \notin DOMAIN c.ins /\ j \notin DOMAIN c.upd
      BY <1>2, <2>2, <2>3, <2>4, <2>5, <2>7, <3>1
    <3>2. CASE j \in DOMAIN c.ins
      BY <1>2, <2>4, <2>7, <3>2
    <3>3. CASE j \notin DOMAIN c.ins /\ j \in DOMAIN c.upd
      <4>1. i \in Links
        BY <2>7, <3>3 DEF Plain
      <4> QED
        BY <2>1, <4>1
    <3> QED
      BY <3>1, <3>2, <3>3
  <2>8. CASE i \notin DOMAIN c.ins /\ i \in DOMAIN c.upd
    <3>1. CASE j \notin DOMAIN c.ins /\ j \notin DOMAIN c.upd
      BY <1>2, <2>2, <2>3, <2>4, <2>5, <2>8, <3>1
    <3>2. CASE j \in DOMAIN c.ins
      <4>1. j \in Links
        BY <2>8, <3>2 DEF Plain
      <4> QED
        BY <2>1, <4>1
    <3>3. CASE j \notin DOMAIN c.ins /\ j \in DOMAIN c.upd
      BY <2>8, <3>3 DEF Plain
    <3> QED
      BY <3>1, <3>2, <3>3
  <2> QED
    BY <2>6, <2>7, <2>8
<1>8. ParentsIn(new) \subseteq DOMAIN new
  BY <1>3, <1>6, RootedRows, Zenon
<1> QED
  BY <1>7, <1>8 DEF Sound, new

(* Two open transactions that neither waited for the other. *)
Apart(a, b) ==
  /\ Touched(a) \cap Touched(b) = {}
  /\ ParentsIn(a.ins) \cap b.del = {} /\ ParentsIn(b.ins) \cap a.del = {}
  /\ (UniqueIn(a.ins) \cup UniqueIn(a.upd)) \cap (UniqueIn(b.ins) \cup UniqueIn(b.upd)) = {}

(* What b sees stays sound when a, which it did not wait for, commits. *)
LEMMA CommitIsSound ==
  ASSUME NEW home \in [Tags -> Groups], NEW rows, NEW a, NEW b,
         HasHome(home, rows), ChangesHaveHome(home, a), ChangesHaveHome(home, b),
         Sound(rows), Sound(After(rows, a)), Sound(After(rows, b)), Apart(a, b)
  PROVE  Sound(After(After(rows, a), b))
<1> DEFINE ra == After(rows, a)
           rb == After(rows, b)
           new == After(ra, b)
<1>1. /\ DOMAIN ra = (DOMAIN rows \cup DOMAIN a.ins) \ a.del
      /\ DOMAIN rb = (DOMAIN rows \cup DOMAIN b.ins) \ b.del
      /\ DOMAIN new = (DOMAIN ra \cup DOMAIN b.ins) \ b.del
  BY DEF After
<1>2. \A i \in DOMAIN ra : i \notin DOMAIN a.ins /\ i \notin DOMAIN a.upd => ra[i] = rows[i]
  BY DEF After
<1>3. \A i \in DOMAIN new : i \in DOMAIN b.ins \/ i \in DOMAIN b.upd => i \in DOMAIN rb /\ new[i] = rb[i]
  <2>1. \A i \in DOMAIN rb :
          /\ i \in DOMAIN b.ins => rb[i] = b.ins[i]
          /\ i \notin DOMAIN b.ins /\ i \in DOMAIN b.upd => rb[i] = b.upd[i]
    BY DEF After
  <2>2. \A i \in DOMAIN new :
          /\ i \in DOMAIN b.ins => new[i] = b.ins[i]
          /\ i \notin DOMAIN b.ins /\ i \in DOMAIN b.upd => new[i] = b.upd[i]
    BY DEF After
  <2>3. Touched(a) \cap Touched(b) = {}
    BY DEF Apart
  <2> QED
    BY <1>1, <2>1, <2>2, <2>3 DEF Touched
<1>4. \A i \in DOMAIN new : i \notin DOMAIN b.ins /\ i \notin DOMAIN b.upd => i \in DOMAIN ra /\ new[i] = ra[i]
  BY <1>1 DEF After
<1>5. HasHome(home, ra) /\ HasHome(home, rb)
  BY AfterHasHome, Zenon
<1>6. HasHome(home, new)
  BY <1>5, AfterHasHome, Zenon
<1>7. Rooted(home, DOMAIN ra) /\ Rooted(home, DOMAIN rb)
  BY <1>5, RootedRows, Zenon DEF Sound
<1>8. /\ \A i \in DOMAIN a.ins : ParentIds(home, i) \cap b.del = {}
      /\ \A i \in DOMAIN b.ins : ParentIds(home, i) \cap a.del = {}
  <2>1. /\ ParentsIn(a.ins) = UNION {ParentIds(home, i) : i \in DOMAIN a.ins}
        /\ ParentsIn(b.ins) = UNION {ParentIds(home, i) : i \in DOMAIN b.ins}
    BY RootedRows, Zenon DEF ChangesHaveHome
  <2>2. ParentsIn(a.ins) \cap b.del = {} /\ ParentsIn(b.ins) \cap a.del = {}
    BY DEF Apart
  <2> QED
    BY <2>1, <2>2
<1>9. Touched(a) \cap Touched(b) = {}
  BY DEF Apart
<1>10. /\ \A i \in DOMAIN ra : i \in DOMAIN a.ins \/ i \in DOMAIN a.upd =>
            Unique(i, ra[i]) \subseteq UniqueIn(a.ins) \cup UniqueIn(a.upd)
       /\ \A i \in DOMAIN rb : i \in DOMAIN b.ins \/ i \in DOMAIN b.upd =>
            Unique(i, rb[i]) \subseteq UniqueIn(b.ins) \cup UniqueIn(b.upd)
  BY DEF After, UniqueIn
<1>11. (UniqueIn(a.ins) \cup UniqueIn(a.upd)) \cap (UniqueIn(b.ins) \cup UniqueIn(b.upd)) = {}
  BY DEF Apart
<1>12. Distinct(ra) /\ Distinct(rb)
  BY DEF Sound
<1>13. \A i \in DOMAIN new : i \notin DOMAIN a.ins /\ i \notin DOMAIN a.upd => i \in DOMAIN rb /\ new[i] = rb[i]
  <2>1. \A i \in DOMAIN rb : i \notin DOMAIN b.ins /\ i \notin DOMAIN b.upd => rb[i] = rows[i]
    BY DEF After
  <2> QED
    BY <1>1, <1>2, <1>3, <1>4, <2>1
<1> HIDE DEF ra, rb, new
<1>14. Rooted(home, DOMAIN new)
  <2> SUFFICES ASSUME NEW i \in DOMAIN new, NEW x \in ParentIds(home, i) PROVE x \in DOMAIN new
    BY DEF Rooted
  <2>1. CASE i \in DOMAIN b.ins
    BY <1>1, <1>7, <1>8, <2>1 DEF Rooted
  <2>2. CASE i \notin DOMAIN b.ins /\ i \in DOMAIN a.ins
    BY <1>1, <1>7, <1>8, <2>2 DEF Rooted
  <2>3. CASE i \notin DOMAIN b.ins /\ i \notin DOMAIN a.ins
    BY <1>1, <1>7, <2>3 DEF Rooted
  <2> QED
    BY <2>1, <2>2, <2>3
<1>15. ParentsIn(new) \subseteq DOMAIN new
  BY <1>6, <1>14, RootedRows, Zenon
<1>16. Distinct(new)
  <2>1. \A i \in DOMAIN new : \/ i \notin DOMAIN a.ins /\ i \notin DOMAIN a.upd
                              \/ i \notin DOMAIN b.ins /\ i \notin DOMAIN b.upd
    BY <1>9 DEF Touched
  <2> SUFFICES ASSUME NEW i \in DOMAIN new, NEW j \in DOMAIN new, i # j
               PROVE  Unique(i, new[i]) \cap Unique(j, new[j]) = {}
    BY DEF Distinct
  <2>2. CASE /\ i \notin DOMAIN b.ins /\ i \notin DOMAIN b.upd
             /\ j \notin DOMAIN b.ins /\ j \notin DOMAIN b.upd
    BY <1>4, <1>12, <2>2 DEF Distinct
  <2>3. CASE /\ i \notin DOMAIN a.ins /\ i \notin DOMAIN a.upd
             /\ j \notin DOMAIN a.ins /\ j \notin DOMAIN a.upd
    BY <1>12, <1>13, <2>3 DEF Distinct
  <2>4. CASE (i \in DOMAIN a.ins \/ i \in DOMAIN a.upd) /\ (j \in DOMAIN b.ins \/ j \in DOMAIN b.upd)
    BY <1>3, <1>4, <1>10, <1>11, <2>1, <2>4
  <2>5. CASE (j \in DOMAIN a.ins \/ j \in DOMAIN a.upd) /\ (i \in DOMAIN b.ins \/ i \in DOMAIN b.upd)
    BY <1>3, <1>4, <1>10, <1>11, <2>1, <2>5
  <2> QED
    BY <2>1, <2>2, <2>3, <2>4, <2>5
<1> QED
  BY <1>15, <1>16 DEF Sound, new, ra

(* Deleting rows with all that refers to them leaves nothing that does. *)
LEMMA CascadeIsClosed ==
  ASSUME NEW home \in [Tags -> Groups], NEW r \in Requests, NEW S,
         HasHome(home, db), ChangesHaveHome(home, tx[r])
  PROVE  /\ Closed(home, DOMAIN Sees(r), Cascade(r, S) \cap DOMAIN Sees(r))
         /\ S \subseteq Links \cup Values => Cascade(r, S) = S
<1> DEFINE D == DOMAIN Sees(r)
           near == S \cup Children(r, S)
<1>1. \A i \in D : Parents(i, IF i \in DOMAIN db THEN db[i] ELSE tx[r].ins[i]) = ParentIds(home, i)
  <2>1. \A i \in D : i \in DOMAIN db \/ i \in DOMAIN tx[r].ins
    BY DEF Sees, After
  <2>2. /\ \A i \in DOMAIN db : Parents(i, db[i]) = ParentIds(home, i)
        /\ \A i \in DOMAIN tx[r].ins : Parents(i, tx[r].ins[i]) = ParentIds(home, i)
    BY DEF HasHome, ChangesHaveHome, Parents, ParentIds
  <2> QED
    BY <2>1, <2>2
<1>2. \A T : Children(r, T) = {i \in D : ParentIds(home, i) \cap T # {}}
  BY <1>1 DEF Children
<1>3. Cascade(r, S) = near \cup Children(r, near)
  BY DEF Cascade
<1> HIDE DEF D, near
<1>4. ASSUME NEW i \in D, ParentIds(home, i) \cap (Cascade(r, S) \cap D) # {}
      PROVE  i \in Cascade(r, S)
  <2>1. PICK j \in ParentIds(home, i) : j \in Cascade(r, S) /\ j \in D
    BY <1>4
  <2>2. CASE j \in near
    BY <1>2, <1>3, <2>1, <2>2
  <2>3. CASE j \notin near
    <3>1. PICK k \in ParentIds(home, j) : k \in near
      BY <1>2, <1>3, <2>1, <2>3
    <3>2. j \in Tags /\ k \in Groups
      BY <2>1, <3>1 DEF ParentIds, Links, Values
    <3>3. k \in S
      BY <1>2, <3>1, <3>2 DEF near, ParentIds
    <3> QED
      BY <1>2, <2>1, <2>3, <3>1, <3>3 DEF near
  <2> QED
    BY <2>2, <2>3
<1>5. S \subseteq Links \cup Values => Cascade(r, S) = S
  <2> SUFFICES ASSUME S \subseteq Links \cup Values PROVE Cascade(r, S) = S
    OBVIOUS
  <2>1. \A i \in D : ParentIds(home, i) \cap S = {}
    BY DEF ParentIds, Links, Values
  <2>2. Children(r, S) = {}
    BY <1>2, <2>1
  <2>3. near = S
    BY <2>2 DEF near
  <2> QED
    BY <1>3, <2>2, <2>3
<1> QED
  BY <1>4, <1>5 DEF Closed, D

-----------------------------------------------------------------------------
(* What is always true of a request *)

Shapes ==
  /\ DOMAIN tx = Requests /\ DOMAIN work = Requests
  /\ DOMAIN got = Requests /\ DOMAIN list = Requests

(* The rows it has changed, is about to change or remembers. *)
Drawn(c) == DOMAIN c.ins \cup (Tags \cap DOMAIN c.upd) \subseteq used
RowsOf(home, r) ==
  /\ ChangesHaveHome(home, tx[r]) /\ Drawn(tx[r])
  /\ ChangesHaveHome(home, work[r]) /\ Drawn(work[r])
  /\ \A i \in DOMAIN got[r] : IsRow(i, got[r][i])

InsertsOnly(c) == DOMAIN c.upd = {} /\ c.del = {}

(* A handler flushes what it changes before its next read; only a reader of
   snapshots has something left for the commit. *)
Quiet(r) == at[r] # "flush" /\ ~Reading(r) => work[r] = NoChanges

Reads(r) ==
  Reading(r) =>
    /\ DOMAIN work[r].ins = {} /\ DOMAIN work[r].upd = {} /\ work[r].del \subseteq Values
    /\ at[r] # "commit" => Touched(tx[r]) = {}
    /\ at[r] = "flush" => next[r] = "commit"
    /\ list[r] \in Seq(Snapshots)
    /\ at[r] \in {"load", "page"} => list[r] # <<>>

Imports(r) ==
  Call(r).op = "bulk_import" =>
    /\ InsertsOnly(work[r]) /\ DOMAIN work[r].ins \subseteq Groups \cup Tags
    /\ InsertsOnly(tx[r]) /\ DOMAIN tx[r].ins \subseteq Groups \cup Tags
    /\ DOMAIN got[r] \subseteq Groups
    /\ at[r] = "check" => Mapped(r, Task(r).group) # {}
    /\ at[r] = "flush" => next[r] \in {"group", "task"}

Captures(r) ==
  Call(r).op = "create_snapshot" =>
    /\ InsertsOnly(work[r]) /\ InsertsOnly(tx[r])
    /\ DOMAIN got[r] \subseteq PVs
    /\ list[r] \in Seq(Snapshots)
    /\ at[r] \in {"flush", "values", "commitNow", "bulk"} => list[r] # <<>>
    /\ at[r] \notin {"answer", "commit"} => DOMAIN tx[r].ins \subseteq Snapshots
    /\ at[r] = "bulk" => DOMAIN tx[r].ins = {}
    /\ at[r] = "flush" =>
         /\ next[r] \in {"values", "commitNow", "answer"}
         /\ next[r] # "answer" => DOMAIN work[r].ins \subseteq Snapshots

(* Every other handler flushes once. *)
Single(r) == ~Reading(r) /\ Call(r).op \notin {"bulk_import", "create_snapshot"}
Writes(r) ==
  Single(r) =>
    /\ at[r] \notin {"reload", "answer", "commit"} => Touched(tx[r]) = {}
    /\ at[r] = "flush" => next[r] \in {"reload", "answer"}
    /\ Call(r).op = "update_pv" /\ at[r] = "tags" => Call(r).pv \in DOMAIN got[r]

Control(r) == Quiet(r) /\ Reads(r) /\ Imports(r) /\ Captures(r) /\ Writes(r) /\ Plain(work[r])

Legal(home) ==
  /\ TypeOK /\ Shapes
  /\ HasHome(home, db)
  /\ \A r \in Requests : RowsOf(home, r) /\ Control(r)

-----------------------------------------------------------------------------
(* Steps of one request, by what they do *)

Changed(r) ==
  /\ \A o \in Requests \ {r} :
       /\ at'[o] = at[o] /\ next'[o] = next[o] /\ tx'[o] = tx[o]
       /\ work'[o] = work[o] /\ got'[o] = got[o] /\ list'[o] = list[o]
  /\ scenario' = scenario /\ used \subseteq used'

(* A step of one request leaves the others legal. *)
LEMMA OthersStay ==
  ASSUME NEW home, Legal(home), NEW r \in Requests, Changed(r), TypeOK', Shapes',
         HasHome(home, db)', RowsOf(home, r)', Control(r)'
  PROVE  Legal(home)'
<1> SUFFICES ASSUME NEW o \in Requests \ {r} PROVE RowsOf(home, o)' /\ Control(o)'
  BY DEF Legal
<1>1. /\ at'[o] = at[o] /\ next'[o] = next[o] /\ tx'[o] = tx[o]
      /\ work'[o] = work[o] /\ got'[o] = got[o] /\ list'[o] = list[o]
      /\ scenario' = scenario /\ used \subseteq used'
  BY DEF Changed
<1>2. RowsOf(home, o) /\ Control(o)
  BY DEF Legal
<1>3. RowsOf(home, o)'
  BY <1>1, <1>2 DEF RowsOf, Drawn
<1>4. Call(o)' = Call(o) /\ (Reading(o)' <=> Reading(o)) /\ (Single(o)' <=> Single(o))
  BY <1>1 DEF Call, Reading, Single
<1>5. Quiet(o)' /\ Plain(work[o])'
  BY <1>1, <1>2, <1>4 DEF Control, Quiet
<1>6. Reads(o)'
  BY <1>1, <1>2, <1>4 DEF Control, Reads
<1>7. Imports(o)'
  <2>1. Mapped(o, Task(o).group)' = Mapped(o, Task(o).group)
    BY <1>1 DEF Mapped, Task
  <2> QED
    BY <1>1, <1>2, <1>4, <2>1 DEF Control, Imports
<1>8. Captures(o)'
  BY <1>1, <1>2, <1>4 DEF Control, Captures
<1>9. Writes(o)'
  BY <1>1, <1>2, <1>4 DEF Control, Writes
<1> QED
  BY <1>3, <1>5, <1>6, <1>7, <1>8, <1>9 DEF Control

(* A handler goes on without a flush; it may read something. *)
LEMMA Moving ==
  ASSUME NEW home, Legal(home), NEW r \in Requests, Changed(r), TypeOK', Shapes',
         UNCHANGED <<db, used, tx, work>>,
         at[r] \notin {"flush", "commit"}, at'[r] \notin {"flush", "commit"},
         at[r] \in {"reload", "answer"} => at'[r] = "answer",
         \A i \in DOMAIN got'[r] : IsRow(i, got'[r][i]),
         Reading(r) => list'[r] \in Seq(Snapshots) /\ (at'[r] \in {"load", "page"} => list'[r] # <<>>),
         Call(r).op = "bulk_import" =>
           DOMAIN got'[r] \subseteq Groups /\ (at'[r] = "check" => Mapped(r, Task(r).group)' # {}),
         Call(r).op = "create_snapshot" =>
           /\ DOMAIN got'[r] \subseteq PVs /\ list'[r] \in Seq(Snapshots)
           /\ at'[r] \notin {"values", "commitNow", "bulk"},
         Call(r).op = "update_pv" /\ at'[r] = "tags" => Call(r).pv \in DOMAIN got'[r]
  PROVE  Legal(home)'
<1>1. RowsOf(home, r) /\ Control(r)
  BY DEF Legal
<1>2. HasHome(home, db)' /\ RowsOf(home, r)'
  BY <1>1 DEF Legal, RowsOf, Drawn
<1>3. Call(r)' = Call(r) /\ (Reading(r)' <=> Reading(r)) /\ (Single(r)' <=> Single(r))
  BY DEF Changed, Call, Reading, Single
<1>4. Quiet(r)' /\ Plain(work[r])'
  BY <1>1, <1>3 DEF Control, Quiet
<1>5. Reads(r)'
  BY <1>1, <1>3 DEF Control, Reads
<1>6. Imports(r)'
  BY <1>1, <1>3 DEF Control, Imports
<1>7. Captures(r)'
  BY <1>1, <1>3 DEF Control, Captures
<1>8. Writes(r)'
  BY <1>1, <1>3 DEF Control, Writes
<1> QED
  BY <1>2, <1>4, <1>5, <1>6, <1>7, <1>8, OthersStay, Zenon DEF Control

LEMMA Going ==
  ASSUME NEW home, Legal(home), NEW r \in Requests, NEW l \in Labels, Goto(r, l),
         at[r] \notin {"flush", "commit"}, l \notin {"flush", "commit"},
         at[r] \in {"reload", "answer"} => l = "answer",
         Reading(r) => l \notin {"load", "page"},
         Call(r).op = "bulk_import" /\ l = "check" => Mapped(r, Task(r).group) # {},
         Call(r).op = "create_snapshot" => l \notin {"values", "commitNow", "bulk"},
         Call(r).op = "update_pv" => l # "tags"
  PROVE  Legal(home)'
<1>1. RowsOf(home, r) /\ Control(r)
  BY DEF Legal
<1>2. /\ at' = [at EXCEPT ![r] = l]
      /\ UNCHANGED <<scenario, db, used, tx, work, next, status, stored, broken, got, list, heard>>
  BY DEF Goto, memory
<1>3. at'[r] = l /\ \A o \in Requests \ {r} : at'[o] = at[o]
  BY <1>2 DEF Legal, TypeOK
<1>4. Changed(r)
  BY <1>2, <1>3 DEF Changed
<1>5. TypeOK' /\ Shapes'
  BY <1>2 DEF Legal, TypeOK, Shapes
<1>6. \A i \in DOMAIN got'[r] : IsRow(i, got'[r][i])
  BY <1>1, <1>2 DEF RowsOf
<1>7. Reading(r) => list'[r] \in Seq(Snapshots)
  BY <1>1, <1>2 DEF Control, Reads
<1>8. Call(r).op = "bulk_import" =>
        DOMAIN got'[r] \subseteq Groups /\ (at'[r] = "check" => Mapped(r, Task(r).group)' # {})
  BY <1>1, <1>2, <1>3 DEF Control, Imports, Mapped, Task
<1>9. Call(r).op = "create_snapshot" => DOMAIN got'[r] \subseteq PVs /\ list'[r] \in Seq(Snapshots)
  BY <1>1, <1>2 DEF Control, Captures
<1> QED
  BY <1>2, <1>3, <1>4, <1>5, <1>6, <1>7, <1>8, <1>9, Moving

LEMMA Nothing ==
  /\ DOMAIN NoRows = {} /\ NoChanges.ins = NoRows /\ NoChanges.upd = NoRows /\ NoChanges.del = {}
  /\ IsChanges(NoChanges) /\ Touched(NoChanges) = {} /\ InsertsOnly(NoChanges) /\ Plain(NoChanges)
  /\ Drawn(NoChanges)
  /\ \A home : ChangesHaveHome(home, NoChanges)
BY DEF NoRows, NoChanges, IsChanges, Touched, InsertsOnly, Plain, Drawn, ChangesHaveHome, HasHome

(* A rollback: of a handler that fails, or after a flush that does. *)
RollsBackTo(r, l) ==
  /\ tx' = [tx EXCEPT ![r] = NoChanges] /\ work' = [work EXCEPT ![r] = NoChanges]
  /\ at' = [at EXCEPT ![r] = l]
  /\ status' \in [Requests -> {0, 200, 401, 404, 409, 500}] /\ broken' \in [Requests -> BOOLEAN]
  /\ UNCHANGED <<scenario, db, used, next, stored, got, list, heard>>

LEMMA RollingBack ==
  ASSUME NEW home, Legal(home), NEW r \in Requests, NEW l \in {"done", "integrity", "failed"},
         RollsBackTo(r, l)
  PROVE  Legal(home)'
<1>1. RowsOf(home, r) /\ Control(r)
  BY DEF Legal
<1>2. UNCHANGED <<scenario, db, used, next, stored, got, list, heard>>
  BY DEF RollsBackTo
<1>3. /\ at'[r] = l /\ tx'[r] = NoChanges /\ work'[r] = NoChanges
      /\ \A o \in Requests \ {r} : at'[o] = at[o] /\ tx'[o] = tx[o] /\ work'[o] = work[o]
  BY DEF RollsBackTo, Legal, TypeOK, Shapes
<1>4. Changed(r)
  BY <1>2, <1>3 DEF Changed
<1>5. TypeOK'
  <2>1. l \in Labels
    BY DEF Labels
  <2>2. \A o \in Requests : IsChanges(tx'[o]) /\ IsChanges(work'[o])
    BY <1>3, Nothing DEF Legal, TypeOK
  <2>3. /\ scenario' \in Scenarios /\ DOMAIN db' \subseteq used' /\ used' \subseteq Ids
        /\ next' \in [Requests -> Labels] /\ stored' \in [Requests -> BOOLEAN]
        /\ \A o \in Requests : DOMAIN got'[o] \subseteq Ids
    BY <1>2 DEF Legal, TypeOK
  <2>4. /\ at' \in [Requests -> Labels] /\ broken' \in [Requests -> BOOLEAN]
        /\ status' \in [Requests -> {0, 200, 401, 404, 409, 500}]
    BY <2>1 DEF RollsBackTo, Legal, TypeOK
  <2> QED
    BY <2>2, <2>3, <2>4 DEF TypeOK, IsChanges
<1>6. Shapes' /\ HasHome(home, db)' /\ RowsOf(home, r)'
  <2>1. Shapes' /\ HasHome(home, db)'
    BY <1>2 DEF RollsBackTo, Legal, Shapes
  <2>2. RowsOf(home, r)'
    BY <1>1, <1>2, <1>3, Nothing DEF RowsOf, Drawn
  <2> QED
    BY <2>1, <2>2
<1>7. Call(r)' = Call(r) /\ (Reading(r)' <=> Reading(r)) /\ (Single(r)' <=> Single(r))
  BY <1>2 DEF Call, Reading, Single
<1>8. Quiet(r)' /\ Plain(work[r])'
  BY <1>3, Nothing DEF Quiet
<1>9. Reads(r)'
  BY <1>1, <1>2, <1>3, <1>7, Nothing DEF Control, Reads
<1>10. Imports(r)'
  BY <1>1, <1>2, <1>3, <1>7, Nothing DEF Control, Imports
<1>11. Captures(r)'
  BY <1>1, <1>2, <1>3, <1>7, Nothing DEF Control, Captures
<1>12. Writes(r)'
  BY <1>1, <1>2, <1>3, <1>7, Nothing DEF Control, Writes
<1> QED
  BY <1>4, <1>5, <1>6, <1>8, <1>9, <1>10, <1>11, <1>12, OthersStay, Zenon DEF Control

LEMMA Failing ==
  ASSUME NEW home, Legal(home), NEW r \in Requests, NEW s \in {0, 200, 401, 404, 409, 500}, Fail(r, s)
  PROVE  Legal(home)'
<1>1. status' \in [Requests -> {0, 200, 401, 404, 409, 500}] /\ broken' \in [Requests -> BOOLEAN]
  BY DEF Legal, TypeOK, Fail
<1>2. RollsBackTo(r, "done")
  BY <1>1 DEF Fail, RollsBackTo, memory
<1> QED
  BY <1>2, RollingBack

LEMMA Keeping ==
  ASSUME NEW home, Legal(home), NEW r \in Requests, NEW l \in Labels, NEW rows, Keep(r, rows, l),
         at[r] \notin {"flush", "commit", "reload", "answer"}, l \notin {"flush", "commit", "load", "page"},
         DOMAIN rows \subseteq Ids, \A i \in DOMAIN rows : IsRow(i, rows[i]),
         Call(r).op # "bulk_import",
         Call(r).op = "create_snapshot" =>
           DOMAIN rows \subseteq PVs /\ l \notin {"values", "commitNow", "bulk"},
         Call(r).op = "update_pv" /\ l = "tags" => Call(r).pv \in DOMAIN rows
  PROVE  Legal(home)'
<1>1. Control(r)
  BY DEF Legal
<1>2. /\ at' = [at EXCEPT ![r] = l] /\ got' = [got EXCEPT ![r] = rows]
      /\ UNCHANGED <<scenario, db, used, tx, work, next, status, stored, broken, list, heard>>
  BY DEF Keep
<1>3. /\ at'[r] = l /\ got'[r] = rows
      /\ \A o \in Requests \ {r} : at'[o] = at[o] /\ got'[o] = got[o]
  BY <1>2 DEF Legal, TypeOK, Shapes
<1>4. Changed(r)
  BY <1>2, <1>3 DEF Changed
<1>5. TypeOK' /\ Shapes'
  BY <1>2, <1>3 DEF Legal, TypeOK, Shapes
<1>6. Reading(r) \/ Call(r).op = "create_snapshot" => list'[r] \in Seq(Snapshots)
  BY <1>1, <1>2 DEF Control, Reads, Captures
<1> QED
  BY <1>2, <1>3, <1>4, <1>5, <1>6, Moving

(* A handler has changed rows, and waits for the flush. *)
Flushable(r, c, l) ==
  /\ IsChanges(c) /\ Tags \cap DOMAIN c.upd \subseteq used /\ Plain(c)
  /\ l \in Labels /\ ~Reading(r)
  /\ Call(r).op = "bulk_import" =>
       /\ InsertsOnly(c) /\ DOMAIN c.ins \subseteq Groups \cup Tags
       /\ l \in {"group", "task"}
  /\ Call(r).op = "create_snapshot" =>
       /\ at[r] \notin {"answer", "commit"}
       /\ InsertsOnly(c) /\ l \in {"values", "commitNow", "answer"}
       /\ l # "answer" => DOMAIN c.ins \subseteq Snapshots
  /\ Single(r) => at[r] \notin {"reload", "answer", "commit"} /\ l \in {"reload", "answer"}

LEMMA Flushing ==
  ASSUME NEW home, Legal(home), NEW r \in Requests, NEW c, NEW l, Flush(r, c, l),
         Flushable(r, c, l), ChangesHaveHome(home, c), Shapes',
         \A o \in Requests \ {r} : got'[o] = got[o] /\ list'[o] = list[o],
         DOMAIN got'[r] \subseteq Ids, \A i \in DOMAIN got'[r] : IsRow(i, got'[r][i]),
         Call(r).op = "bulk_import" => DOMAIN got'[r] \subseteq Groups,
         Call(r).op = "create_snapshot" =>
           DOMAIN got'[r] \subseteq PVs /\ list'[r] \in Seq(Snapshots) /\ list'[r] # <<>>
  PROVE  Legal(home)'
<1>1. RowsOf(home, r) /\ Control(r)
  BY DEF Legal
<1>2. /\ at' = [at EXCEPT ![r] = "flush"] /\ next' = [next EXCEPT ![r] = l]
      /\ work' = [work EXCEPT ![r] = c] /\ used' = used \cup DOMAIN c.ins
      /\ UNCHANGED <<scenario, db, tx, status, stored, broken>>
  BY DEF Flush
<1>3. /\ at'[r] = "flush" /\ next'[r] = l /\ work'[r] = c
      /\ \A o \in Requests \ {r} : at'[o] = at[o] /\ next'[o] = next[o] /\ work'[o] = work[o]
  BY <1>2 DEF Legal, TypeOK, Shapes
<1>4. Changed(r)
  BY <1>2, <1>3 DEF Changed
<1>5. TypeOK'
  <2>1. \A o \in Requests : IsChanges(tx'[o]) /\ IsChanges(work'[o])
    BY <1>2, <1>3 DEF Legal, TypeOK, Flushable
  <2>2. /\ scenario' \in Scenarios /\ status' \in [Requests -> {0, 200, 401, 404, 409, 500}]
        /\ stored' \in [Requests -> BOOLEAN] /\ broken' \in [Requests -> BOOLEAN]
    BY <1>2 DEF Legal, TypeOK
  <2>3. DOMAIN db' \subseteq used' /\ used' \subseteq Ids
    BY <1>2 DEF Legal, TypeOK, Flushable, IsChanges
  <2>4. at' \in [Requests -> Labels] /\ next' \in [Requests -> Labels]
    BY <1>2 DEF Legal, TypeOK, Flushable, Labels
  <2>5. \A o \in Requests : DOMAIN got'[o] \subseteq Ids
    BY DEF Legal, TypeOK
  <2> QED
    BY <2>1, <2>2, <2>3, <2>4, <2>5 DEF TypeOK, IsChanges
<1>6. HasHome(home, db)' /\ RowsOf(home, r)'
  BY <1>1, <1>2, <1>3 DEF Legal, RowsOf, Drawn, Flushable
<1>7. Call(r)' = Call(r) /\ (Reading(r)' <=> Reading(r)) /\ (Single(r)' <=> Single(r))
  BY <1>2 DEF Call, Reading, Single
<1>8. Quiet(r)' /\ Plain(work[r])' /\ Reads(r)'
  BY <1>3, <1>7 DEF Quiet, Reads, Flushable
<1>9. Imports(r)'
  BY <1>1, <1>2, <1>3, <1>7 DEF Control, Imports, Flushable
<1>10. Captures(r)'
  BY <1>1, <1>2, <1>3, <1>7 DEF Control, Captures, Flushable
<1>11. Writes(r)'
  BY <1>1, <1>2, <1>3, <1>7 DEF Control, Writes, Flushable
<1> QED
  BY <1>4, <1>5, <1>6, <1>8, <1>9, <1>10, <1>11, OthersStay, Zenon DEF Control

LEMMA SingleFlush ==
  ASSUME NEW home, Legal(home), NEW r \in Requests, NEW c, NEW l, Flush(r, c, l), UNCHANGED memory,
         Single(r), at[r] \notin {"reload", "answer", "commit"}, l \in {"reload", "answer"},
         IsChanges(c), Tags \cap DOMAIN c.upd \subseteq used, Plain(c), ChangesHaveHome(home, c)
  PROVE  Legal(home)'
<1>1. l \in Labels
  BY DEF Labels
<1>2. Flushable(r, c, l)
  BY <1>1 DEF Flushable, Single
<1>3. got' = got /\ list' = list /\ Shapes'
  BY DEF memory, Legal, Shapes, Flush
<1>4. DOMAIN got[r] \subseteq Ids /\ \A i \in DOMAIN got[r] : IsRow(i, got[r][i])
  BY DEF Legal, TypeOK, RowsOf
<1> QED
  BY <1>2, <1>3, <1>4, Flushing DEF Single

(* The home of a tag that does not exist yet may be any group. *)
LEMMA NewHome ==
  ASSUME NEW home \in [Tags -> Groups], Legal(home), NEW t \in Tags \ used, NEW g \in Groups
  PROVE  /\ [home EXCEPT ![t] = g] \in [Tags -> Groups] /\ [home EXCEPT ![t] = g][t] = g
         /\ Legal([home EXCEPT ![t] = g])
<1> DEFINE h == [home EXCEPT ![t] = g]
<1>1. h \in [Tags -> Groups] /\ h[t] = g /\ \A i \in Tags : i # t => h[i] = home[i]
  OBVIOUS
<1> HIDE DEF h
<1>2. ASSUME NEW rows, HasHome(home, rows), t \notin DOMAIN rows PROVE HasHome(h, rows)
  BY <1>1, <1>2 DEF HasHome
<1>3. ASSUME NEW c, ChangesHaveHome(home, c), Drawn(c) PROVE ChangesHaveHome(h, c)
  BY <1>2, <1>3 DEF ChangesHaveHome, Drawn
<1>4. HasHome(h, db)
  BY <1>2 DEF Legal, TypeOK
<1>5. \A r \in Requests : RowsOf(h, r) /\ Control(r)
  BY <1>3 DEF Legal, RowsOf
<1>6. Legal(h)
  BY <1>4, <1>5 DEF Legal
<1> QED
  BY <1>1, <1>6 DEF h

LEMMA RowsSeen ==
  ASSUME NEW home, Legal(home), NEW r \in Requests
  PROVE  HasHome(home, Sees(r)) /\ DOMAIN Sees(r) \subseteq used /\ used \subseteq Ids
<1>1. HasHome(home, db) /\ ChangesHaveHome(home, tx[r]) /\ DOMAIN tx[r].ins \subseteq used
  BY DEF Legal, RowsOf, Drawn
<1>2. HasHome(home, Sees(r))
  BY <1>1, AfterHasHome, Zenon DEF Sees
<1>3. DOMAIN Sees(r) \subseteq DOMAIN db \cup DOMAIN tx[r].ins
  BY DEF Sees, After
<1> QED
  BY <1>1, <1>2, <1>3 DEF Legal, TypeOK

LEMMA Inserting ==
  ASSUME NEW home, NEW rows, DOMAIN rows \subseteq Ids, HasHome(home, rows)
  PROVE  /\ IsChanges(Insert(rows)) /\ ChangesHaveHome(home, Insert(rows))
         /\ Plain(Insert(rows)) /\ InsertsOnly(Insert(rows)) /\ Insert(rows).ins = rows
         /\ Tags \cap DOMAIN Insert(rows).upd \subseteq used
<1>1. /\ DOMAIN Insert(rows) = {"ins", "upd", "del"} /\ Insert(rows).ins = rows
      /\ Insert(rows).upd = NoRows /\ Insert(rows).del = {}
  BY DEF Insert, NoChanges
<1>2. DOMAIN NoRows = {}
  BY DEF NoRows
<1> HIDE DEF Insert
<1> QED
  BY <1>1, <1>2 DEF IsChanges, ChangesHaveHome, HasHome, Plain, InsertsOnly

LEMMA Updating ==
  ASSUME NEW home, NEW i \in Ids, NEW row, IsRow(i, row),
         i \in Tags => i \in used /\ row.group = home[i]
  PROVE  /\ IsChanges(Update(i, row)) /\ ChangesHaveHome(home, Update(i, row))
         /\ Plain(Update(i, row))
         /\ Tags \cap DOMAIN Update(i, row).upd \subseteq used
<1>1. /\ DOMAIN Update(i, row) = {"ins", "upd", "del"} /\ Update(i, row).ins = NoRows
      /\ Update(i, row).upd = Row(i, row) /\ Update(i, row).del = {}
  BY DEF Update, NoChanges
<1>2. DOMAIN NoRows = {}
  BY DEF NoRows
<1>3. DOMAIN Row(i, row) = {i} /\ Row(i, row)[i] = row
  BY DEF Row
<1> HIDE DEF Update, Row
<1> QED
  BY <1>1, <1>2, <1>3 DEF IsChanges, ChangesHaveHome, HasHome, Plain

LEMMA Deleting ==
  ASSUME NEW home, NEW S \in SUBSET Ids
  PROVE  /\ IsChanges(Delete(S)) /\ ChangesHaveHome(home, Delete(S)) /\ Plain(Delete(S))
         /\ Tags \cap DOMAIN Delete(S).upd \subseteq used
<1>1. /\ DOMAIN Delete(S) = {"ins", "upd", "del"} /\ Delete(S).ins = NoRows
      /\ Delete(S).upd = NoRows /\ Delete(S).del = S
  BY DEF Delete, NoChanges
<1>2. DOMAIN NoRows = {}
  BY DEF NoRows
<1> HIDE DEF Delete
<1> QED
  BY <1>1, <1>2 DEF IsChanges, ChangesHaveHome, HasHome, Plain

LEMMA CascadeIds ==
  ASSUME NEW home, Legal(home), NEW r \in Requests, NEW S \in SUBSET Ids
  PROVE  Cascade(r, S) \subseteq Ids
<1>1. \A T : Children(r, T) \subseteq Ids
  BY RowsSeen DEF Children
<1> QED
  BY <1>1 DEF Cascade

(* A new row under a new id. *)
LEMMA InsertsRow ==
  ASSUME NEW home, NEW i \in Ids, NEW row, IsRow(i, row), i \in Tags => row.group = home[i]
  PROVE  /\ IsChanges(Insert(Row(i, row))) /\ ChangesHaveHome(home, Insert(Row(i, row)))
         /\ Plain(Insert(Row(i, row))) /\ InsertsOnly(Insert(Row(i, row)))
         /\ DOMAIN Insert(Row(i, row)).ins = {i}
         /\ Tags \cap DOMAIN Insert(Row(i, row)).upd \subseteq used
<1>1. DOMAIN Row(i, row) = {i} /\ Row(i, row)[i] = row
  BY DEF Row
<1> HIDE DEF Row
<1>2. HasHome(home, Row(i, row))
  BY <1>1 DEF HasHome
<1> QED
  BY <1>1, <1>2, Inserting

LEMMA SingleInsert ==
  ASSUME NEW home, Legal(home), NEW r \in Requests, NEW i \in Ids, NEW row, NEW l,
         IsRow(i, row), i \in Tags => row.group = home[i],
         Flush(r, Insert(Row(i, row)), l), UNCHANGED memory,
         Single(r), at[r] \notin {"reload", "answer", "commit"}, l \in {"reload", "answer"}
  PROVE  Legal(home)'
<1>1. /\ IsChanges(Insert(Row(i, row))) /\ ChangesHaveHome(home, Insert(Row(i, row)))
      /\ Plain(Insert(Row(i, row))) /\ Tags \cap DOMAIN Insert(Row(i, row)).upd \subseteq used
  BY InsertsRow
<1> QED
  BY <1>1, SingleFlush

LEMMA SingleUpdate ==
  ASSUME NEW home, Legal(home), NEW r \in Requests, NEW i \in Ids, NEW row, NEW l,
         IsRow(i, row), i \in Tags => i \in used /\ row.group = home[i],
         Flush(r, Update(i, row), l), UNCHANGED memory,
         Single(r), at[r] \notin {"reload", "answer", "commit"}, l \in {"reload", "answer"}
  PROVE  Legal(home)'
<1>1. /\ IsChanges(Update(i, row)) /\ ChangesHaveHome(home, Update(i, row))
      /\ Plain(Update(i, row)) /\ Tags \cap DOMAIN Update(i, row).upd \subseteq used
  BY Updating
<1> QED
  BY <1>1, SingleFlush

LEMMA SingleDelete ==
  ASSUME NEW home, Legal(home), NEW r \in Requests, NEW S \in SUBSET Ids, NEW l,
         Flush(r, Delete(S), l), UNCHANGED memory,
         Single(r), at[r] \notin {"reload", "answer", "commit"}, l \in {"reload", "answer"}
  PROVE  Legal(home)'
<1>1. /\ IsChanges(Delete(S)) /\ ChangesHaveHome(home, Delete(S)) /\ Plain(Delete(S))
      /\ Tags \cap DOMAIN Delete(S).upd \subseteq used
  BY Deleting
<1> QED
  BY <1>1, SingleFlush

-----------------------------------------------------------------------------
(* The handlers *)

LEMMA Asked ==
  ASSUME NEW home, Legal(home), NEW r \in Requests
  PROVE  IsCall(Call(r))
BY ScenariosAssumption DEF Legal, TypeOK, Call

LEMMA GroupHandlers ==
  ASSUME NEW home \in [Tags -> Groups], Legal(home), NEW r \in Requests,
         \/ CreateGroup(r) \/ GetGroup(r) \/ RenameGroup(r) \/ RefreshGroup(r) \/ DeleteGroup(r)
  PROVE  Legal(home)'
<1> USE DEF At
<1>1. /\ Call(r).op \in {"create_group", "update_group", "delete_group"} => Single(r)
      /\ Call(r).op \in {"create_group", "update_group", "delete_group"} => ~Reading(r)
  BY DEF Single, Reading
<1>2. Call(r).op \in {"update_group", "delete_group"} => Call(r).group \in Groups
  BY Asked DEF IsCall
<1>3. Groups \subseteq Ids
  BY DEF Ids
<1>4. ASSUME NEW s \in {404, 409, 500}, Fail(r, s) PROVE Legal(home)'
  BY <1>4, Failing
<1>5. CASE CreateGroup(r)
  <2>1. CASE Fail(r, 500) \/ Fail(r, 409)
    BY <1>4, <2>1
  <2>2. CASE Left(Groups) /\ Flush(r, NewGroup(Call(r).name), "answer") /\ UNCHANGED memory
    <3> DEFINE g == Pick(Groups \ used)
               row == [name |-> Call(r).name]
    <3>1. g \in Groups
      BY <2>2 DEF Left, Pick
    <3>2. IsRow(g, row) /\ g \notin Tags
      BY <3>1 DEF IsRow, Values
    <3> HIDE DEF g, row
    <3>4. Flush(r, Insert(Row(g, row)), "answer") /\ UNCHANGED memory
      BY <2>2 DEF NewGroup, g, row
    <3>5. Single(r) /\ at[r] = "read"
      BY <1>1, <1>5 DEF CreateGroup
    <3> QED
      BY <1>3, <3>1, <3>2, <3>4, <3>5, SingleInsert
  <2> QED
    BY <1>5, <2>1, <2>2 DEF CreateGroup
<1>6. CASE GetGroup(r)
  <2>1. CASE Fail(r, 404)
    BY <1>4, <2>1
  <2>2. CASE Call(r).group \in DOMAIN Sees(r) /\ Keep(r, RowsIn(Sees(r), {Call(r).group}), "check")
    <3>1. /\ DOMAIN RowsIn(Sees(r), {Call(r).group}) \subseteq Ids
          /\ \A i \in DOMAIN RowsIn(Sees(r), {Call(r).group}) :
               IsRow(i, RowsIn(Sees(r), {Call(r).group})[i])
      BY RowsSeen DEF RowsIn, HasHome
    <3>2. at[r] = "read" /\ Call(r).op = "update_group" /\ "check" \in Labels
      BY <1>6 DEF GetGroup, Labels
    <3> QED
      BY <2>2, <3>1, <3>2, Keeping
  <2> QED
    BY <1>6, <2>1, <2>2 DEF GetGroup
<1>7. CASE RenameGroup(r)
  <2>1. CASE Fail(r, 500) \/ Fail(r, 409)
    BY <1>4, <2>1
  <2>2. CASE Goto(r, "reload")
    <3>1. at[r] = "check" /\ Call(r).op = "update_group" /\ "reload" \in Labels
      BY <1>7 DEF RenameGroup, Labels
    <3> QED
      BY <2>2, <3>1, Going
  <2>3. CASE Flush(r, Update(Call(r).group, [name |-> Call(r).name]), "answer") /\ UNCHANGED memory
    <3> DEFINE g == Call(r).group
               row == [name |-> Call(r).name]
    <3>1. at[r] = "check" /\ Call(r).op = "update_group" /\ Single(r)
      BY <1>1, <1>7 DEF RenameGroup
    <3>2. g \in Ids /\ IsRow(g, row) /\ g \notin Tags
      BY <1>2, <1>3, <3>1 DEF IsRow, Values
    <3> HIDE DEF g, row
    <3>3. Flush(r, Update(g, row), "answer") /\ UNCHANGED memory
      BY <2>3 DEF g, row
    <3> QED
      BY <3>1, <3>2, <3>3, SingleUpdate
  <2> QED
    BY <1>7, <2>1, <2>2, <2>3 DEF RenameGroup
<1>8. CASE RefreshGroup(r)
  <2>1. CASE Fail(r, 500)
    BY <1>4, <2>1
  <2>2. CASE Goto(r, "answer")
    <3>1. at[r] = "reload" /\ Call(r).op = "update_group" /\ "answer" \in Labels
      BY <1>8 DEF RefreshGroup, Labels
    <3> QED
      BY <2>2, <3>1, Going
  <2> QED
    BY <1>8, <2>1, <2>2 DEF RefreshGroup
<1>9. CASE DeleteGroup(r)
  <2>1. CASE Fail(r, 404)
    BY <1>4, <2>1
  <2>2. CASE Flush(r, Delete(Cascade(r, {Call(r).group})), "answer") /\ UNCHANGED memory
    <3>1. at[r] = "read" /\ Call(r).op = "delete_group" /\ Single(r)
      BY <1>1, <1>9 DEF DeleteGroup
    <3>2. Cascade(r, {Call(r).group}) \in SUBSET Ids
      BY <1>2, <1>3, <3>1, CascadeIds
    <3> QED
      BY <2>2, <3>1, <3>2, SingleDelete
  <2> QED
    BY <1>9, <2>1, <2>2 DEF DeleteGroup
<1> QED
  BY <1>5, <1>6, <1>7, <1>8, <1>9

LEMMA TagHandlers ==
  ASSUME NEW home \in [Tags -> Groups], Legal(home), NEW r \in Requests,
         GetGroupOfTag(r) \/ UpdateTag(r) \/ RefreshTag(r) \/ RemoveTag(r) \/ ReloadGroup(r)
  PROVE  Legal(home)'
<1> USE DEF At
<1>1. Call(r).op \in {"add_tag", "update_tag", "remove_tag"} => Single(r) /\ ~Reading(r)
  BY DEF Single, Reading
<1>2. Call(r).op \in {"update_tag", "remove_tag"} => Call(r).tag \in Tags
  BY Asked DEF IsCall
<1>3. Tags \subseteq Ids /\ Groups \subseteq Ids
  BY DEF Ids
<1>4. ASSUME NEW s \in {404, 409, 500}, Fail(r, s) PROVE Legal(home)'
  BY <1>4, Failing
<1>5. CASE GetGroupOfTag(r)
  <2>1. at[r] = "read" /\ Call(r).op = "add_tag" /\ "check" \in Labels
    BY <1>5 DEF GetGroupOfTag, Labels
  <2>2. CASE Fail(r, 404)
    BY <1>4, <2>2
  <2>3. CASE Goto(r, "check")
    BY <1>1, <2>1, <2>3, Going
  <2> QED
    BY <1>5, <2>2, <2>3 DEF GetGroupOfTag
<1>6. CASE UpdateTag(r)
  <2>1. at[r] = "read" /\ Call(r).op = "update_tag" /\ "check" \in Labels
    BY <1>6 DEF UpdateTag, Labels
  <2>2. CASE Fail(r, 404)
    BY <1>4, <2>2
  <2>3. CASE Goto(r, "check")
    BY <1>1, <2>1, <2>3, Going
  <2>4. CASE /\ GetTag(r)
             /\ Flush(r, Update(Call(r).tag, [Sees(r)[Call(r).tag] EXCEPT !.name = Call(r).name]), "reload")
             /\ UNCHANGED memory
    <3> DEFINE t == Call(r).tag
               row == [Sees(r)[t] EXCEPT !.name = Call(r).name]
    <3>1. t \in Tags /\ t \in DOMAIN Sees(r) /\ t \in used
      BY <1>2, <2>1, <2>4, RowsSeen DEF GetTag
    <3>2. IsRow(t, Sees(r)[t]) /\ Sees(r)[t].group = home[t]
      BY <3>1, RowsSeen DEF HasHome
    <3>3. IsRow(t, row) /\ row.group = home[t]
      BY <3>1, <3>2 DEF IsRow, Values
    <3>4. Flush(r, Update(t, row), "reload") /\ UNCHANGED memory
      BY <2>4
    <3> HIDE DEF t, row
    <3> QED
      BY <1>1, <1>3, <2>1, <3>1, <3>3, <3>4, SingleUpdate
  <2> QED
    BY <1>6, <2>2, <2>3, <2>4 DEF UpdateTag
<1>7. CASE RefreshTag(r)
  <2>1. at[r] = "check" /\ Call(r).op = "update_tag" /\ "reload" \in Labels
    BY <1>7 DEF RefreshTag, Labels
  <2>2. CASE Fail(r, 500)
    BY <1>4, <2>2
  <2>3. CASE Goto(r, "reload")
    BY <1>1, <2>1, <2>3, Going
  <2> QED
    BY <1>7, <2>2, <2>3 DEF RefreshTag
<1>8. CASE RemoveTag(r)
  <2>1. at[r] = "read" /\ Call(r).op = "remove_tag"
    BY <1>8 DEF RemoveTag
  <2>2. CASE Fail(r, 404)
    BY <1>4, <2>2
  <2>3. CASE Flush(r, Delete(Cascade(r, {Call(r).tag})), "reload") /\ UNCHANGED memory
    <3>1. Cascade(r, {Call(r).tag}) \in SUBSET Ids
      BY <1>2, <1>3, <2>1, CascadeIds
    <3> QED
      BY <1>1, <2>1, <2>3, <3>1, SingleDelete
  <2> QED
    BY <1>8, <2>2, <2>3 DEF RemoveTag
<1>9. CASE ReloadGroup(r)
  <2>1. at[r] = "reload" /\ Call(r).op \in {"add_tag", "update_tag", "remove_tag"} /\ "answer" \in Labels
    BY <1>9 DEF ReloadGroup, Labels
  <2>2. CASE Fail(r, 404)
    BY <1>4, <2>2
  <2>3. CASE Goto(r, "answer")
    BY <1>1, <2>1, <2>3, Going
  <2> QED
    BY <1>9, <2>2, <2>3 DEF ReloadGroup
<1> QED
  BY <1>5, <1>6, <1>7, <1>8, <1>9

LEMMA Continuing ==
  ASSUME NEW home, Legal(home), NEW r \in Requests, NEW tasks, Continue(r, tasks),
         Call(r).op = "bulk_import", at[r] \in {"check", "task", "group"}
  PROVE  Legal(home)'
<1>1. RowsOf(home, r) /\ Control(r)
  BY DEF Legal
<1>2. /\ at' = [at EXCEPT ![r] = "task"] /\ list' = [list EXCEPT ![r] = tasks]
      /\ UNCHANGED <<scenario, db, used, tx, work, next, status, stored, broken, got, heard>>
  BY DEF Continue
<1>3. at'[r] = "task" /\ \A o \in Requests \ {r} : at'[o] = at[o] /\ list'[o] = list[o]
  BY <1>2 DEF Legal, TypeOK, Shapes
<1>4. Changed(r)
  BY <1>2, <1>3 DEF Changed
<1>5. TypeOK' /\ Shapes'
  BY <1>2 DEF Legal, TypeOK, Shapes, Labels
<1>6. \A i \in DOMAIN got'[r] : IsRow(i, got'[r][i])
  BY <1>1, <1>2 DEF RowsOf
<1>7. ~Reading(r) /\ DOMAIN got'[r] \subseteq Groups
  BY <1>1, <1>2 DEF Reading, Control, Imports
<1> QED
  BY <1>2, <1>3, <1>4, <1>5, <1>6, <1>7, Moving

(* A new tag gives its id a home. *)
LEMMA NewTags ==
  ASSUME NEW home \in [Tags -> Groups], Legal(home), NEW r \in Requests,
         AddTag(r) \/ ImportAddsTag(r)
  PROVE  \E h \in [Tags -> Groups] : Legal(h)'
<1> USE DEF At
<1>1. /\ Call(r).op = "add_tag" => Single(r) /\ ~Reading(r) /\ Call(r).group \in Groups
      /\ Call(r).op = "bulk_import" => ~Single(r) /\ ~Reading(r)
  BY Asked DEF Single, Reading, IsCall
<1>2. Left(Tags) => Pick(Tags \ used) \in Tags \ used
  BY DEF Left, Pick
<1>3. RowsOf(home, r) /\ Control(r) /\ DOMAIN got[r] \subseteq Ids /\ Tags \subseteq Ids
  BY DEF Legal, TypeOK, Ids
<1>4. CASE AddTag(r)
  <2>1. at[r] = "check" /\ Call(r).op = "add_tag" /\ "reload" \in Labels
    BY <1>4 DEF AddTag, Labels
  <2>2. CASE Fail(r, 409) \/ Fail(r, 500)
    BY <2>2, Failing
  <2>3. CASE Goto(r, "reload")
    BY <1>1, <2>1, <2>3, Going
  <2>4. CASE Left(Tags) /\ Flush(r, NewTag(Call(r).group, Call(r).name), "reload") /\ UNCHANGED memory
    <3> DEFINE t == Pick(Tags \ used)
               g == Call(r).group
               row == [name |-> Call(r).name, group |-> g]
    <3>1. t \in Tags \ used /\ g \in Groups
      BY <1>1, <1>2, <2>1, <2>4
    <3>2. Flush(r, Insert(Row(t, row)), "reload") /\ UNCHANGED memory
      BY <2>4 DEF NewTag
    <3>3. IsRow(t, row) /\ row.group = g
      BY <3>1 DEF IsRow, Values
    <3> HIDE DEF t, g, row
    <3>4. PICK h \in [Tags -> Groups] : h[t] = g /\ Legal(h)
      BY <3>1, NewHome
    <3>5. Legal(h)'
      BY <1>1, <1>3, <2>1, <3>1, <3>2, <3>3, <3>4, SingleInsert
    <3> QED
      BY <3>4, <3>5
  <2> QED
    BY <1>4, <2>2, <2>3, <2>4 DEF AddTag
<1>5. CASE ImportAddsTag(r)
  <2> DEFINE g == Pick(Mapped(r, Task(r).group))
  <2>1. at[r] = "check" /\ Call(r).op = "bulk_import" /\ "task" \in Labels
    BY <1>5 DEF ImportAddsTag, Labels
  <2>2. DOMAIN got[r] \subseteq Groups /\ g \in Groups
    BY <1>3, <2>1 DEF Control, Imports, Mapped, Pick
  <2>3. CASE Continue(r, Tail(list[r]))
    BY <2>1, <2>3, Continuing
  <2>4. CASE Left(Tags) /\ Flush(r, NewTag(g, Task(r).tag), "task") /\ Pop(r) /\ UNCHANGED <<got, heard>>
    <3> DEFINE t == Pick(Tags \ used)
               row == [name |-> Task(r).tag, group |-> g]
               c == Insert(Row(t, row))
    <3>1. t \in Tags \ used
      BY <1>2, <2>4
    <3>2. Flush(r, c, "task")
      BY <2>4 DEF NewTag
    <3>3. IsRow(t, row) /\ row.group = g
      BY <2>2, <3>1 DEF IsRow, Values
    <3>4. list' = [list EXCEPT ![r] = Tail(@)] /\ got' = got
      BY <2>4 DEF Pop
    <3> HIDE DEF t, g, row
    <3>5. PICK h \in [Tags -> Groups] : h[t] = g /\ Legal(h)
      BY <2>2, <3>1, NewHome
    <3>6. /\ IsChanges(c) /\ ChangesHaveHome(h, c) /\ Plain(c) /\ InsertsOnly(c) /\ DOMAIN c.ins = {t}
          /\ Tags \cap DOMAIN c.upd \subseteq used
      BY <1>3, <3>1, <3>3, <3>5, InsertsRow
    <3> HIDE DEF c
    <3>7. Flushable(r, c, "task")
      BY <1>1, <2>1, <3>1, <3>6 DEF Flushable
    <3>8. Shapes' /\ \A o \in Requests \ {r} : got'[o] = got[o] /\ list'[o] = list[o]
      BY <3>2, <3>4 DEF Legal, Shapes, Flush
    <3>9. DOMAIN got'[r] \subseteq Ids /\ \A i \in DOMAIN got'[r] : IsRow(i, got'[r][i])
      BY <1>3, <3>4 DEF RowsOf
    <3>10. Legal(h)'
      BY <2>1, <2>2, <3>2, <3>4, <3>5, <3>6, <3>7, <3>8, <3>9, Flushing
    <3> QED
      BY <3>5, <3>10
  <2> QED
    BY <1>5, <2>3, <2>4 DEF ImportAddsTag
<1> QED
  BY <1>4, <1>5

LEMMA ImportHandlers ==
  ASSUME NEW home \in [Tags -> Groups], Legal(home), NEW r \in Requests,
         ImportReads(r) \/ ImportGroup(r) \/ ImportTag(r) \/ ImportEnds(r)
  PROVE  Legal(home)'
<1>1. Call(r).op = "bulk_import" => ~Single(r) /\ ~Reading(r)
  BY DEF Single, Reading
<1>2. RowsOf(home, r) /\ Control(r) /\ Groups \subseteq Ids
  BY DEF Legal, Ids
<1>3. CASE ImportReads(r)
  <2>1. at[r] = "read" /\ Call(r).op = "bulk_import"
    BY <1>3 DEF ImportReads, At
  <2>2. /\ got' = [got EXCEPT ![r] = RowsIn(Sees(r), Groups)]
        /\ list' = [list EXCEPT ![r] = Call(r).tasks] /\ at' = [at EXCEPT ![r] = "task"]
        /\ UNCHANGED <<scenario, db, used, tx, work, next, status, stored, broken, heard>>
    BY <1>3 DEF ImportReads
  <2>3. /\ at'[r] = "task" /\ got'[r] = RowsIn(Sees(r), Groups)
        /\ \A o \in Requests \ {r} : at'[o] = at[o] /\ list'[o] = list[o] /\ got'[o] = got[o]
    BY <2>2 DEF Legal, TypeOK, Shapes
  <2>4. Changed(r)
    BY <2>2, <2>3 DEF Changed
  <2>5. /\ DOMAIN got'[r] \subseteq Groups
        /\ \A i \in DOMAIN got'[r] : IsRow(i, got'[r][i])
    BY <2>3, RowsSeen DEF RowsIn, HasHome
  <2>6. TypeOK' /\ Shapes'
    BY <1>2, <2>2, <2>3, <2>5 DEF Legal, TypeOK, Shapes, Labels
  <2> QED
    BY <1>1, <2>1, <2>2, <2>3, <2>4, <2>5, <2>6, Moving
<1>4. CASE ImportGroup(r)
  <2> DEFINE n == Task(r).group
             g == Pick(Groups \ used)
             row == [name |-> n]
             c == Insert(Row(g, row))
  <2>1. at[r] \in {"task", "group"} /\ Call(r).op = "bulk_import"
    BY <1>4 DEF ImportGroup, Importing
  <2>2. CASE \E tasks : Continue(r, tasks)
    BY <2>1, <2>2, Continuing
  <2>3. CASE Fail(r, 500)
    BY <2>3, Failing
  <2>4. CASE /\ Left(Groups) /\ Flush(r, c, "group") /\ Pop(r)
             /\ got' = [got EXCEPT ![r] = After(@, c)]
    <3>1. g \in Groups
      BY <2>4 DEF Left, Pick
    <3>2. IsRow(g, row) /\ g \notin Tags
      BY <3>1 DEF IsRow, Values
    <3>3. Flush(r, c, "group") /\ list' = [list EXCEPT ![r] = Tail(@)]
          /\ got' = [got EXCEPT ![r] = After(@, c)]
      BY <2>4 DEF Pop
    <3>4. DOMAIN c.upd = {} /\ c.del = {} /\ DOMAIN c.ins = {g} /\ c.ins[g] = row
      BY DEF Insert, NoChanges, NoRows, Row
    <3> HIDE DEF g, row
    <3>5. /\ IsChanges(c) /\ ChangesHaveHome(home, c) /\ Plain(c) /\ InsertsOnly(c)
          /\ Tags \cap DOMAIN c.upd \subseteq used
      BY <1>2, <3>1, <3>2, InsertsRow
    <3> HIDE DEF c
    <3>6. Flushable(r, c, "group")
      BY <1>1, <2>1, <3>1, <3>4, <3>5 DEF Flushable, Labels
    <3>7. /\ Shapes' /\ got'[r] = After(got[r], c)
          /\ \A o \in Requests \ {r} : got'[o] = got[o] /\ list'[o] = list[o]
      BY <3>3 DEF Legal, Shapes, Flush
    <3>8. DOMAIN got[r] \subseteq Groups /\ \A i \in DOMAIN got[r] : IsRow(i, got[r][i])
      BY <1>2, <2>1 DEF RowsOf, Control, Imports
    <3>9. DOMAIN got'[r] \subseteq Groups /\ \A i \in DOMAIN got'[r] : IsRow(i, got'[r][i])
      BY <3>1, <3>2, <3>4, <3>7, <3>8 DEF After
    <3> QED
      BY <1>2, <2>1, <3>3, <3>5, <3>6, <3>7, <3>9, Flushing
  <2> QED
    BY <1>4, <2>2, <2>3, <2>4 DEF ImportGroup, NewGroup
<1>5. CASE ImportTag(r)
  <2>1. at[r] \in {"task", "group"} /\ Call(r).op = "bulk_import"
    BY <1>5 DEF ImportTag, Importing
  <2>2. CASE Continue(r, Tail(list[r]))
    BY <2>1, <2>2, Continuing
  <2>3. CASE Goto(r, "check") /\ Mapped(r, Task(r).group) \cap DOMAIN Sees(r) # {}
    <3>1. "check" \in Labels /\ Mapped(r, Task(r).group) # {}
      BY <2>3 DEF Labels
    <3> QED
      BY <1>1, <2>1, <2>3, <3>1, Going
  <2> QED
    BY <1>5, <2>2, <2>3 DEF ImportTag
<1>6. CASE ImportEnds(r)
  <2>1. /\ at[r] \in {"task", "group"} /\ Call(r).op = "bulk_import"
        /\ Goto(r, "answer") /\ "answer" \in Labels
    BY <1>6 DEF ImportEnds, Importing, Labels
  <2> QED
    BY <1>1, <2>1, Going
<1> QED
  BY <1>3, <1>4, <1>5, <1>6

LEMMA KeyHandlers ==
  ASSUME NEW home \in [Tags -> Groups], Legal(home), NEW r \in Requests, KeyStep(r)
  PROVE  Legal(home)'
<1>1. Call(r).op \in {"create_key", "deactivate_key"} => Single(r) /\ ~Reading(r)
  BY DEF Single, Reading
<1>2. Call(r).op = "deactivate_key" => Call(r).target \in Keys
  BY Asked DEF IsCall
<1>3. Keys \subseteq Ids
  BY DEF Ids
<1>4. ASSUME NEW s \in {401, 404, 409}, Fail(r, s) PROVE Legal(home)'
  BY <1>4, Failing
<1>5. CASE Arrive(r)
  <2>1. at[r] = "arrive" /\ "read" \in Labels
    BY <1>5 DEF Arrive, Labels
  <2>2. CASE Goto(r, "read")
    BY <2>1, <2>2, Going
  <2>3. CASE Fail(r, 401)
    BY <1>4, <2>3
  <2> QED
    BY <1>5, <2>2, <2>3 DEF Arrive
<1>6. CASE CreateKey(r)
  <2> DEFINE k == CHOOSE i \in Keys : i \notin used
             row == [name |-> Call(r).name, active |-> TRUE, access |-> {"read", "write"}]
  <2>1. at[r] = "read" /\ Call(r).op = "create_key"
    BY <1>6 DEF CreateKey, At
  <2>2. CASE Fail(r, 409)
    BY <1>4, <2>2
  <2>3. CASE Left(Keys) /\ Flush(r, Insert(Row(k, row)), "answer") /\ UNCHANGED memory
    <3>1. k \in Keys
      BY <2>3 DEF Left
    <3>2. k \in Ids /\ k \notin Tags /\ IsRow(k, row)
      BY <1>3, <3>1 DEF IsRow, Values
    <3>3. Flush(r, Insert(Row(k, row)), "answer") /\ UNCHANGED memory
      BY <2>3
    <3> HIDE DEF k, row
    <3> QED
      BY <1>1, <2>1, <3>2, <3>3, SingleInsert
  <2> QED
    BY <1>6, <2>2, <2>3 DEF CreateKey
<1>7. CASE DeactivateKey(r)
  <2> DEFINE k == Call(r).target
             row == [Sees(r)[k] EXCEPT !.active = FALSE]
  <2>1. at[r] = "read" /\ Call(r).op = "deactivate_key"
    BY <1>7 DEF DeactivateKey, At
  <2>2. CASE Fail(r, 404) \/ Fail(r, 409)
    BY <1>4, <2>2
  <2>3. CASE Flush(r, Update(k, row), "answer") /\ UNCHANGED memory
    <3>1. k \in Ids /\ k \notin Tags /\ IsRow(k, row)
      BY <1>2, <1>3, <2>1 DEF IsRow, Values
    <3> HIDE DEF k, row
    <3> QED
      BY <1>1, <2>1, <2>3, <3>1, SingleUpdate
  <2> QED
    BY <1>7, <2>2, <2>3 DEF DeactivateKey
<1> QED
  BY <1>5, <1>6, <1>7 DEF KeyStep

LEMMA PVHandlers ==
  ASSUME NEW home \in [Tags -> Groups], Legal(home), NEW r \in Requests, PVStep(r)
  PROVE  Legal(home)'
<1> USE DEF At
<1>1. Call(r).op \in {"create_pv", "create_many", "update_pv", "delete_pv", "walk", "search"} =>
        Single(r) /\ ~Reading(r)
  BY DEF Single, Reading
<1>2. /\ Call(r).op \in {"update_pv", "delete_pv"} => Call(r).pv \in PVs
      /\ Call(r).op = "update_pv" => Call(r).tags \subseteq Tags /\ Call(r).tol \in Tolerances
      /\ Creating(r) => \A item \in Items(r) : item.tol \in Tolerances
  BY Asked DEF IsCall, Creating, Items
<1>3. PVs \subseteq Ids /\ Links \subseteq Ids
  BY DEF Ids
<1>4. ASSUME NEW s \in {404, 409, 500}, Fail(r, s) PROVE Legal(home)'
  BY <1>4, Failing
<1>5. \A l \in Links : l \notin Tags \cup PVs \cup Values
  BY DEF Links, Values
<1>6. CASE CheckSetpoints(r)
  <2>1. at[r] = "read" /\ Creating(r) /\ "tags" \in Labels
    BY <1>6 DEF CheckSetpoints, Labels
  <2>2. CASE Fail(r, 409)
    BY <1>4, <2>2
  <2>3. CASE Goto(r, "tags")
    BY <1>1, <2>1, <2>3, Going DEF Creating
  <2> QED
    BY <1>6, <2>2, <2>3 DEF CheckSetpoints
<1>7. CASE InsertPVs(r)
  <2>1. at[r] = "tags" /\ Creating(r) /\ Single(r)
    BY <1>1, <1>7 DEF InsertPVs, Creating
  <2>2. CASE Fail(r, 409)
    BY <1>4, <2>2
  <2>3. CASE ~Fail(r, 409)
    <3> DEFINE known == Tags \cap DOMAIN Sees(r)
    <3>1. PICK id \in [Items(r) -> PVs \ used] :
            Flush(r, Insert(
              [k \in {id[i] : i \in Items(r)} \cup UNION {{id[i]} \X (i.tags \cap known) : i \in Items(r)} |->
                 IF k \in Links THEN LinkRow
                 ELSE LET item == CHOOSE i \in Items(r) : id[i] = k
                      IN [name |-> item.name, readback |-> item.readback, tol |-> item.tol]]), "answer")
            /\ UNCHANGED memory
      BY <1>7, <2>3 DEF InsertPVs
    <3> DEFINE D == {id[i] : i \in Items(r)} \cup UNION {{id[i]} \X (i.tags \cap known) : i \in Items(r)}
               ItemOf(k) == CHOOSE i \in Items(r) : id[i] = k
               rows == [k \in D |->
                          IF k \in Links THEN LinkRow
                          ELSE [name |-> ItemOf(k).name, readback |-> ItemOf(k).readback,
                                tol |-> ItemOf(k).tol]]
    <3>2. \A k \in D : k \in Links \/ \E i \in Items(r) : id[i] = k /\ k \in PVs
      BY DEF Links
    <3>3. \A k \in D : k \notin Links => ItemOf(k).tol \in Tolerances
      BY <1>2, <2>1, <3>2
    <3> HIDE DEF D, ItemOf
    <3>4. ASSUME NEW k \in D PROVE IsRow(k, rows[k]) /\ k \in Ids /\ k \notin Tags
      <4>1. CASE k \in Links
        BY <1>3, <1>5, <4>1 DEF IsRow
      <4>2. CASE k \notin Links
        <5>1. /\ k \in PVs
              /\ rows[k] = [name |-> ItemOf(k).name, readback |-> ItemOf(k).readback, tol |-> ItemOf(k).tol]
          BY <3>2, <4>2
        <5>2. DOMAIN rows[k] = {"name", "readback", "tol"} /\ rows[k].tol = ItemOf(k).tol
          BY <5>1
        <5>3. k \notin Tags /\ k \notin Values
          BY <5>1 DEF Values
        <5> QED
          BY <1>3, <3>3, <4>2, <5>1, <5>2, <5>3 DEF IsRow
      <4> QED
        BY <4>1, <4>2
    <3>5. DOMAIN rows \subseteq Ids /\ HasHome(home, rows)
      BY <3>4 DEF HasHome
    <3>6. Flush(r, Insert(rows), "answer") /\ UNCHANGED memory
      BY <3>1 DEF D, ItemOf
    <3> HIDE DEF rows
    <3>7. /\ IsChanges(Insert(rows)) /\ ChangesHaveHome(home, Insert(rows)) /\ Plain(Insert(rows))
          /\ Tags \cap DOMAIN Insert(rows).upd \subseteq used
      BY <3>5, Inserting
    <3> QED
      BY <2>1, <3>6, <3>7, SingleFlush
  <2> QED
    BY <2>2, <2>3
<1>8. CASE GetPV(r)
  <2> DEFINE p == Call(r).pv
             rows == RowsIn(Sees(r), {p} \cup ({p} \X Tags))
  <2>1. at[r] = "read" /\ Call(r).op = "update_pv" /\ "tags" \in Labels
    BY <1>8 DEF GetPV, Labels
  <2>2. CASE Fail(r, 404)
    BY <1>4, <2>2
  <2>3. CASE p \in DOMAIN Sees(r) /\ Keep(r, rows, "tags")
    <3>1. /\ DOMAIN rows \subseteq Ids /\ p \in DOMAIN rows
          /\ \A i \in DOMAIN rows : IsRow(i, rows[i])
      BY <2>3, RowsSeen DEF RowsIn, HasHome
    <3> HIDE DEF rows
    <3> QED
      BY <2>1, <2>3, <3>1, Keeping
  <2> QED
    BY <1>8, <2>2, <2>3 DEF GetPV
<1>9. CASE UpdatePV(r)
  <2> DEFINE p == Call(r).pv
             had == DOMAIN got[r] \cap Links
             want == {p} \X (Call(r).tags \cap DOMAIN Sees(r))
             row == [got[r][p] EXCEPT !.tol = Call(r).tol]
             c == [ins |-> [l \in want \ had |-> LinkRow],
                   upd |-> IF row = got[r][p] THEN NoRows ELSE Row(p, row),
                   del |-> had \ want]
  <2>1. at[r] = "tags" /\ Call(r).op = "update_pv"
    BY <1>9 DEF UpdatePV
  <2>2. Flush(r, c, "reload") /\ UNCHANGED memory
    BY <1>9 DEF UpdatePV
  <2>3. p \in PVs /\ p \in DOMAIN got[r] /\ IsRow(p, got[r][p])
    BY <1>1, <1>2, <2>1 DEF Legal, RowsOf, Control, Writes
  <2>4. IsRow(p, row)
    <3>1. DOMAIN got[r][p] = {"name", "readback", "tol"}
      BY <2>3 DEF IsRow
    <3>2. DOMAIN row = {"name", "readback", "tol"} /\ row.tol = Call(r).tol
      BY <3>1
    <3> QED
      BY <1>2, <2>1, <2>3, <3>2 DEF IsRow, Values
  <2>5. want \subseteq Links /\ had \subseteq Links
    BY <1>2, <2>1, <2>3 DEF Links
  <2> HIDE DEF row, want, had
  <2>6. /\ DOMAIN c = {"ins", "upd", "del"} /\ c.ins = [l \in want \ had |-> LinkRow]
        /\ c.upd = (IF row = got[r][p] THEN NoRows ELSE Row(p, row)) /\ c.del = had \ want
    OBVIOUS
  <2>7. /\ DOMAIN c.upd \subseteq {p} /\ \A i \in DOMAIN c.upd : c.upd[i] = row
    BY <2>6 DEF NoRows, Row
  <2> HIDE DEF c, p
  <2>8. IsChanges(c) /\ Plain(c) /\ Tags \cap DOMAIN c.upd \subseteq used
    BY <1>3, <2>3, <2>5, <2>6, <2>7 DEF IsChanges, Plain
  <2>9. HasHome(home, c.upd)
    BY <2>3, <2>4, <2>7 DEF HasHome
  <2>10. HasHome(home, c.ins)
    BY <1>5, <2>5, <2>6 DEF HasHome, IsRow
  <2> QED
    BY <1>1, <2>1, <2>2, <2>8, <2>9, <2>10, SingleFlush DEF ChangesHaveHome
<1>10. CASE RefreshPV(r)
  <2>1. at[r] = "reload" /\ Call(r).op = "update_pv" /\ "answer" \in Labels
    BY <1>10 DEF RefreshPV, Labels
  <2>2. CASE Fail(r, 500)
    BY <1>4, <2>2
  <2>3. CASE Goto(r, "answer")
    BY <1>1, <2>1, <2>3, Going
  <2> QED
    BY <1>10, <2>2, <2>3 DEF RefreshPV
<1>11. CASE DeletePV(r)
  <2>1. at[r] = "read" /\ Call(r).op = "delete_pv"
    BY <1>11 DEF DeletePV
  <2>2. CASE Fail(r, 404)
    BY <1>4, <2>2
  <2>3. CASE Flush(r, Delete(Cascade(r, {Call(r).pv})), "answer") /\ UNCHANGED memory
    <3>1. Cascade(r, {Call(r).pv}) \in SUBSET Ids
      BY <1>2, <1>3, <2>1, CascadeIds
    <3> QED
      BY <1>1, <2>1, <2>3, <3>1, SingleDelete
  <2> QED
    BY <1>11, <2>2, <2>3 DEF DeletePV
<1>12. CASE WalkPVs(r) \/ SearchPVs(r)
  <2>1. /\ Call(r).op \in {"walk", "search"} /\ at[r] \in {"read", "more"}
        /\ \E page, more : Paged(r, page, more)
    BY <1>12 DEF WalkPVs, SearchPVs, Walking
  <2>2. PICK page, more : Paged(r, page, more)
    BY <2>1
  <2> DEFINE rows == IF at[r] = "read" THEN RowsIn(db, PVs) ELSE got[r]
  <2>3. /\ list' = [list EXCEPT ![r] = @ \o page] /\ got' = [got EXCEPT ![r] = rows]
        /\ at' = [at EXCEPT ![r] = IF more THEN "more" ELSE "done"]
        /\ status' = [status EXCEPT ![r] = 200] /\ stored' = [stored EXCEPT ![r] = TRUE]
        /\ UNCHANGED <<scenario, db, used, tx, work, next, broken, heard>>
    BY <2>2 DEF Paged, Legal, Shapes
  <2>4. DOMAIN rows \subseteq Ids /\ \A i \in DOMAIN rows : IsRow(i, rows[i])
    BY <1>3 DEF Legal, TypeOK, RowsOf, RowsIn, HasHome
  <2> HIDE DEF rows
  <2>5. /\ at'[r] \in {"more", "done"} /\ got'[r] = rows
        /\ \A o \in Requests \ {r} : at'[o] = at[o] /\ list'[o] = list[o] /\ got'[o] = got[o]
    BY <2>3 DEF Legal, TypeOK, Shapes
  <2>6. Changed(r)
    BY <2>3, <2>5 DEF Changed
  <2>7. TypeOK' /\ Shapes'
    <3>1. at' \in [Requests -> Labels]
      BY <2>3 DEF Legal, TypeOK, Labels
    <3>2. status' \in [Requests -> {0, 200, 401, 404, 409, 500}] /\ stored' \in [Requests -> BOOLEAN]
      BY <2>3 DEF Legal, TypeOK
    <3>3. \A o \in Requests : DOMAIN got'[o] \subseteq Ids
      BY <2>4, <2>5 DEF Legal, TypeOK
    <3> QED
      BY <2>3, <3>1, <3>2, <3>3 DEF Legal, TypeOK, Shapes
  <2> QED
    BY <1>1, <2>1, <2>3, <2>4, <2>5, <2>6, <2>7, Moving
<1> QED
  BY <1>6, <1>7, <1>8, <1>9, <1>10, <1>11, <1>12 DEF PVStep

(* A reader marks values for deletion, and takes the marks back. *)
LEMMA Marking ==
  ASSUME NEW home, Legal(home), NEW r \in Requests, Changed(r), TypeOK', Shapes',
         UNCHANGED <<db, used, tx>>, Reading(r),
         at[r] \in {"load", "page"}, at'[r] \in {"load", "page", "tolerances"},
         NEW S \in SUBSET Values, work'[r] = [work[r] EXCEPT !.del = S],
         \A i \in DOMAIN got'[r] : IsRow(i, got'[r][i]),
         list'[r] \in Seq(Snapshots), at'[r] \in {"load", "page"} => list'[r] # <<>>
  PROVE  Legal(home)'
<1>1. RowsOf(home, r) /\ Control(r) /\ IsChanges(work[r])
  BY DEF Legal, TypeOK
<1>2. work'[r].ins = work[r].ins /\ work'[r].upd = work[r].upd /\ work'[r].del = S
  BY <1>1 DEF IsChanges
<1>3. HasHome(home, db)' /\ RowsOf(home, r)'
  BY <1>1, <1>2 DEF Legal, RowsOf, Drawn, ChangesHaveHome
<1>4. /\ Call(r)' = Call(r) /\ (Reading(r)' <=> Reading(r))
      /\ Call(r).op \notin {"bulk_import", "create_snapshot"} /\ ~Single(r)'
  BY DEF Changed, Call, Reading, Single
<1>5. DOMAIN work[r].ins = {} /\ DOMAIN work[r].upd = {} /\ Touched(tx[r]) = {}
  BY <1>1 DEF Control, Reads
<1>6. Plain(work[r])'
  BY <1>2, <1>5 DEF Plain
<1>7. Quiet(r)' /\ Imports(r)' /\ Captures(r)' /\ Writes(r)'
  BY <1>4 DEF Quiet, Imports, Captures, Writes
<1>8. Reads(r)'
  BY <1>2, <1>5 DEF Reads
<1> QED
  BY <1>3, <1>6, <1>7, <1>8, OthersStay, Zenon DEF Control

LEMMA TailOfTwo ==
  ASSUME NEW S, NEW s \in Seq(S), s # <<>>
  PROVE  Tail(s) \in Seq(S) /\ (Len(s) > 1 => Tail(s) # <<>>)
<1>1. Tail(s) \in Seq(S) /\ Len(Tail(s)) = Len(s) - 1 /\ Len(s) \in Nat
  OBVIOUS
<1>2. Len(<<>>) = 0
  OBVIOUS
<1>3. Len(s) > 1 => Len(Tail(s)) # Len(<<>>)
  BY <1>1, <1>2
<1> QED
  BY <1>1, <1>3

LEMMA ReadHandlers ==
  ASSUME NEW home \in [Tags -> Groups], Legal(home), NEW r \in Requests,
         BeginRead(r) \/ LoadSnapshot(r) \/ ReadValues(r) \/ ReadPVs(r)
  PROVE  Legal(home)'
<1>1. RowsOf(home, r) /\ Control(r) /\ IsChanges(work[r]) /\ DOMAIN got[r] \subseteq Ids
  BY DEF Legal, TypeOK
<1>2. Reading(r) /\ Call(r).op \notin {"bulk_import", "create_snapshot", "update_pv"}
  BY DEF BeginRead, LoadSnapshot, ReadValues, ReadPVs, Reading
<1>3. Call(r).snapshots \in Seq(Snapshots) /\ Call(r).snapshots # <<>>
  BY <1>2, Asked DEF IsCall, Reading
<1>4. CASE BeginRead(r)
  <2>1. /\ at[r] = "read" /\ list' = [list EXCEPT ![r] = Call(r).snapshots]
        /\ at' = [at EXCEPT ![r] = "load"]
        /\ UNCHANGED <<scenario, db, used, tx, work, next, status, stored, broken, got, heard>>
    BY <1>4 DEF BeginRead
  <2>2. /\ at'[r] = "load" /\ list'[r] = Call(r).snapshots
        /\ \A o \in Requests \ {r} : at'[o] = at[o] /\ list'[o] = list[o]
    BY <2>1 DEF Legal, TypeOK, Shapes
  <2>3. Changed(r)
    BY <2>1, <2>2 DEF Changed
  <2>4. TypeOK' /\ Shapes'
    BY <2>1 DEF Legal, TypeOK, Shapes, Labels
  <2>5. \A i \in DOMAIN got'[r] : IsRow(i, got'[r][i])
    BY <1>1, <2>1 DEF RowsOf
  <2> QED
    BY <1>2, <1>3, <2>1, <2>2, <2>3, <2>4, <2>5, Moving
<1>5. CASE LoadSnapshot(r)
  <2> DEFINE s == Head(list[r])
             S == work[r].del \cup ValuesOf(Sees(r), s)
  <2>1. at[r] = "load"
    BY <1>5 DEF LoadSnapshot
  <2>2. CASE Fail(r, 404)
    BY <2>2, Failing
  <2>3. CASE ~Fail(r, 404)
    <3>1. /\ work' = [work EXCEPT ![r].del = @ \cup ValuesOf(Sees(r), s)]
          /\ at' = [at EXCEPT ![r] = "page"]
          /\ UNCHANGED <<scenario, db, used, tx, next, status, stored, broken, got, list, heard>>
      BY <1>5, <2>3 DEF LoadSnapshot, memory
    <3>2. list[r] \in Seq(Snapshots) /\ list[r] # <<>> /\ work[r].del \subseteq Values
      BY <1>1, <1>2, <2>1 DEF Control, Reads
    <3>3. s \in Snapshots
      BY <3>2
    <3>4. S \in SUBSET Values
      BY <3>2, <3>3 DEF ValuesOf, Values
    <3>5. work'[r] = [work[r] EXCEPT !.del = S]
      BY <3>1 DEF Legal, Shapes
    <3>6. /\ at'[r] = "page"
          /\ \A o \in Requests \ {r} : at'[o] = at[o] /\ work'[o] = work[o]
      BY <3>1 DEF Legal, TypeOK, Shapes
    <3> HIDE DEF s, S
    <3>7. Changed(r)
      BY <3>1, <3>6 DEF Changed
    <3>8. TypeOK' /\ Shapes'
      <4>1. IsChanges(work'[r])
        BY <1>1, <3>4, <3>5 DEF IsChanges, Ids
      <4>2. \A o \in Requests : IsChanges(tx'[o]) /\ IsChanges(work'[o])
        BY <3>1, <3>6, <4>1 DEF Legal, TypeOK
      <4>3. at' \in [Requests -> Labels]
        BY <3>1 DEF Legal, TypeOK, Labels
      <4> QED
        BY <3>1, <4>2, <4>3 DEF Legal, TypeOK, Shapes, IsChanges
    <3>9. \A i \in DOMAIN got'[r] : IsRow(i, got'[r][i])
      BY <1>1, <3>1 DEF RowsOf
    <3> QED
      BY <1>2, <2>1, <3>1, <3>2, <3>4, <3>5, <3>6, <3>7, <3>8, <3>9, Marking
  <2> QED
    BY <2>2, <2>3
<1>6. CASE ReadValues(r)
  <2> DEFINE page == PageOf(r, Sees(r))
             S == work[r].del \ page
             c == Insert(RowsIn(Sees(r), page))
  <2>1. at[r] = "page"
    BY <1>6 DEF ReadValues
  <2>2. /\ work' = [work EXCEPT ![r].del = @ \ page] /\ got' = [got EXCEPT ![r] = After(@, c)]
        /\ list' = [list EXCEPT ![r] = Tail(@)]
        /\ at' = [at EXCEPT ![r] = IF Len(list[r]) > 1 THEN "load" ELSE "tolerances"]
        /\ UNCHANGED <<scenario, db, used, tx, next, status, stored, broken, heard>>
    BY <1>6 DEF ReadValues
  <2>3. list[r] \in Seq(Snapshots) /\ list[r] # <<>> /\ work[r].del \subseteq Values
    BY <1>1, <1>2, <2>1 DEF Control, Reads
  <2>4. /\ S \in SUBSET Values /\ work'[r] = [work[r] EXCEPT !.del = S]
    BY <2>2, <2>3 DEF Legal, Shapes
  <2>5. /\ at'[r] = (IF Len(list[r]) > 1 THEN "load" ELSE "tolerances")
        /\ list'[r] = Tail(list[r]) /\ got'[r] = After(got[r], c)
        /\ \A o \in Requests \ {r} :
             at'[o] = at[o] /\ work'[o] = work[o] /\ list'[o] = list[o] /\ got'[o] = got[o]
    BY <2>2 DEF Legal, TypeOK, Shapes
  <2>6. list'[r] \in Seq(Snapshots) /\ (at'[r] \in {"load", "page"} => list'[r] # <<>>)
    <3>1. Tail(list[r]) \in Seq(Snapshots) /\ (Len(list[r]) > 1 => Tail(list[r]) # <<>>)
      BY <2>3, TailOfTwo
    <3>2. at'[r] \in {"load", "page"} => Len(list[r]) > 1
      BY <2>5
    <3> QED
      BY <2>5, <3>1, <3>2
  <2>7. /\ c.ins = RowsIn(Sees(r), page) /\ DOMAIN c.upd = {} /\ c.del = {}
    BY DEF Insert, NoChanges, NoRows
  <2>8. /\ DOMAIN c.ins \subseteq Ids /\ \A i \in DOMAIN c.ins : IsRow(i, c.ins[i])
    BY <2>7, RowsSeen DEF RowsIn, HasHome
  <2> HIDE DEF page, S, c
  <2>9. DOMAIN got'[r] \subseteq Ids /\ \A i \in DOMAIN got'[r] : IsRow(i, got'[r][i])
    BY <1>1, <2>5, <2>7, <2>8 DEF After, RowsOf
  <2>10. Changed(r)
    BY <2>2, <2>5 DEF Changed
  <2>11. TypeOK' /\ Shapes'
    <3>1. IsChanges(work'[r])
      BY <1>1, <2>4 DEF IsChanges, Ids
    <3>2. \A o \in Requests : IsChanges(tx'[o]) /\ IsChanges(work'[o])
      BY <2>2, <2>5, <3>1 DEF Legal, TypeOK
    <3>3. at' \in [Requests -> Labels]
      BY <2>2 DEF Legal, TypeOK, Labels
    <3>4. \A o \in Requests : DOMAIN got'[o] \subseteq Ids
      BY <2>5, <2>9 DEF Legal, TypeOK
    <3> QED
      BY <2>2, <3>2, <3>3, <3>4 DEF Legal, TypeOK, Shapes, IsChanges
  <2> QED
    BY <1>2, <2>1, <2>2, <2>4, <2>5, <2>6, <2>9, <2>10, <2>11, Marking
<1>7. CASE ReadPVs(r)
  <2> DEFINE c == Insert(RowsIn(Sees(r), {v[2] : v \in DOMAIN got[r]}))
  <2>1. at[r] = "tolerances" /\ Keep(r, After(got[r], c), "answer") /\ "answer" \in Labels
    BY <1>7 DEF ReadPVs, Labels
  <2>2. /\ c.ins = RowsIn(Sees(r), {v[2] : v \in DOMAIN got[r]}) /\ DOMAIN c.upd = {} /\ c.del = {}
    BY DEF Insert, NoChanges, NoRows
  <2>3. /\ DOMAIN c.ins \subseteq Ids /\ \A i \in DOMAIN c.ins : IsRow(i, c.ins[i])
    BY <2>2, RowsSeen DEF RowsIn, HasHome
  <2> HIDE DEF c
  <2>4. /\ DOMAIN After(got[r], c) \subseteq Ids
        /\ \A i \in DOMAIN After(got[r], c) : IsRow(i, After(got[r], c)[i])
    BY <1>1, <2>2, <2>3 DEF After, RowsOf
  <2> QED
    BY <1>2, <2>1, <2>4, Keeping
<1> QED
  BY <1>4, <1>5, <1>6, <1>7

LEMMA CaptureHandlers ==
  ASSUME NEW home \in [Tags -> Groups], Legal(home), NEW r \in Requests,
         \/ ReadAddresses(r) \/ ReadCache(r) \/ ReadCA(r) \/ ReadPVA(r) \/ ReadFallback(r)
         \/ InsertSnapshot(r) \/ InsertValues(r)
  PROVE  Legal(home)'
<1> USE DEF Creates, At
<1>1. RowsOf(home, r) /\ Control(r) /\ PVs \subseteq Ids /\ Snapshots \subseteq Ids /\ Values \subseteq Ids
  BY DEF Legal, Ids
<1>2. Call(r).op = "create_snapshot" /\ ~Reading(r) /\ ~Single(r)
  BY DEF ReadAddresses, ReadCache, ReadCA, ReadPVA, ReadFallback, InsertSnapshot, InsertValues, Reading, Single
<1>3. DOMAIN got[r] \subseteq PVs /\ list[r] \in Seq(Snapshots) /\ \A i \in DOMAIN got[r] : IsRow(i, got[r][i])
  BY <1>1, <1>2 DEF Control, Captures, RowsOf
<1>4. CASE ReadAddresses(r)
  <2> DEFINE rows == RowsIn(Sees(r), PVs)
             l == IF at[r] = "read" /\ Call(r).cached THEN "cache" ELSE "ca"
  <2>1. at[r] \in {"read", "direct"} /\ Keep(r, rows, l)
    BY <1>4 DEF ReadAddresses
  <2>2. l \in {"cache", "ca"} /\ l \in Labels
    BY DEF Labels
  <2>3. DOMAIN rows \subseteq PVs /\ \A i \in DOMAIN rows : IsRow(i, rows[i])
    BY RowsSeen DEF RowsIn, HasHome
  <2> HIDE DEF rows, l
  <2> QED
    BY <1>1, <1>2, <2>1, <2>2, <2>3, Keeping
<1>5. CASE ReadCache(r)
  <2>1. at[r] = "cache" /\ "check" \in Labels /\ "direct" \in Labels
    BY <1>5 DEF ReadCache, Labels
  <2>2. Goto(r, "check") \/ Goto(r, "direct")
    BY <1>5 DEF ReadCache
  <2> QED
    BY <1>2, <2>1, <2>2, Going
<1>6. CASE ReadCA(r) \/ ReadPVA(r) \/ ReadFallback(r)
  <2>1. at[r] \in {"ca", "pva", "fallback"}
    BY <1>6 DEF ReadCA, ReadPVA, ReadFallback
  <2>2. \E l \in {"pva", "fallback", "insert"} : \E answers : Heard(r, answers, l)
    BY <1>6 DEF ReadCA, ReadPVA, ReadFallback
  <2>3. PICK l \in {"pva", "fallback", "insert"} : \E answers : Heard(r, answers, l)
    BY <2>2
  <2>4. /\ at' = [at EXCEPT ![r] = l]
        /\ UNCHANGED <<scenario, db, used, tx, work, next, status, stored, broken, got, list>>
    BY <2>3 DEF Heard
  <2>5. at'[r] = l /\ \A o \in Requests \ {r} : at'[o] = at[o]
    BY <2>4 DEF Legal, TypeOK
  <2>6. Changed(r)
    BY <2>4, <2>5 DEF Changed
  <2>7. TypeOK' /\ Shapes'
    BY <2>4 DEF Legal, TypeOK, Shapes, Labels
  <2> QED
    BY <1>2, <1>3, <2>1, <2>4, <2>5, <2>6, <2>7, Moving
<1>7. CASE InsertSnapshot(r)
  <2> DEFINE s == CHOOSE i \in Snapshots : i \notin used
             row == [name |-> Call(r).name]
             c == Insert(Row(s, row))
             l == IF at[r] = "check" THEN "commitNow" ELSE "values"
  <2>1. at[r] \in {"check", "insert"} /\ l \in {"commitNow", "values"} /\ l \in Labels
    BY <1>7 DEF InsertSnapshot, Labels
  <2>2. Flush(r, c, l) /\ list' = [list EXCEPT ![r] = <<s>>] /\ got' = got
    BY <1>7 DEF InsertSnapshot
  <2>3. s \in Snapshots
    BY <1>7 DEF InsertSnapshot, Left
  <2>4. IsRow(s, row) /\ s \notin Tags
    BY <2>3 DEF IsRow, Values
  <2> HIDE DEF s, row, l
  <2>5. /\ IsChanges(c) /\ ChangesHaveHome(home, c) /\ Plain(c) /\ InsertsOnly(c)
        /\ Tags \cap DOMAIN c.upd \subseteq used /\ DOMAIN c.ins = {s}
    BY <1>1, <2>3, <2>4, InsertsRow
  <2> HIDE DEF c
  <2>6. Flushable(r, c, l)
    BY <1>2, <2>1, <2>3, <2>5 DEF Flushable
  <2>7. /\ Shapes' /\ list'[r] = <<s>>
        /\ \A o \in Requests \ {r} : got'[o] = got[o] /\ list'[o] = list[o]
    BY <2>2 DEF Legal, Shapes, Flush
  <2>8. list'[r] \in Seq(Snapshots) /\ list'[r] # <<>>
    BY <2>3, <2>7
  <2>9. DOMAIN got'[r] \subseteq PVs /\ \A i \in DOMAIN got'[r] : IsRow(i, got'[r][i])
    BY <1>3, <2>2
  <2> QED
    BY <1>1, <1>2, <2>2, <2>5, <2>6, <2>7, <2>8, <2>9, Flushing
<1>8. CASE InsertValues(r)
  <2>1. at[r] = "values"
    BY <1>8 DEF InsertValues
  <2>2. list[r] # <<>> /\ list[r][1] \in Snapshots
    BY <1>1, <1>2, <1>3, <2>1 DEF Control, Captures
  <2>3. PICK of \in [ReadbacksOf(r) -> DOMAIN got[r]] :
          Flush(r, Insert(
            [v \in {list[r][1]} \X DOMAIN got[r] |->
               LET pv == got[r][v[2]]
               IN [setpoint |-> Recorded(r, pv.name),
                   readback |-> IF pv.readback \in ReadbacksOf(r) /\ of[pv.readback] = v[2]
                                THEN Recorded(r, pv.readback) ELSE Null]]), "answer")
    BY <1>8 DEF InsertValues
  <2> DEFINE D == {list[r][1]} \X DOMAIN got[r]
             SetOf(v) == Recorded(r, got[r][v[2]].name)
             BackOf(v) == IF got[r][v[2]].readback \in ReadbacksOf(r) /\ of[got[r][v[2]].readback] = v[2]
                          THEN Recorded(r, got[r][v[2]].readback) ELSE Null
             rows == [v \in D |-> [setpoint |-> SetOf(v), readback |-> BackOf(v)]]
             c == Insert(rows)
  <2>4. Flush(r, c, "answer")
    BY <2>3
  <2>5. \A v \in D : v \in Values /\ v \notin Tags /\ v \notin PVs
    BY <1>3, <2>2 DEF Values
  <2>6. IsValue(Null) /\ \A a : IsValue(Recorded(r, a))
    BY DEF IsValue, Recorded, Sanitized, ReadingOf, Null
  <2>7. \A v \in D : IsValue(SetOf(v)) /\ IsValue(BackOf(v))
    BY <2>6
  <2> HIDE DEF D, SetOf, BackOf
  <2>8. \A v \in D : IsValue(rows[v].setpoint) /\ IsValue(rows[v].readback)
    BY <2>7
  <2>9. DOMAIN rows \subseteq Ids /\ HasHome(home, rows)
    BY <1>1, <2>5, <2>8 DEF HasHome, IsRow
  <2> HIDE DEF rows
  <2>10. /\ IsChanges(c) /\ ChangesHaveHome(home, c) /\ Plain(c) /\ InsertsOnly(c)
         /\ Tags \cap DOMAIN c.upd \subseteq used
    BY <2>9, Inserting
  <2> HIDE DEF c
  <2>11. Flushable(r, c, "answer")
    BY <1>2, <2>1, <2>10 DEF Flushable, Labels
  <2>12. got' = got /\ list' = list
    BY <1>8 DEF InsertValues, memory
  <2>13. Shapes'
    BY <2>4, <2>12 DEF Legal, Shapes, Flush
  <2> QED
    BY <1>1, <1>2, <1>3, <2>2, <2>4, <2>10, <2>11, <2>12, <2>13, Flushing
<1> QED
  BY <1>4, <1>5, <1>6, <1>7, <1>8

LEMMA ChangeHandlers ==
  ASSUME NEW home \in [Tags -> Groups], Legal(home), NEW r \in Requests,
         UpdateSnapshot(r) \/ DeleteSnapshot(r)
  PROVE  Legal(home)'
<1>1. /\ Call(r).op \in {"update_snapshot", "delete_snapshot"} /\ at[r] = "read" /\ Single(r)
      /\ Call(r).snapshot \in Snapshots
  BY Asked DEF UpdateSnapshot, DeleteSnapshot, At, Single, Reading, IsCall
<1>2. CASE Fail(r, 404)
  BY <1>2, Failing
<1>3. CASE Flush(r, Update(Call(r).snapshot, [name |-> Call(r).name]), "answer") /\ UNCHANGED memory
  <2> DEFINE s == Call(r).snapshot
             row == [name |-> Call(r).name]
  <2>1. s \in Ids /\ s \notin Tags /\ IsRow(s, row)
    BY <1>1 DEF Ids, IsRow, Values
  <2> HIDE DEF s, row
  <2> QED
    BY <1>1, <1>3, <2>1, SingleUpdate DEF s, row
<1>4. CASE Flush(r, Delete({Call(r).snapshot}), "answer") /\ UNCHANGED memory
  <2>1. {Call(r).snapshot} \in SUBSET Ids
    BY <1>1 DEF Ids
  <2> QED
    BY <1>1, <1>4, <2>1, SingleDelete
<1> QED
  BY <1>2, <1>3, <1>4 DEF UpdateSnapshot, DeleteSnapshot

LEMMA AnswerIsLegal ==
  ASSUME NEW home, Legal(home), NEW r \in Requests, Answer(r)
  PROVE  Legal(home)'
<1>1. RowsOf(home, r) /\ Control(r)
  BY DEF Legal
<1>2. /\ at[r] = "answer" /\ status' = [status EXCEPT ![r] = 200]
      /\ UNCHANGED <<scenario, db, used, tx, work, stored, broken, got, list, heard>>
  BY DEF Answer, memory
<1>3. \/ work[r] = NoChanges /\ at' = [at EXCEPT ![r] = "commit"] /\ next' = next
      \/ work[r] # NoChanges /\ at' = [at EXCEPT ![r] = "flush"] /\ next' = [next EXCEPT ![r] = "commit"]
  BY DEF Answer
<1>4. /\ \/ work[r] = NoChanges /\ at'[r] = "commit"
         \/ work[r] # NoChanges /\ at'[r] = "flush" /\ next'[r] = "commit"
      /\ \A o \in Requests \ {r} : at'[o] = at[o] /\ next'[o] = next[o]
  BY <1>3 DEF Legal, TypeOK
<1>5. Changed(r)
  BY <1>2, <1>4 DEF Changed
<1>6. TypeOK' /\ Shapes'
  <2>1. at' \in [Requests -> Labels] /\ next' \in [Requests -> Labels]
    BY <1>3 DEF Legal, TypeOK, Labels
  <2>2. status' \in [Requests -> {0, 200, 401, 404, 409, 500}]
    BY <1>2 DEF Legal, TypeOK
  <2> QED
    BY <1>2, <2>1, <2>2 DEF Legal, TypeOK, Shapes
<1>7. HasHome(home, db)' /\ RowsOf(home, r)'
  BY <1>1, <1>2 DEF Legal, RowsOf, Drawn
<1>8. Call(r)' = Call(r) /\ (Reading(r)' <=> Reading(r)) /\ (Single(r)' <=> Single(r))
  BY <1>2 DEF Call, Reading, Single
<1>9. ~Reading(r) => work[r] = NoChanges
  BY <1>1, <1>2 DEF Control, Quiet
<1>10. Quiet(r)' /\ Plain(work[r])'
  BY <1>1, <1>2, <1>8, <1>9 DEF Control, Quiet
<1>11. Reads(r)'
  BY <1>1, <1>2, <1>4, <1>8 DEF Control, Reads
<1>12. Imports(r)'
  BY <1>1, <1>2, <1>4, <1>8, <1>9 DEF Control, Imports, Reading
<1>13. Captures(r)'
  BY <1>1, <1>2, <1>4, <1>8, <1>9 DEF Control, Captures, Reading
<1>14. Writes(r)'
  BY <1>1, <1>2, <1>4, <1>8, <1>9 DEF Control, Writes, Single
<1> QED
  BY <1>5, <1>6, <1>7, <1>10, <1>11, <1>12, <1>13, <1>14, OthersStay, Zenon DEF Control

(* The end of a transaction: get_db's commit, or that of a cached snapshot. *)
LEMMA Committing ==
  ASSUME NEW home, Legal(home), NEW r \in Requests, Commit(r) \/ CommitSnapshot(r)
  PROVE  Legal(home)'
<1>1. RowsOf(home, r) /\ Control(r) /\ IsChanges(tx[r])
  BY DEF Legal, TypeOK
<1> DEFINE l == IF at[r] = "commit" THEN "done" ELSE "bulk"
<1>2. /\ at[r] \in {"commit", "commitNow"} /\ at' = [at EXCEPT ![r] = l]
      /\ tx' = [tx EXCEPT ![r] = NoChanges] /\ db' \in {db, After(db, tx[r])}
      /\ UNCHANGED <<scenario, used, work, next, status, broken, got, list, heard>>
  BY DEF Commit, CommitSnapshot, Creates, At, memory
<1>3. at[r] = "commitNow" => Call(r).op = "create_snapshot"
  BY DEF Commit, CommitSnapshot, Creates, At
<1>4. /\ at'[r] = l /\ tx'[r] = NoChanges
      /\ \A o \in Requests \ {r} : at'[o] = at[o] /\ tx'[o] = tx[o]
  BY <1>2 DEF Legal, TypeOK, Shapes
<1>5. Changed(r)
  BY <1>2, <1>4 DEF Changed
<1>6. HasHome(home, db')
  <2>1. HasHome(home, After(db, tx[r]))
    BY <1>1, AfterHasHome, Zenon DEF Legal, RowsOf
  <2> QED
    BY <1>2, <2>1 DEF Legal
<1>7. DOMAIN db' \subseteq used
  <2>1. DOMAIN After(db, tx[r]) \subseteq DOMAIN db \cup DOMAIN tx[r].ins
    BY DEF After
  <2> QED
    BY <1>1, <1>2, <2>1 DEF Legal, TypeOK, RowsOf, Drawn
<1>8. TypeOK' /\ Shapes'
  <2>1. at' \in [Requests -> Labels]
    BY <1>2 DEF Legal, TypeOK, Labels
  <2>2. stored' \in [Requests -> BOOLEAN]
    <3>1. stored' = stored \/ stored' = [stored EXCEPT ![r] = TRUE]
      BY DEF Commit, CommitSnapshot
    <3>2. stored \in [Requests -> BOOLEAN]
      BY DEF Legal, TypeOK
    <3> QED
      BY <3>1, <3>2
  <2>3. \A o \in Requests : IsChanges(tx'[o])
    BY <1>4, Nothing DEF Legal, TypeOK
  <2> QED
    BY <1>2, <1>7, <2>1, <2>2, <2>3 DEF Legal, TypeOK, Shapes, IsChanges
<1>9. RowsOf(home, r)'
  BY <1>1, <1>2, <1>4, Nothing DEF RowsOf, Drawn
<1>10. Call(r)' = Call(r) /\ (Reading(r)' <=> Reading(r)) /\ (Single(r)' <=> Single(r))
  BY <1>2 DEF Call, Reading, Single
<1>11. Quiet(r)' /\ Plain(work[r])'
  BY <1>1, <1>2, <1>10 DEF Control, Quiet
<1>12. Reads(r)'
  BY <1>1, <1>2, <1>3, <1>4, <1>10, Nothing DEF Control, Reads, Reading
<1>13. Imports(r)'
  BY <1>1, <1>2, <1>3, <1>4, <1>10, Nothing DEF Control, Imports
<1>14. Captures(r)'
  <2>1. list[r] # <<>> \/ at'[r] = "done" \/ Call(r).op # "create_snapshot"
    BY <1>1, <1>2, <1>4 DEF Control, Captures
  <2> QED
    BY <1>1, <1>2, <1>4, <1>10, <2>1, Nothing DEF Control, Captures
<1>15. Writes(r)'
  BY <1>1, <1>2, <1>3, <1>4, <1>10, Nothing DEF Control, Writes, Single
<1> QED
  BY <1>5, <1>6, <1>8, <1>9, <1>11, <1>12, <1>13, <1>14, <1>15, OthersStay, Zenon DEF Control

(* The values of a cached snapshot, by the bulk service. *)
LEMMA ValuesCaptured ==
  ASSUME NEW home, Legal(home), NEW r \in Requests, Creates(r, "bulk")
  PROVE  /\ DOMAIN Captured(r) \subseteq Values /\ HasHome(home, Captured(r))
         /\ ChangesHaveHome(home, Insert(Captured(r))) /\ Plain(Insert(Captured(r)))
         /\ InsertsOnly(Insert(Captured(r))) /\ Insert(Captured(r)).ins = Captured(r)
<1>1. Control(r) /\ Call(r).op = "create_snapshot" /\ at[r] = "bulk"
  BY DEF Legal, Creates, At
<1>2. DOMAIN got[r] \subseteq PVs /\ list[r] \in Seq(Snapshots) /\ list[r] # <<>>
  BY <1>1 DEF Control, Captures
<1>3. list[r][1] \in Snapshots
  BY <1>2
<1>4. DOMAIN Captured(r) \subseteq Values
  BY <1>2, <1>3 DEF Captured, Values
<1>5. \A v \in DOMAIN Captured(r) : Captured(r)[v].setpoint = Null /\ Captured(r)[v].readback = Null
  BY DEF Captured
<1> HIDE DEF Captured
<1>6. IsValue(Null)
  BY DEF IsValue, Null
<1>7. \A v \in Values : v \notin Tags /\ v \notin PVs /\ v \in Ids
  BY DEF Ids
<1>8. HasHome(home, Captured(r)) /\ DOMAIN Captured(r) \subseteq Ids
  BY <1>4, <1>5, <1>6, <1>7 DEF HasHome, IsRow
<1> QED
  BY <1>4, <1>8, Inserting

LEMMA Capturing ==
  ASSUME NEW home, Legal(home), NEW r \in Requests, BulkInsert(r)
  PROVE  Legal(home)'
<1>1. RowsOf(home, r) /\ Control(r)
  BY DEF Legal
<1>2. Call(r).op = "create_snapshot" /\ at[r] = "bulk" /\ ~Reading(r) /\ ~Single(r)
  BY DEF BulkInsert, Creates, At, Reading, Single
<1> DEFINE c == Insert(Captured(r))
<1>3. DOMAIN Captured(r) \subseteq Values /\ ChangesHaveHome(home, c) /\ c.ins = Captured(r)
  BY ValuesCaptured DEF BulkInsert
<1>4. CASE Fail(r, 500)
  BY <1>4, Failing
<1>5. CASE ~Fail(r, 500)
  <2>1. /\ db' = After(db, c) /\ used' = used \cup DOMAIN c.ins /\ at' = [at EXCEPT ![r] = "answer"]
        /\ UNCHANGED <<scenario, tx, work, next, status, stored, broken, got, list, heard>>
    BY <1>3, <1>5 DEF BulkInsert, memory
  <2> HIDE DEF c
  <2>2. /\ at'[r] = "answer" /\ \A o \in Requests \ {r} : at'[o] = at[o]
    BY <2>1 DEF Legal, TypeOK
  <2>3. Changed(r)
    BY <2>1, <2>2 DEF Changed
  <2>4. HasHome(home, db')
    BY <1>3, <2>1, AfterHasHome, Zenon DEF Legal
  <2>5. DOMAIN db' \subseteq used' /\ used' \subseteq Ids
    <3>1. DOMAIN db' \subseteq DOMAIN db \cup DOMAIN c.ins
      BY <2>1 DEF After
    <3> QED
      BY <1>3, <2>1, <3>1 DEF Legal, TypeOK, Ids
  <2>6. TypeOK' /\ Shapes'
    BY <2>1, <2>5 DEF Legal, TypeOK, Shapes, Labels, IsChanges
  <2>7. RowsOf(home, r)'
    BY <1>1, <2>1 DEF RowsOf, Drawn
  <2>8. Call(r)' = Call(r) /\ (Reading(r)' <=> Reading(r)) /\ (Single(r)' <=> Single(r))
    BY <2>1 DEF Call, Reading, Single
  <2>9. Quiet(r)' /\ Plain(work[r])'
    BY <1>1, <1>2, <2>1, <2>8 DEF Control, Quiet
  <2>10. Reads(r)' /\ Imports(r)' /\ Writes(r)'
    BY <1>2, <2>8 DEF Reads, Imports, Writes
  <2>11. Captures(r)'
    BY <1>1, <1>2, <2>1, <2>2, <2>8 DEF Control, Captures
  <2> QED
    BY <2>3, <2>4, <2>6, <2>7, <2>9, <2>10, <2>11, OthersStay, Zenon DEF Control
<1> QED
  BY <1>4, <1>5

LEMMA Raising ==
  ASSUME NEW home, Legal(home), NEW r \in Requests, Raised(r)
  PROVE  Legal(home)'
<1>1. CASE Goto(r, "task")
  <2>1. at[r] \in {"integrity", "failed"} /\ "task" \in Labels
    BY DEF Raised, Labels
  <2> QED
    BY <1>1, <2>1, Going
<1>2. CASE \E s \in {200, 409, 500} : Fail(r, s)
  BY <1>2, Failing
<1> QED
  BY <1>1, <1>2 DEF Raised

-----------------------------------------------------------------------------
(* Flushes *)

LEMMA EffectIs ==
  ASSUME NEW home \in [Tags -> Groups], Legal(home), NEW r \in Requests
  PROVE  /\ Effect(r).ins = work[r].ins /\ Effect(r).upd = work[r].upd
         /\ Effect(r).del \subseteq DOMAIN Sees(r)
         /\ IsChanges(Effect(r)) /\ ChangesHaveHome(home, Effect(r)) /\ Drawn(Effect(r))
         /\ Plain(Effect(r)) /\ Closed(home, DOMAIN Sees(r), Effect(r).del)
         /\ InsertsOnly(work[r]) => InsertsOnly(Effect(r))
         /\ work[r].del \subseteq Links \cup Values => Effect(r).del \subseteq work[r].del
<1>1. RowsOf(home, r) /\ Control(r) /\ IsChanges(work[r]) /\ HasHome(home, db)
  BY DEF Legal, TypeOK
<1> DEFINE S == work[r].del
           c == Effect(r)
<1>2. /\ DOMAIN c = {"ins", "upd", "del"} /\ c.ins = work[r].ins /\ c.upd = work[r].upd
      /\ c.del = IF S = {} THEN {} ELSE Cascade(r, S) \cap DOMAIN Sees(r)
  BY <1>1 DEF Effect, IsChanges
<1>3. /\ Closed(home, DOMAIN Sees(r), Cascade(r, S) \cap DOMAIN Sees(r))
      /\ S \subseteq Links \cup Values => Cascade(r, S) = S
  BY <1>1, CascadeIsClosed DEF RowsOf
<1> HIDE DEF c
<1>4. c.del \subseteq DOMAIN Sees(r) /\ DOMAIN Sees(r) \subseteq Ids
  BY <1>2, RowsSeen
<1>5. Closed(home, DOMAIN Sees(r), c.del)
  BY <1>2, <1>3 DEF Closed
<1>6. S \subseteq Links \cup Values => c.del \subseteq S
  BY <1>2, <1>3
<1>7. IsChanges(c) /\ ChangesHaveHome(home, c) /\ Drawn(c)
  BY <1>1, <1>2, <1>4 DEF RowsOf, IsChanges, ChangesHaveHome, Drawn
<1>8. Plain(c)
  BY <1>1, <1>2, <1>6 DEF Control, Plain
<1>9. InsertsOnly(work[r]) => InsertsOnly(c)
  BY <1>2 DEF InsertsOnly
<1> QED
  BY <1>2, <1>4, <1>5, <1>6, <1>7, <1>8, <1>9 DEF c

(* A transaction that flushes again has inserted rows, and inserts more. *)
LEMMA AtFlush ==
  ASSUME NEW home, Legal(home), NEW r \in Requests, at[r] = "flush"
  PROVE  /\ InsertsOnly(tx[r])
         /\ Touched(tx[r]) = {} \/ InsertsOnly(work[r])
         /\ Touched(tx[r]) \subseteq Groups \cup Tags \cup Snapshots
<1>1. Control(r)
  BY DEF Legal
<1>2. CASE Reading(r)
  BY <1>1, <1>2 DEF Control, Reads, Touched, InsertsOnly
<1>3. CASE Call(r).op = "bulk_import"
  BY <1>1, <1>3 DEF Control, Imports, Touched, InsertsOnly
<1>4. CASE Call(r).op = "create_snapshot"
  BY <1>1, <1>4 DEF Control, Captures, Touched, InsertsOnly
<1>5. CASE Single(r)
  BY <1>1, <1>5 DEF Control, Writes, Touched, InsertsOnly
<1> QED
  BY <1>2, <1>3, <1>4, <1>5 DEF Single

(* What a transaction holds after a flush of c. *)
Merges(new, old, c) ==
  /\ DOMAIN new = {"ins", "upd", "del"} /\ new.del = old.del \cup c.del
  /\ DOMAIN new.ins = DOMAIN old.ins \cup DOMAIN c.ins
  /\ \A i \in DOMAIN new.ins : new.ins[i] = IF i \in DOMAIN c.ins THEN c.ins[i] ELSE old.ins[i]
  /\ DOMAIN new.upd = DOMAIN old.upd \cup DOMAIN c.upd
  /\ \A i \in DOMAIN new.upd : new.upd[i] = IF i \in DOMAIN c.upd THEN c.upd[i] ELSE old.upd[i]

LEMMA FlushMerges ==
  ASSUME NEW home, Legal(home), NEW r \in Requests, FlushDone(r)
  PROVE  /\ Merges(tx'[r], tx[r], Effect(r)) /\ \A o \in Requests \ {r} : tx'[o] = tx[o]
         /\ DOMAIN tx' = Requests
<1> DEFINE c == Effect(r)
           put(old, new) == [i \in DOMAIN old \cup DOMAIN new |->
                               IF i \in DOMAIN new THEN new[i] ELSE old[i]]
           all == [ins |-> put(tx[r].ins, c.ins), upd |-> put(tx[r].upd, c.upd),
                   del |-> tx[r].del \cup c.del]
<1>1. tx' = [tx EXCEPT ![r] = all]
  BY DEF FlushDone, Legal, Shapes
<1>2. Merges(all, tx[r], c)
  BY DEF Merges
<1> HIDE DEF all
<1> QED
  BY <1>1, <1>2 DEF Legal, Shapes

LEMMA Flushed ==
  ASSUME NEW home \in [Tags -> Groups], Legal(home), NEW r \in Requests, FlushDone(r)
  PROVE  Legal(home)'
<1> DEFINE c == Effect(r)
<1>1. RowsOf(home, r) /\ Control(r) /\ IsChanges(tx[r]) /\ IsChanges(work[r]) /\ next[r] \in Labels
  BY DEF Legal, TypeOK
<1>2. /\ c.ins = work[r].ins /\ c.upd = work[r].upd
      /\ IsChanges(c) /\ ChangesHaveHome(home, c) /\ Drawn(c)
      /\ InsertsOnly(work[r]) => InsertsOnly(c)
      /\ work[r].del \subseteq Links \cup Values => c.del \subseteq work[r].del
  BY EffectIs
<1>3. Merges(tx'[r], tx[r], c) /\ \A o \in Requests \ {r} : tx'[o] = tx[o] /\ DOMAIN tx' = Requests
  BY FlushMerges
<1> HIDE DEF c
<1>4. /\ at[r] = "flush" /\ at' = [at EXCEPT ![r] = next[r]] /\ work' = [work EXCEPT ![r] = NoChanges]
      /\ UNCHANGED <<scenario, db, used, next, status, stored, broken, got, list, heard>>
  BY DEF FlushDone, memory
<1>5. /\ at'[r] = next[r] /\ work'[r] = NoChanges
      /\ \A o \in Requests \ {r} : at'[o] = at[o] /\ work'[o] = work[o]
  BY <1>4 DEF Legal, TypeOK, Shapes
<1>6. Changed(r)
  BY <1>3, <1>4, <1>5 DEF Changed
<1>7. TypeOK' /\ Shapes'
  <2>1. IsChanges(tx'[r])
    BY <1>1, <1>2, <1>3 DEF Merges, IsChanges
  <2>2. \A o \in Requests : IsChanges(tx'[o]) /\ IsChanges(work'[o])
    BY <1>3, <1>5, <2>1, Nothing DEF Legal, TypeOK
  <2>3. at' \in [Requests -> Labels]
    BY <1>1, <1>4 DEF Legal, TypeOK
  <2>4. Shapes'
    BY <1>4, FlushMerges DEF Legal, Shapes
  <2> QED
    BY <1>4, <2>2, <2>3, <2>4 DEF Legal, TypeOK, IsChanges
<1>8. HasHome(home, db)' /\ RowsOf(home, r)'
  <2>1. ChangesHaveHome(home, tx'[r])
    BY <1>1, <1>2, <1>3 DEF RowsOf, ChangesHaveHome, HasHome, Merges
  <2>2. DOMAIN tx'[r].ins \cup (Tags \cap DOMAIN tx'[r].upd) \subseteq used'
    BY <1>1, <1>2, <1>3, <1>4 DEF RowsOf, Drawn, Merges
  <2> QED
    BY <1>1, <1>4, <1>5, <2>1, <2>2, Nothing DEF Legal, RowsOf, Drawn
<1>9. Call(r)' = Call(r) /\ (Reading(r)' <=> Reading(r)) /\ (Single(r)' <=> Single(r))
  BY <1>4 DEF Call, Reading, Single
<1>10. /\ Reading(r) => next[r] = "commit"
       /\ Call(r).op = "bulk_import" => next[r] \in {"group", "task"}
       /\ Call(r).op = "create_snapshot" => next[r] \in {"values", "commitNow", "answer"}
       /\ Single(r) => next[r] \in {"reload", "answer"}
  BY <1>1, <1>4 DEF Control, Reads, Imports, Captures, Writes
<1>11. Quiet(r)' /\ Plain(work[r])'
  BY <1>5, Nothing DEF Quiet
<1>12. Reads(r)'
  BY <1>1, <1>4, <1>5, <1>9, <1>10, Nothing DEF Control, Reads
<1>13. Imports(r)'
  <2>1. CASE Call(r).op = "bulk_import"
    <3>1. InsertsOnly(c) /\ InsertsOnly(tx[r])
      BY <1>1, <1>2, <2>1 DEF Control, Imports
    <3>2. InsertsOnly(tx'[r])
      BY <1>3, <3>1 DEF Merges, InsertsOnly
    <3>3. DOMAIN tx'[r].ins \subseteq Groups \cup Tags
      BY <1>1, <1>2, <1>3, <2>1 DEF Control, Imports, Merges
    <3> QED
      BY <1>1, <1>4, <1>5, <1>9, <1>10, <2>1, <3>2, <3>3, Nothing DEF Control, Imports
  <2> QED
    BY <1>9, <2>1 DEF Imports
<1>14. Captures(r)'
  <2>1. CASE Call(r).op = "create_snapshot"
    <3>1. InsertsOnly(c) /\ InsertsOnly(tx[r]) /\ list[r] # <<>>
      BY <1>1, <1>2, <1>4, <2>1 DEF Control, Captures
    <3>2. InsertsOnly(tx'[r])
      BY <1>3, <3>1 DEF Merges, InsertsOnly
    <3>3. next[r] # "answer" => DOMAIN tx'[r].ins \subseteq Snapshots
      BY <1>1, <1>2, <1>3, <1>4, <2>1 DEF Control, Captures, Merges
    <3> QED
      BY <1>1, <1>4, <1>5, <1>9, <1>10, <2>1, <3>1, <3>2, <3>3, Nothing DEF Control, Captures
  <2> QED
    BY <1>9, <2>1 DEF Captures
<1>15. Writes(r)'
  BY <1>4, <1>5, <1>9, <1>10 DEF Writes
<1> QED
  BY <1>6, <1>7, <1>8, <1>11, <1>12, <1>13, <1>14, <1>15, OthersStay, Zenon DEF Control

LEMMA Refused ==
  ASSUME NEW home, Legal(home), NEW r \in Requests, FlushFails(r) \/ Deadlock(r)
  PROVE  Legal(home)'
<1>1. PICK error \in {"integrity", "failed"} : FlushRaises(r, error)
  BY DEF FlushFails, Deadlock
<1>2. status' = status /\ broken' = [broken EXCEPT ![r] = TRUE]
  BY <1>1 DEF FlushRaises
<1>3. status \in [Requests -> {0, 200, 401, 404, 409, 500}] /\ broken \in [Requests -> BOOLEAN]
  BY DEF Legal, TypeOK
<1>4. status' \in [Requests -> {0, 200, 401, 404, 409, 500}] /\ broken' \in [Requests -> BOOLEAN]
  BY <1>2, <1>3
<1>5. RollsBackTo(r, error)
  BY <1>1, <1>4 DEF FlushRaises, RollsBackTo, memory
<1> QED
  BY <1>5, RollingBack

-----------------------------------------------------------------------------
(* Every request stays legal. *)

SomeHome == \E home \in [Tags -> Groups] : Legal(home)

LEMMA SnapshotHandlers ==
  ASSUME NEW home \in [Tags -> Groups], Legal(home), NEW r \in Requests, SnapshotStep(r)
  PROVE  Legal(home)'
<1>1. CASE BeginRead(r) \/ LoadSnapshot(r) \/ ReadValues(r) \/ ReadPVs(r)
  BY <1>1, ReadHandlers
<1>2. CASE UpdateSnapshot(r) \/ DeleteSnapshot(r)
  BY <1>2, ChangeHandlers
<1>3. CASE \/ ReadAddresses(r) \/ ReadCache(r) \/ ReadCA(r) \/ ReadPVA(r) \/ ReadFallback(r)
           \/ InsertSnapshot(r) \/ InsertValues(r)
  BY <1>3, CaptureHandlers
<1>4. CASE CommitSnapshot(r)
  BY <1>4, Committing
<1>5. CASE BulkInsert(r)
  BY <1>5, Capturing
<1> QED
  BY <1>1, <1>2, <1>3, <1>4, <1>5 DEF SnapshotStep

LEMMA StepsAreLegal ==
  ASSUME SomeHome, NEW r \in Requests, Handler(r) \/ Statement(r)
  PROVE  SomeHome'
<1>1. PICK home \in [Tags -> Groups] : Legal(home)
  BY DEF SomeHome
<1>2. ASSUME Legal(home)' PROVE SomeHome'
  BY <1>2 DEF SomeHome
<1>3. CASE TagStep(r)
  <2>1. CASE \/ CreateGroup(r) \/ GetGroup(r) \/ RenameGroup(r) \/ RefreshGroup(r) \/ DeleteGroup(r)
    BY <1>1, <1>2, <2>1, GroupHandlers
  <2>2. CASE GetGroupOfTag(r) \/ UpdateTag(r) \/ RefreshTag(r) \/ RemoveTag(r) \/ ReloadGroup(r)
    BY <1>1, <1>2, <2>2, TagHandlers
  <2>3. CASE ImportReads(r) \/ ImportGroup(r) \/ ImportTag(r) \/ ImportEnds(r)
    BY <1>1, <1>2, <2>3, ImportHandlers
  <2>4. CASE AddTag(r) \/ ImportAddsTag(r)
    <3>1. \E h \in [Tags -> Groups] : Legal(h)'
      BY <1>1, <2>4, NewTags
    <3> QED
      BY <3>1 DEF SomeHome
  <2> QED
    BY <1>3, <2>1, <2>2, <2>3, <2>4 DEF TagStep
<1>4. CASE PVStep(r)
  BY <1>1, <1>2, <1>4, PVHandlers
<1>5. CASE KeyStep(r)
  BY <1>1, <1>2, <1>5, KeyHandlers
<1>6. CASE SnapshotStep(r)
  BY <1>1, <1>2, <1>6, SnapshotHandlers
<1>7. CASE Raised(r)
  BY <1>1, <1>2, <1>7, Raising
<1>8. CASE Answer(r)
  BY <1>1, <1>2, <1>8, AnswerIsLegal
<1>9. CASE Commit(r)
  BY <1>1, <1>2, <1>9, Committing
<1>10. CASE FlushDone(r)
  BY <1>1, <1>2, <1>10, Flushed
<1>11. CASE FlushFails(r) \/ Deadlock(r)
  BY <1>1, <1>2, <1>11, Refused
<1> QED
  BY <1>3, <1>4, <1>5, <1>6, <1>7, <1>8, <1>9, <1>10, <1>11 DEF Handler, Statement

LEMMA StutterIsLegal ==
  ASSUME SomeHome, UNCHANGED vars
  PROVE  SomeHome'
<1>1. PICK home \in [Tags -> Groups] : Legal(home)
  BY DEF SomeHome
<1>2. /\ UNCHANGED <<scenario, db, used, tx, work, at, next, status, stored, broken>>
      /\ UNCHANGED <<got, list, heard>>
  BY DEF vars, memory
<1>3. TypeOK' /\ Shapes' /\ HasHome(home, db)'
  BY <1>1, <1>2 DEF Legal, TypeOK, Shapes, IsChanges
<1>4. ASSUME NEW r \in Requests PROVE RowsOf(home, r)' /\ Control(r)'
  <2>1. RowsOf(home, r) /\ Control(r)
    BY <1>1 DEF Legal
  <2> QED
    BY <1>2, <2>1 DEF RowsOf, Drawn, Control, Quiet, Reads, Imports, Captures, Writes, Single, Reading,
                      Call, Mapped, Task
<1> QED
  BY <1>3, <1>4 DEF Legal, SomeHome

LEMMA StartIsLegal ==
  ASSUME Init
  PROVE  SomeHome
<1>1. /\ scenario \in Scenarios /\ db = scenario.rows /\ used = DOMAIN db
      /\ tx = [r \in Requests |-> NoChanges] /\ work = [r \in Requests |-> NoChanges]
      /\ at = [r \in Requests |-> IF scenario.calls[r].op = "none" THEN "done" ELSE "arrive"]
      /\ next = at /\ status = [r \in Requests |-> 0]
      /\ stored = [r \in Requests |-> FALSE] /\ broken = [r \in Requests |-> FALSE]
      /\ got = [r \in Requests |-> NoRows] /\ list = [r \in Requests |-> <<>>]
  BY DEF Init
<1>2. DOMAIN db \subseteq Ids /\ \A i \in DOMAIN db : IsRow(i, db[i])
  BY <1>1, ScenariosAssumption
<1>3. PICK home \in [Tags -> Groups] : \A t \in Tags \cap DOMAIN db : home[t] = db[t].group
  <2> DEFINE home == [t \in Tags |-> IF t \in DOMAIN db THEN db[t].group ELSE CHOOSE g \in Groups : TRUE]
  <2>1. \A t \in Tags : (IF t \in DOMAIN db THEN db[t].group ELSE CHOOSE g \in Groups : TRUE) \in Groups
    BY <1>2 DEF IsRow
  <2>2. home \in [Tags -> Groups]
    BY <2>1
  <2> QED
    BY <2>2
<1>4. HasHome(home, db)
  BY <1>2, <1>3 DEF HasHome
<1>5. TypeOK /\ Shapes
  <2>1. at \in [Requests -> Labels]
    BY <1>1 DEF Labels
  <2>2. \A r \in Requests : DOMAIN got[r] \subseteq Ids
    BY <1>1, Nothing
  <2>3. \A r \in Requests : IsChanges(tx[r]) /\ IsChanges(work[r])
    BY <1>1, Nothing
  <2> QED
    BY <1>1, <1>2, <2>1, <2>2, <2>3 DEF TypeOK, Shapes
<1>6. ASSUME NEW r \in Requests PROVE RowsOf(home, r) /\ Control(r)
  <2>1. /\ tx[r] = NoChanges /\ work[r] = NoChanges /\ got[r] = NoRows /\ list[r] = <<>>
        /\ at[r] \in {"done", "arrive"}
    BY <1>1
  <2>2. RowsOf(home, r)
    BY <2>1, Nothing DEF RowsOf
  <2>3. Quiet(r) /\ Plain(work[r]) /\ Imports(r) /\ Writes(r)
    BY <2>1, Nothing DEF Quiet, Imports, Writes
  <2>4. Reads(r) /\ Captures(r)
    BY <2>1, Nothing DEF Reads, Captures
  <2> QED
    BY <2>2, <2>3, <2>4 DEF Control
<1> QED
  BY <1>3, <1>4, <1>5, <1>6 DEF Legal, SomeHome

(* Whatever the handlers do side by side, a tag keeps its group, a handler
   has flushed what it changed before its next read, and each transaction
   holds changes of the kinds its request makes. *)
THEOREM StaysLegal == Spec => []SomeHome
<1>1. Init => SomeHome
  BY StartIsLegal
<1>2. SomeHome /\ [Next]_vars => SomeHome'
  BY StepsAreLegal, StutterIsLegal DEF Next
<1> QED
  BY <1>1, <1>2, PTL DEF Spec

(* Rows, changes and labels are of their kinds, and no id of a row is one
   that was never drawn, whatever the handlers do side by side. *)
THEOREM TypeCorrect == Spec => []TypeOK
<1>1. SomeHome => TypeOK
  BY DEF SomeHome, Legal
<1> QED
  BY <1>1, StaysLegal, PTL

-----------------------------------------------------------------------------
(* What is committed, and what every open transaction sees, is sound. *)

Consistent ==
  /\ Sound(db)
  /\ \A r \in Requests : Sound(Sees(r))
  /\ \A r, o \in Requests : r # o => Apart(tx[r], tx[o])

LEMMA SoundBySame ==
  ASSUME NEW old, NEW new, DOMAIN new = DOMAIN old, \A i \in DOMAIN old : new[i] = old[i], Sound(old)
  PROVE  Sound(new)
<1>1. \A x : x \in ParentsIn(new) => x \in ParentsIn(old)
  BY DEF ParentsIn
<1>2. Distinct(new)
  BY DEF Sound, Distinct
<1> QED
  BY <1>1, <1>2 DEF Sound

LEMMA ApartNothing ==
  ASSUME NEW c
  PROVE  Apart(NoChanges, c) /\ Apart(c, NoChanges)
<1>1. /\ DOMAIN NoChanges.ins = {} /\ DOMAIN NoChanges.upd = {} /\ NoChanges.del = {}
      /\ Touched(NoChanges) = {}
  BY Nothing
<1>2. ParentsIn(NoChanges.ins) = {} /\ UniqueIn(NoChanges.ins) = {} /\ UniqueIn(NoChanges.upd) = {}
  BY <1>1 DEF ParentsIn, UniqueIn
<1> QED
  BY <1>1, <1>2 DEF Apart

LEMMA ApartBothWays ==
  ASSUME NEW a, NEW b, Apart(a, b)
  PROVE  Apart(b, a)
BY DEF Apart

(* A flush that waits for nobody takes nothing another transaction holds. *)
LEMMA NotBlockedIsApart ==
  ASSUME NEW c, NEW open, ~Blocks(c, open)
  PROVE  Apart(c, open)
BY DEF Blocks, Apart, Withheld, InDoubt

LEMMA RollbackIsConsistent ==
  ASSUME Consistent, Shapes, NEW r \in Requests, db' = db, tx' = [tx EXCEPT ![r] = NoChanges]
  PROVE  Consistent'
<1>1. tx'[r] = NoChanges /\ \A o \in Requests \ {r} : tx'[o] = tx[o]
  BY DEF Shapes
<1>2. ASSUME NEW q \in Requests PROVE Sound(Sees(q))'
  <2>1. CASE q = r
    <3>1. Sound(After(db, NoChanges))
      BY Nothing, AfterNothing DEF Consistent
    <3> QED
      BY <1>1, <2>1, <3>1 DEF Sees
  <2>2. CASE q # r
    BY <1>1, <2>2 DEF Consistent, Sees
  <2> QED
    BY <2>1, <2>2
<1>3. ASSUME NEW q \in Requests, NEW o \in Requests, q # o PROVE Apart(tx'[q], tx'[o])
  BY <1>1, <1>3, ApartNothing DEF Consistent
<1> QED
  BY <1>2, <1>3 DEF Consistent

LEMMA CommitIsConsistent ==
  ASSUME NEW home \in [Tags -> Groups], Legal(home), Consistent, NEW r \in Requests,
         db' = After(db, tx[r]), tx' = [tx EXCEPT ![r] = NoChanges]
  PROVE  Consistent'
<1>1. tx'[r] = NoChanges /\ \A o \in Requests \ {r} : tx'[o] = tx[o]
  BY DEF Legal, Shapes
<1>2. Sound(db')
  BY DEF Consistent, Sees
<1>3. ASSUME NEW q \in Requests PROVE Sound(Sees(q))'
  <2>1. CASE q = r
    <3>1. Sound(After(db', NoChanges))
      BY <1>2, Nothing, AfterNothing
    <3> QED
      BY <1>1, <2>1, <3>1 DEF Sees
  <2>2. CASE q # r
    <3>1. HasHome(home, db) /\ ChangesHaveHome(home, tx[r]) /\ ChangesHaveHome(home, tx[q])
      BY DEF Legal, RowsOf
    <3>2. /\ Sound(db) /\ Sound(After(db, tx[r])) /\ Sound(After(db, tx[q]))
          /\ Apart(tx[r], tx[q])
      BY <2>2 DEF Consistent, Sees
    <3>3. Sound(After(After(db, tx[r]), tx[q]))
      BY <3>1, <3>2, CommitIsSound, Zenon
    <3> QED
      BY <1>1, <2>2, <3>3 DEF Sees
  <2> QED
    BY <2>1, <2>2
<1>4. ASSUME NEW q \in Requests, NEW o \in Requests, q # o PROVE Apart(tx'[q], tx'[o])
  BY <1>1, <1>4, ApartNothing DEF Consistent
<1> QED
  BY <1>2, <1>3, <1>4 DEF Consistent

(* The values of a cached snapshot are inserted and committed at once. *)
LEMMA CaptureIsConsistent ==
  ASSUME NEW home \in [Tags -> Groups], Legal(home), Consistent, NEW r \in Requests, BulkInsert(r),
         ~Fail(r, 500)
  PROVE  Consistent'
<1> DEFINE c == Insert(Captured(r))
<1>1. /\ Creates(r, "bulk") /\ WaitsFor(r, c) = {} /\ ~Violates(db, c)
      /\ db' = After(db, c) /\ tx' = tx
  BY DEF BulkInsert
<1>2. ChangesHaveHome(home, c) /\ Plain(c) /\ InsertsOnly(c)
  BY <1>1, ValuesCaptured
<1> HIDE DEF c
<1>3. HasHome(home, db) /\ Sound(db)
  BY DEF Legal, Consistent
<1>4. Sound(db')
  <2>1. Closed(home, DOMAIN db, c.del)
    BY <1>2 DEF Closed, InsertsOnly
  <2>2. Sound(After(db, c))
    BY <1>1, <1>2, <1>3, <2>1, FlushIsSound, Zenon
  <2> QED
    BY <1>1, <2>2
<1>5. ASSUME NEW q \in Requests PROVE Sound(Sees(q))'
  <2>1. CASE q = r
    <3>1. Control(r) /\ Call(r).op = "create_snapshot" /\ at[r] = "bulk"
      BY <1>1 DEF Legal, Creates, At
    <3>2. Touched(tx[r]) = {}
      BY <3>1 DEF Control, Captures, Touched, InsertsOnly
    <3>3. Sound(After(db', tx[r]))
      BY <1>4, <3>2, AfterNothing
    <3> QED
      BY <1>1, <2>1, <3>3 DEF Sees
  <2>2. CASE q # r
    <3>1. ~Blocks(c, tx[q])
      BY <1>1, <2>2 DEF WaitsFor
    <3>2. Apart(c, tx[q])
      BY <3>1, NotBlockedIsApart
    <3>3. ChangesHaveHome(home, tx[q]) /\ Sound(After(db, c)) /\ Sound(After(db, tx[q]))
      BY <1>1, <1>4 DEF Legal, RowsOf, Consistent, Sees
    <3>4. Sound(After(After(db, c), tx[q]))
      BY <1>2, <1>3, <3>2, <3>3, CommitIsSound, Zenon
    <3> QED
      BY <1>1, <3>4 DEF Sees
  <2> QED
    BY <2>1, <2>2
<1> QED
  BY <1>1, <1>4, <1>5 DEF Consistent

LEMMA FlushIsConsistent ==
  ASSUME NEW home \in [Tags -> Groups], Legal(home), Consistent, NEW r \in Requests, FlushDone(r)
  PROVE  Consistent'
<1> DEFINE a == tx[r]
           c == Effect(r)
           m == tx'[r]
<1>1. at[r] = "flush" /\ WaitsFor(r, c) = {} /\ ~Violates(Sees(r), c) /\ db' = db
  BY DEF FlushDone
<1>2. Merges(m, a, c) /\ \A o \in Requests \ {r} : tx'[o] = tx[o]
  BY FlushMerges
<1>3. InsertsOnly(a) /\ (Touched(a) = {} \/ InsertsOnly(c))
  BY <1>1, AtFlush, EffectIs
<1>4. ChangesHaveHome(home, c) /\ Plain(c) /\ Closed(home, DOMAIN Sees(r), c.del)
  BY EffectIs
<1>5. HasHome(home, Sees(r)) /\ Sound(Sees(r))
  BY RowsSeen DEF Consistent
<1>6. Sound(After(Sees(r), c))
  BY <1>1, <1>4, <1>5, FlushIsSound, Zenon
<1> HIDE DEF c, m
<1>7. Sound(Sees(r))'
  <2> DEFINE old == After(Sees(r), c)
             new == After(db, m)
  <2>1. /\ DOMAIN a.upd = {} /\ a.del = {}
        /\ DOMAIN a.ins = {} \/ (DOMAIN c.upd = {} /\ c.del = {})
    BY <1>3 DEF InsertsOnly, Touched
  <2>2. DOMAIN Sees(r) = DOMAIN db \cup DOMAIN a.ins
    BY <2>1 DEF Sees, After
  <2>3. DOMAIN new = DOMAIN old
    BY <1>2, <2>1, <2>2 DEF After, Merges
  <2>4. ASSUME NEW i \in DOMAIN old PROVE new[i] = old[i]
    <3>1. CASE i \in DOMAIN c.ins
      BY <1>2, <2>3, <2>4, <3>1 DEF After, Merges
    <3>2. CASE i \notin DOMAIN c.ins /\ i \in DOMAIN c.upd
      <4>1. DOMAIN a.ins = {}
        BY <2>1, <3>2
      <4> QED
        BY <1>2, <2>3, <2>4, <3>2, <4>1 DEF After, Merges
    <3>3. CASE i \notin DOMAIN c.ins /\ i \notin DOMAIN c.upd
      <4>1. old[i] = Sees(r)[i] /\ i \in DOMAIN Sees(r)
        BY <2>4, <3>3 DEF After
      <4>2. CASE i \in DOMAIN a.ins
        <5>1. Sees(r)[i] = a.ins[i]
          BY <4>1, <4>2 DEF Sees, After
        <5>2. new[i] = m.ins[i] /\ m.ins[i] = a.ins[i]
          BY <1>2, <2>3, <2>4, <3>3, <4>2 DEF After, Merges
        <5> QED
          BY <4>1, <5>1, <5>2
      <4>3. CASE i \notin DOMAIN a.ins
        <5>1. Sees(r)[i] = db[i]
          BY <2>1, <4>1, <4>3 DEF Sees, After
        <5>2. new[i] = db[i]
          BY <1>2, <2>1, <2>3, <2>4, <3>3, <4>3 DEF After, Merges
        <5> QED
          BY <4>1, <5>1, <5>2
      <4> QED
        BY <4>2, <4>3
    <3> QED
      BY <3>1, <3>2, <3>3
  <2> HIDE DEF new, old
  <2>5. Sound(new)
    BY <1>6, <2>3, <2>4, SoundBySame DEF old
  <2> QED
    BY <1>1, <2>5 DEF Sees, new, m
<1>8. ASSUME NEW o \in Requests, o # r PROVE Apart(m, tx[o])
  <2>1. ~Blocks(c, tx[o])
    BY <1>1, <1>8 DEF WaitsFor
  <2>2. Apart(a, tx[o]) /\ Apart(c, tx[o])
    BY <1>8, <2>1, NotBlockedIsApart DEF Consistent
  <2>3. Touched(m) = Touched(a) \cup Touched(c)
    BY <1>2 DEF Merges, Touched
  <2>4. ParentsIn(m.ins) \subseteq ParentsIn(a.ins) \cup ParentsIn(c.ins)
    BY <1>2 DEF Merges, ParentsIn
  <2>5. /\ UniqueIn(m.ins) \subseteq UniqueIn(a.ins) \cup UniqueIn(c.ins)
        /\ UniqueIn(m.upd) \subseteq UniqueIn(a.upd) \cup UniqueIn(c.upd)
    BY <1>2 DEF Merges, UniqueIn
  <2>6. m.del = a.del \cup c.del
    BY <1>2 DEF Merges
  <2> QED
    BY <2>2, <2>3, <2>4, <2>5, <2>6 DEF Apart
<1>9. ASSUME NEW q \in Requests, NEW o \in Requests, q # o PROVE Apart(tx'[q], tx'[o])
  <2>1. CASE q = r
    BY <1>2, <1>8, <1>9, <2>1 DEF m
  <2>2. CASE o = r
    BY <1>2, <1>8, <1>9, <2>2, ApartBothWays DEF m
  <2>3. CASE q # r /\ o # r
    BY <1>2, <1>9, <2>3 DEF Consistent
  <2> QED
    BY <2>1, <2>2, <2>3
<1>10. \A q \in Requests : Sound(Sees(q))'
  BY <1>1, <1>2, <1>7 DEF Consistent, Sees
<1> QED
  BY <1>1, <1>9, <1>10 DEF Consistent

(* What a step does to the rows. *)
LeavesRows == db' = db /\ tx' = tx
RollsBack(r) == db' = db /\ tx' = [tx EXCEPT ![r] = NoChanges]
Commits(r) == db' = After(db, tx[r]) /\ tx' = [tx EXCEPT ![r] = NoChanges]

(* Every step leaves the rows, rolls back, commits, flushes or bulk-inserts. *)
LEMMA StepKinds ==
  ASSUME NEW r \in Requests, Handler(r) \/ Statement(r)
  PROVE  LeavesRows \/ RollsBack(r) \/ Commits(r) \/ FlushDone(r) \/ (BulkInsert(r) /\ ~Fail(r, 500))
<1>1. \A l : Goto(r, l) => LeavesRows
  BY DEF Goto, LeavesRows
<1>2. \A rows, l : Keep(r, rows, l) => LeavesRows
  BY DEF Keep, LeavesRows
<1>3. \A c, l : Flush(r, c, l) => LeavesRows
  BY DEF Flush, LeavesRows
<1>4. \A s : Fail(r, s) => RollsBack(r)
  BY DEF Fail, RollsBack
<1>5. \A tasks : Continue(r, tasks) => LeavesRows
  BY DEF Continue, LeavesRows
<1>6. \A answers, l : Heard(r, answers, l) => LeavesRows
  BY DEF Heard, LeavesRows
<1>7. \A page, more : Paged(r, page, more) => LeavesRows
  BY DEF Paged, LeavesRows
<1>8. ASSUME TagStep(r) PROVE LeavesRows \/ RollsBack(r)
  <2>1. CASE CreateGroup(r) \/ GetGroup(r) \/ RenameGroup(r) \/ RefreshGroup(r) \/ DeleteGroup(r)
    <3>1. CASE CreateGroup(r) \/ GetGroup(r)
      BY <1>2, <1>3, <1>4, <3>1, Zenon DEF CreateGroup, GetGroup
    <3>2. CASE RenameGroup(r)
      BY <1>1, <1>3, <1>4, <3>2, Zenon DEF RenameGroup
    <3>3. CASE RefreshGroup(r) \/ DeleteGroup(r)
      BY <1>1, <1>3, <1>4, <3>3, Zenon DEF RefreshGroup, DeleteGroup
    <3> QED
      BY <2>1, <3>1, <3>2, <3>3
  <2>2. CASE \/ GetGroupOfTag(r) \/ AddTag(r) \/ UpdateTag(r) \/ RefreshTag(r) \/ RemoveTag(r)
             \/ ReloadGroup(r)
    <3>1. CASE AddTag(r)
      BY <1>1, <1>3, <1>4, <3>1, Zenon DEF AddTag
    <3>2. CASE GetGroupOfTag(r) \/ UpdateTag(r)
      BY <1>1, <1>3, <1>4, <3>2, Zenon DEF GetGroupOfTag, UpdateTag
    <3>3. CASE RefreshTag(r) \/ RemoveTag(r) \/ ReloadGroup(r)
      BY <1>1, <1>3, <1>4, <3>3, Zenon DEF RefreshTag, RemoveTag, ReloadGroup
    <3> QED
      BY <2>2, <3>1, <3>2, <3>3
  <2>3. CASE ImportGroup(r) \/ ImportTag(r) \/ ImportAddsTag(r) \/ ImportEnds(r)
    <3>1. CASE ImportGroup(r)
      BY <1>3, <1>4, <1>5, <3>1, Zenon DEF ImportGroup
    <3>2. CASE ImportTag(r) \/ ImportEnds(r)
      BY <1>1, <1>5, <3>2, Zenon DEF ImportTag, ImportEnds
    <3>3. CASE ImportAddsTag(r)
      BY <1>3, <1>5, <3>3, Zenon DEF ImportAddsTag
    <3> QED
      BY <2>3, <3>1, <3>2, <3>3
  <2>4. CASE ImportReads(r)
    BY <2>4 DEF ImportReads, LeavesRows
  <2> QED
    BY <1>8, <2>1, <2>2, <2>3, <2>4 DEF TagStep
<1>9. ASSUME PVStep(r) PROVE LeavesRows \/ RollsBack(r)
  <2>1. CASE CheckSetpoints(r) \/ GetPV(r) \/ UpdatePV(r) \/ RefreshPV(r) \/ DeletePV(r)
    <3>1. CASE CheckSetpoints(r) \/ RefreshPV(r)
      BY <1>1, <1>4, <3>1, Zenon DEF CheckSetpoints, RefreshPV
    <3>2. CASE GetPV(r) \/ UpdatePV(r) \/ DeletePV(r)
      BY <1>2, <1>3, <1>4, <3>2, Zenon DEF GetPV, UpdatePV, DeletePV
    <3> QED
      BY <2>1, <3>1, <3>2
  <2>2. CASE InsertPVs(r)
    <3>1. Fail(r, 409) \/ \E c : Flush(r, c, "answer")
      BY <2>2, Zenon DEF InsertPVs
    <3> QED
      BY <1>3, <1>4, <3>1, Zenon
  <2>3. CASE WalkPVs(r) \/ SearchPVs(r)
    BY <1>7, <2>3, Zenon DEF WalkPVs, SearchPVs
  <2> QED
    BY <1>9, <2>1, <2>2, <2>3 DEF PVStep
<1>10. ASSUME KeyStep(r) PROVE LeavesRows \/ RollsBack(r)
  BY <1>1, <1>3, <1>4, <1>10, Zenon DEF KeyStep, Arrive, CreateKey, DeactivateKey
<1>11. ASSUME SnapshotStep(r)
       PROVE  LeavesRows \/ RollsBack(r) \/ Commits(r) \/ (BulkInsert(r) /\ ~Fail(r, 500))
  <2>1. CASE BeginRead(r) \/ ReadValues(r)
    BY <2>1 DEF BeginRead, ReadValues, LeavesRows
  <2>2. CASE LoadSnapshot(r)
    <3>1. Fail(r, 404) \/ LeavesRows
      BY <2>2 DEF LoadSnapshot, LeavesRows
    <3> QED
      BY <1>4, <3>1, Zenon
  <2>3. CASE ReadPVs(r) \/ UpdateSnapshot(r) \/ DeleteSnapshot(r) \/ ReadAddresses(r) \/ ReadCache(r)
    BY <1>1, <1>2, <1>3, <1>4, <2>3, Zenon DEF ReadPVs, UpdateSnapshot, DeleteSnapshot, ReadAddresses, ReadCache
  <2>4. CASE ReadCA(r) \/ ReadPVA(r) \/ ReadFallback(r)
    BY <1>6, <2>4, Zenon DEF ReadCA, ReadPVA, ReadFallback
  <2>5. CASE InsertSnapshot(r) \/ InsertValues(r)
    <3>1. \E c, l : Flush(r, c, l)
      BY <2>5, Zenon DEF InsertSnapshot, InsertValues
    <3> QED
      BY <1>3, <3>1, Zenon
  <2>6. CASE CommitSnapshot(r)
    BY <2>6 DEF CommitSnapshot, Commits
  <2>7. CASE BulkInsert(r)
    BY <1>4, <2>7, Zenon
  <2> QED
    BY <1>11, <2>1, <2>2, <2>3, <2>4, <2>5, <2>6, <2>7 DEF SnapshotStep
<1>12. ASSUME Raised(r) PROVE LeavesRows \/ RollsBack(r)
  <2>1. Goto(r, "task") \/ \E s : Fail(r, s)
    BY <1>12 DEF Raised
  <2> QED
    BY <1>1, <1>4, <2>1, Zenon
<1>13. Answer(r) => LeavesRows
  BY DEF Answer, LeavesRows
<1>14. Commit(r) => RollsBack(r) \/ Commits(r)
  BY DEF Commit, RollsBack, Commits
<1>15. FlushFails(r) \/ Deadlock(r) => RollsBack(r)
  BY DEF FlushFails, Deadlock, FlushRaises, RollsBack
<1> QED
  BY <1>8, <1>9, <1>10, <1>11, <1>12, <1>13, <1>14, <1>15 DEF Handler, Statement

LEMMA StepsAreConsistent ==
  ASSUME SomeHome, Consistent, NEW r \in Requests, Handler(r) \/ Statement(r)
  PROVE  Consistent'
<1>1. PICK home \in [Tags -> Groups] : Legal(home)
  BY DEF SomeHome
<1>2. CASE LeavesRows
  BY <1>2 DEF LeavesRows, Consistent, Sees
<1>3. CASE RollsBack(r)
  BY <1>1, <1>3, RollbackIsConsistent DEF RollsBack, Legal
<1>4. CASE Commits(r)
  BY <1>1, <1>4, CommitIsConsistent DEF Commits
<1>5. CASE FlushDone(r)
  BY <1>1, <1>5, FlushIsConsistent
<1>6. CASE BulkInsert(r) /\ ~Fail(r, 500)
  BY <1>1, <1>6, CaptureIsConsistent
<1> QED
  BY <1>2, <1>3, <1>4, <1>5, <1>6, StepKinds

LEMMA StartIsConsistent ==
  ASSUME Init
  PROVE  Consistent
<1>1. tx = [r \in Requests |-> NoChanges] /\ scenario \in Scenarios /\ db = scenario.rows
  BY DEF Init
<1>2. Sound(db)
  BY <1>1, ScenariosAssumption DEF Sound
<1>3. Sound(After(db, NoChanges))
  BY <1>2, Nothing, AfterNothing
<1>4. \A r \in Requests : Sound(Sees(r))
  BY <1>1, <1>3 DEF Sees
<1>5. \A r, o \in Requests : Apart(tx[r], tx[o])
  BY <1>1, ApartNothing
<1> QED
  BY <1>2, <1>4, <1>5 DEF Consistent

(* The committed rows and what every open transaction sees are sound, and
   no two open transactions have changed the same rows, taken the same
   unique names, or inserted under a row the other deletes. *)
THEOREM StaysConsistent == Spec => []Consistent
<1>1. Init => Consistent
  BY StartIsConsistent
<1>2. SomeHome /\ Consistent /\ [Next]_vars => Consistent'
  <2>1. UNCHANGED vars /\ Consistent => Consistent'
    BY DEF vars, Consistent, Sees
  <2> QED
    BY <2>1, StepsAreConsistent DEF Next
<1> QED
  BY <1>1, <1>2, StaysLegal, PTL DEF Spec

LEMMA SoundKeepsSchema ==
  ASSUME Sound(db)
  PROVE  SchemaHolds
<1>1. \A i, j \in DOMAIN db : i # j => Unique(i, db[i]) \cap Unique(j, db[j]) = {}
  BY DEF Sound, Distinct
<1>2. ASSUME NEW i \in Groups \cap DOMAIN db, NEW j \in Groups \cap DOMAIN db, db[i].name = db[j].name
      PROVE  i = j
  <2>1. <<"tag_group.name", db[i].name>> \in Unique(i, db[i]) \cap Unique(j, db[j])
    BY <1>2 DEF Unique
  <2> QED
    BY <1>1, <2>1
<1>3. ASSUME NEW i \in PVs \cap DOMAIN db, NEW j \in PVs \cap DOMAIN db, db[i].name = db[j].name
      PROVE  i = j
  <2>1. <<"pv.setpoint_address", db[i].name>> \in Unique(i, db[i]) \cap Unique(j, db[j])
    BY <1>3 DEF Unique
  <2> QED
    BY <1>1, <2>1
<1>4. ASSUME NEW i \in ActiveKeys, NEW j \in ActiveKeys, db[i].name = db[j].name
      PROVE  i = j
  <2>1. /\ i \in Keys /\ db[i].active /\ i \in DOMAIN db
        /\ j \in Keys /\ db[j].active /\ j \in DOMAIN db
    BY <1>4 DEF ActiveKeys
  <2>2. /\ <<"api_key.app_name", db[i].name>> \in Unique(i, db[i])
        /\ <<"api_key.app_name", db[j].name>> \in Unique(j, db[j])
    BY <2>1 DEF Unique
  <2> QED
    BY <1>1, <1>4, <2>1, <2>2
<1>5. ParentsIn(db) \subseteq DOMAIN db
  BY DEF Sound
<1> QED
  BY <1>2, <1>3, <1>4, <1>5 DEF SchemaHolds

(* No two groups, PVs or active keys have one name, and no tag, link or
   value is left without its parents: the locks PostgreSQL takes are enough
   for handlers that check first and insert later, and for deletions that
   cascade while others insert. *)
THEOREM SchemaStands == Spec => []SchemaHolds
<1>1. Consistent => SchemaHolds
  BY SoundKeepsSchema DEF Consistent
<1> QED
  BY <1>1, StaysConsistent, PTL

-----------------------------------------------------------------------------
(* What a request has answered and stored on its way *)

Told(r) ==
  \/ stored[r] <=> status[r] = 200
  \/ Call(r).op = "bulk_import" /\ broken[r]
  \/ Call(r).op = "create_snapshot" /\ Call(r).cached /\ status[r] = 500

Walks(r) == Call(r).op \in {"walk", "search"} /\ at[r] = "more"
Finishes(r) == at[r] = "commit" \/ (at[r] = "flush" /\ next[r] = "commit")
FromCache(r) == at[r] \in {"cache", "check", "commitNow", "bulk"} \/ (at[r] = "flush" /\ next[r] = "commitNow")

Settled(r) ==
  /\ stored[r] /\ at[r] # "done" =>
       \/ Walks(r)
       \/ /\ Call(r).op = "create_snapshot" /\ Call(r).cached
          /\ at[r] \in {"bulk", "answer", "commit"}
  /\ status[r] # 0 /\ at[r] # "done" => Walks(r) \/ Finishes(r)
  /\ Finishes(r) => status[r] = 200
  /\ broken[r] => Call(r).op = "bulk_import" \/ at[r] \in {"integrity", "failed", "done"}
  /\ Call(r).op = "create_snapshot" /\ FromCache(r) => Call(r).cached
  /\ Ended(r) => Told(r)

(* Three kinds of steps of a handler at work. *)
Working == {"arrive", "read", "check", "tags", "reload", "task", "group", "load", "page", "tolerances",
            "cache", "direct", "ca", "pva", "fallback", "insert", "values"}
Same == UNCHANGED <<scenario, status, stored, broken>>

Goes(r, l) ==
  /\ at' = [at EXCEPT ![r] = l] /\ next' = next /\ Same
  /\ at[r] \in Working \/ (at[r] \in {"integrity", "failed"} /\ Call(r).op = "bulk_import")
  /\ l \in (Working \ {"arrive"}) \cup {"answer"}
  /\ Call(r).op = "create_snapshot" =>
       (l = "check" => at[r] = "cache") /\ (l = "cache" => Call(r).cached)
Flushes(r, l) ==
  /\ at' = [at EXCEPT ![r] = "flush"] /\ next' = [next EXCEPT ![r] = l] /\ Same
  /\ at[r] \in Working /\ l # "commit"
  /\ l = "commitNow" => at[r] = "check"
Fails(r, s) == Fail(r, s) /\ at[r] \in Working \cup {"bulk"} /\ s \in {401, 404, 409, 500}
               /\ (at[r] = "bulk" => s = 500 /\ Call(r).op = "create_snapshot")
Works(r) == (\E l : Goes(r, l)) \/ (\E l : Flushes(r, l)) \/ (\E s : Fails(r, s))

LEMMA TagsWork ==
  ASSUME NEW r \in Requests, TagStep(r)
  PROVE  Works(r)
<1> USE DEF At
<1>1. ASSUME NEW l \in {"check", "reload", "answer", "task"}, Goto(r, l), at[r] \in Working,
             Call(r).op # "create_snapshot"
      PROVE  Goes(r, l)
  BY <1>1 DEF Goto, Goes, Same, Working
<1>2. ASSUME NEW c, NEW l \in {"answer", "reload", "task", "group"}, Flush(r, c, l), at[r] \in Working
      PROVE  Flushes(r, l)
  BY <1>2 DEF Flush, Flushes, Same
<1>3. ASSUME NEW s \in {401, 404, 409, 500}, Fail(r, s), at[r] \in Working
      PROVE  Fails(r, s)
  BY <1>3 DEF Fails, Working
<1>4. ASSUME NEW tasks, Continue(r, tasks), at[r] \in Working, Call(r).op = "bulk_import"
      PROVE  Goes(r, "task")
  BY <1>4 DEF Continue, Goes, Same, Working
<1>5. {"read", "check", "reload", "task", "group"} \subseteq Working
  BY DEF Working
<1>6. CASE CreateGroup(r)
  BY <1>2, <1>3, <1>5, <1>6 DEF CreateGroup, Works
<1>7. CASE GetGroup(r)
  <2>1. at[r] = "read" /\ Call(r).op = "update_group"
    BY <1>7 DEF GetGroup
  <2>2. CASE Fail(r, 404)
    BY <1>3, <1>5, <2>1, <2>2 DEF Works
  <2>3. CASE \E rows : Keep(r, rows, "check")
    BY <1>5, <2>1, <2>3 DEF Keep, Works, Goes, Same, Working
  <2> QED
    BY <1>7, <2>2, <2>3 DEF GetGroup
<1>8. CASE RenameGroup(r)
  BY <1>1, <1>2, <1>3, <1>5, <1>8 DEF RenameGroup, Works
<1>9. CASE RefreshGroup(r) \/ GetGroupOfTag(r) \/ RefreshTag(r) \/ ReloadGroup(r)
  BY <1>1, <1>3, <1>5, <1>9 DEF RefreshGroup, GetGroupOfTag, RefreshTag, ReloadGroup, Works
<1>10. CASE DeleteGroup(r) \/ RemoveTag(r)
  BY <1>2, <1>3, <1>5, <1>10 DEF DeleteGroup, RemoveTag, Works
<1>11. CASE AddTag(r)
  BY <1>1, <1>2, <1>3, <1>5, <1>11 DEF AddTag, Works
<1>12. CASE UpdateTag(r)
  BY <1>1, <1>2, <1>3, <1>5, <1>12 DEF UpdateTag, Works
<1>13. CASE ImportReads(r)
  BY <1>13 DEF ImportReads, Works, Goes, Same, Working
<1>14. CASE ImportGroup(r)
  <2>1. at[r] \in Working /\ Call(r).op = "bulk_import"
    BY <1>5, <1>14 DEF ImportGroup, Importing
  <2>2. (\E tasks : Continue(r, tasks)) \/ Fail(r, 500) \/ \E c : Flush(r, c, "group")
    BY <1>14, Zenon DEF ImportGroup
  <2> QED
    BY <1>2, <1>3, <1>4, <2>1, <2>2 DEF Works
<1>15. CASE ImportTag(r) \/ ImportEnds(r)
  BY <1>1, <1>4, <1>5, <1>15 DEF ImportTag, ImportEnds, Importing, Works
<1>16. CASE ImportAddsTag(r)
  BY <1>2, <1>4, <1>5, <1>16 DEF ImportAddsTag, Works
<1> QED
  BY <1>6, <1>7, <1>8, <1>9, <1>10, <1>11, <1>12, <1>13, <1>14, <1>15, <1>16 DEF TagStep

LEMMA KeysWork ==
  ASSUME NEW r \in Requests, KeyStep(r)
  PROVE  Works(r)
<1>1. ASSUME Goto(r, "read"), at[r] = "arrive" PROVE Goes(r, "read")
  BY <1>1 DEF Goto, Goes, Same, Working
<1>2. ASSUME NEW c, Flush(r, c, "answer"), at[r] = "read" PROVE Flushes(r, "answer")
  BY <1>2 DEF Flush, Flushes, Same, Working
<1>3. ASSUME NEW s \in {401, 404, 409, 500}, Fail(r, s), at[r] \in {"arrive", "read"} PROVE Fails(r, s)
  BY <1>3 DEF Fails, Working
<1>4. CASE Arrive(r)
  BY <1>1, <1>3, <1>4 DEF Arrive, Works
<1>5. CASE CreateKey(r)
  BY <1>2, <1>3, <1>5 DEF CreateKey, At, Works
<1>6. CASE DeactivateKey(r)
  BY <1>2, <1>3, <1>6 DEF DeactivateKey, At, Works
<1> QED
  BY <1>4, <1>5, <1>6 DEF KeyStep

LEMMA PVsWork ==
  ASSUME NEW r \in Requests, PVStep(r)
  PROVE  Works(r) \/ (/\ Call(r).op \in {"walk", "search"} /\ at[r] \in {"read", "more"}
                       /\ \E page, more : Paged(r, page, more))
<1> USE DEF At
<1>1. ASSUME NEW l \in {"tags", "answer"}, Goto(r, l), at[r] \in Working PROVE Goes(r, l)
  BY <1>1 DEF Goto, Goes, Same, Working
<1>2. ASSUME NEW c, NEW l \in {"answer", "reload"}, Flush(r, c, l), at[r] \in Working PROVE Flushes(r, l)
  BY <1>2 DEF Flush, Flushes, Same
<1>3. ASSUME NEW s \in {401, 404, 409, 500}, Fail(r, s), at[r] \in Working PROVE Fails(r, s)
  BY <1>3 DEF Fails, Working
<1>4. {"read", "tags", "reload"} \subseteq Working
  BY DEF Working
<1>5. CASE CheckSetpoints(r) \/ RefreshPV(r)
  BY <1>1, <1>3, <1>4, <1>5 DEF CheckSetpoints, RefreshPV, Works
<1>6. CASE InsertPVs(r)
  <2>1. at[r] = "tags" /\ (Fail(r, 409) \/ \E c : Flush(r, c, "answer"))
    BY <1>6, Zenon DEF InsertPVs
  <2> QED
    BY <1>2, <1>3, <1>4, <2>1 DEF Works
<1>7. CASE GetPV(r)
  <2>1. at[r] = "read" /\ Call(r).op = "update_pv"
    BY <1>7 DEF GetPV
  <2>2. CASE Fail(r, 404)
    BY <1>3, <1>4, <2>1, <2>2 DEF Works
  <2>3. CASE \E rows : Keep(r, rows, "tags")
    BY <2>1, <2>3 DEF Keep, Works, Goes, Same, Working
  <2> QED
    BY <1>7, <2>2, <2>3 DEF GetPV
<1>8. CASE UpdatePV(r)
  <2>1. at[r] = "tags" /\ \E c : Flush(r, c, "reload")
    BY <1>8, Zenon DEF UpdatePV
  <2> QED
    BY <1>2, <1>4, <2>1 DEF Works
<1>9. CASE DeletePV(r)
  BY <1>2, <1>3, <1>4, <1>9 DEF DeletePV, Works
<1>10. CASE WalkPVs(r) \/ SearchPVs(r)
  BY <1>10 DEF WalkPVs, SearchPVs, Walking
<1> QED
  BY <1>5, <1>6, <1>7, <1>8, <1>9, <1>10 DEF PVStep

LEMMA SnapshotsWork ==
  ASSUME NEW r \in Requests, SnapshotStep(r)
  PROVE  Works(r) \/ CommitSnapshot(r) \/ (BulkInsert(r) /\ ~Fail(r, 500))
<1> USE DEF At, Creates
<1>1. ASSUME NEW c, NEW l \in {"answer", "values", "commitNow"}, Flush(r, c, l), at[r] \in Working,
             l = "commitNow" => at[r] = "check"
      PROVE  Flushes(r, l)
  BY <1>1 DEF Flush, Flushes, Same
<1>2. ASSUME NEW s \in {401, 404, 409, 500}, Fail(r, s), at[r] \in Working PROVE Fails(r, s)
  BY <1>2 DEF Fails, Working
<1>3. CASE BeginRead(r)
  BY <1>3 DEF BeginRead, Reading, Works, Goes, Same, Working
<1>4. CASE LoadSnapshot(r)
  <2>1. at[r] = "load" /\ Call(r).op # "create_snapshot"
    BY <1>4 DEF LoadSnapshot, Reading
  <2>2. CASE Fail(r, 404)
    BY <1>2, <2>1, <2>2 DEF Works, Working
  <2>3. CASE ~Fail(r, 404)
    BY <1>4, <2>1, <2>3 DEF LoadSnapshot, Works, Goes, Same, Working
  <2> QED
    BY <2>2, <2>3
<1>5. CASE ReadValues(r)
  <2>1. at[r] = "page" /\ Call(r).op # "create_snapshot"
    BY <1>5 DEF ReadValues, Reading
  <2>2. \E l \in {"load", "tolerances"} : at' = [at EXCEPT ![r] = l] /\ next' = next /\ Same
    BY <1>5 DEF ReadValues, Same
  <2> QED
    BY <2>1, <2>2 DEF Works, Goes, Working
<1>6. CASE ReadPVs(r)
  BY <1>6 DEF ReadPVs, Reading, Keep, Works, Goes, Same, Working
<1>7. CASE UpdateSnapshot(r) \/ DeleteSnapshot(r)
  BY <1>1, <1>2, <1>7 DEF UpdateSnapshot, DeleteSnapshot, Works, Working
<1>8. CASE ReadAddresses(r)
  <2>1. /\ at[r] \in {"read", "direct"} /\ next' = next /\ Same
        /\ \/ at' = [at EXCEPT ![r] = "cache"] /\ Call(r).cached
           \/ at' = [at EXCEPT ![r] = "ca"]
    BY <1>8 DEF ReadAddresses, Keep, Same
  <2> QED
    BY <2>1 DEF Works, Goes, Working
<1>9. CASE ReadCache(r)
  BY <1>9 DEF ReadCache, Goto, Works, Goes, Same, Working
<1>10. CASE ReadCA(r) \/ ReadPVA(r) \/ ReadFallback(r)
  <2>1. \E l \in {"pva", "fallback", "insert"} : at' = [at EXCEPT ![r] = l]
    BY <1>10 DEF ReadCA, ReadPVA, ReadFallback, Heard
  <2>2. at[r] \in {"ca", "pva", "fallback"} /\ next' = next /\ Same
    BY <1>10 DEF ReadCA, ReadPVA, ReadFallback, Heard, Same
  <2> QED
    BY <2>1, <2>2 DEF Works, Goes, Working
<1>11. CASE InsertSnapshot(r)
  <2>1. /\ at[r] \in {"check", "insert"}
        /\ \E c : Flush(r, c, IF at[r] = "check" THEN "commitNow" ELSE "values")
    BY <1>11, Zenon DEF InsertSnapshot
  <2> QED
    BY <1>1, <2>1 DEF Works, Working
<1>12. CASE InsertValues(r)
  <2>1. at[r] = "values" /\ \E c : Flush(r, c, "answer")
    BY <1>12, Zenon DEF InsertValues
  <2> QED
    BY <1>1, <2>1 DEF Works, Working
<1>13. CASE CommitSnapshot(r)
  BY <1>13
<1>14. CASE BulkInsert(r)
  <2>1. Fail(r, 500) => Fails(r, 500)
    BY <1>14 DEF BulkInsert, Fails
  <2> QED
    BY <1>14, <2>1 DEF Works
<1> QED
  BY <1>3, <1>4, <1>5, <1>6, <1>7, <1>8, <1>9, <1>10, <1>11, <1>12, <1>13, <1>14 DEF SnapshotStep

(* A reader's commit deletes values only, which no other transaction that
   waits has touched: it neither fails nor is the victim of a deadlock. *)
LEMMA ReadersCommit ==
  ASSUME NEW home \in [Tags -> Groups], Legal(home), NEW r \in Requests, Reading(r), at[r] = "flush"
  PROVE  ~FlushFails(r) /\ ~Deadlock(r)
<1> DEFINE c == Effect(r)
<1>1. DOMAIN work[r].ins = {} /\ DOMAIN work[r].upd = {} /\ work[r].del \subseteq Values
  BY DEF Legal, Control, Reads
<1>2. c.ins = work[r].ins /\ c.upd = work[r].upd /\ c.del \subseteq Values
  BY <1>1, EffectIs
<1> HIDE DEF c
<1>3. ParentsIn(c.ins) = {} /\ UniqueIn(c.ins) = {} /\ UniqueIn(c.upd) = {} /\ DOMAIN c.ins = {}
  BY <1>1, <1>2 DEF ParentsIn, UniqueIn
<1>4. ~Violates(Sees(r), c)
  BY <1>3 DEF Violates
<1>5. ~Stale(r) /\ ~Doubtful(r)
  <2>1. Values \cap Links = {}
    BY DEF Values, Links
  <2> QED
    BY <1>1, <2>1 DEF Stale, Doubtful
<1>6. ASSUME NEW o \in Requests, at[o] = "flush" PROVE ~Blocks(c, tx[o])
  <2>1. Touched(tx[o]) \subseteq Groups \cup Tags \cup Snapshots
    BY <1>6, AtFlush
  <2>2. ChangesHaveHome(home, tx[o])
    BY DEF Legal, RowsOf
  <2>3. ParentsIn(tx[o].ins) = UNION {ParentIds(home, i) : i \in DOMAIN tx[o].ins}
    BY <2>2, RootedRows, Zenon DEF ChangesHaveHome
  <2>4. \A i \in DOMAIN tx[o].ins : ParentIds(home, i) \cap Values = {}
    BY ParentKinds
  <2>5. ParentsIn(tx[o].ins) \cap Values = {}
    BY <2>3, <2>4
  <2>6. Touched(c) \subseteq Values /\ Withheld(c) \subseteq Values
    BY <1>1, <1>2 DEF Touched, Withheld
  <2>7. Values \cap (Groups \cup Tags \cup Snapshots) = {}
    OBVIOUS
  <2> QED
    BY <1>3, <2>1, <2>5, <2>6, <2>7 DEF Blocks
<1>7. ~Deadlock(r)
  <2> SUFFICES ASSUME NEW S \in SUBSET Requests,
                      \A s \in S : at[s] = "flush" /\ WaitsFor(s, Effect(s)) \cap S # {}, r \in S
               PROVE  FALSE
    BY DEF Deadlock
  <2>1. PICK o \in WaitsFor(r, c) : o \in S
    BY DEF c
  <2>2. o \in Requests /\ Blocks(c, tx[o]) /\ at[o] = "flush"
    BY <2>1 DEF WaitsFor
  <2> QED
    BY <1>6, <2>2
<1> QED
  BY <1>4, <1>5, <1>7 DEF FlushFails, c

LEMMA OthersSettled ==
  ASSUME NEW o, Settled(o), at'[o] = at[o], next'[o] = next[o], status'[o] = status[o],
         stored'[o] = stored[o], broken'[o] = broken[o], scenario' = scenario
  PROVE  Settled(o)'
<1>1. Call(o)' = Call(o)
  BY DEF Call
<1>2. Walks(o)' = Walks(o)
  BY <1>1 DEF Walks
<1>3. Finishes(o)' = Finishes(o)
  BY DEF Finishes
<1>4. FromCache(o)' = FromCache(o)
  BY DEF FromCache
<1>5. Ended(o)' = Ended(o)
  BY <1>1 DEF Ended
<1>6. Told(o)' = Told(o)
  BY <1>1 DEF Told
<1> QED
  BY <1>1, <1>2, <1>3, <1>4, <1>5, <1>6 DEF Settled

AllSettled == \A r \in Requests : Settled(r)

(* A handler at work stores nothing, and answers only when it fails. *)
LEMMA WorkSettles ==
  ASSUME TypeOK, AllSettled, NEW r \in Requests, Works(r)
  PROVE  AllSettled'
<1>1. Settled(r)
  BY DEF AllSettled
<1>2. ASSUME NEW l, Goes(r, l) PROVE AllSettled'
  <2>1. /\ at'[r] = l /\ \A o \in Requests \ {r} : at'[o] = at[o]
        /\ next' = next /\ UNCHANGED <<scenario, status, stored, broken>>
    BY <1>2 DEF Goes, Same, TypeOK
  <2>2. Call(r)' = Call(r)
    BY <2>1 DEF Call
  <2>3. at[r] \notin {"done", "commit", "flush", "more", "answer", "bulk"}
    BY <1>2 DEF Goes, Working
  <2>4. at'[r] \notin {"done", "commit", "flush", "more", "bulk", "commitNow"}
    BY <1>2, <2>1 DEF Goes, Working
  <2>5. stored[r] = FALSE /\ status[r] = 0
    BY <1>1, <2>3 DEF Settled, Walks, Finishes, TypeOK
  <2>6. broken[r] => Call(r).op = "bulk_import"
    <3>1. at[r] \notin {"integrity", "failed"} \/ Call(r).op = "bulk_import"
      BY <1>2 DEF Goes, Working
    <3> QED
      BY <1>1, <2>3, <3>1 DEF Settled
  <2>7. Call(r).op = "create_snapshot" /\ FromCache(r)' => Call(r).cached
    BY <1>1, <1>2, <2>1, <2>4 DEF Goes, Settled, FromCache
  <2>8. ~Finishes(r)' /\ ~Ended(r)'
    BY <2>4 DEF Finishes, Ended
  <2>9. Settled(r)'
    BY <2>1, <2>2, <2>5, <2>6, <2>7, <2>8 DEF Settled
  <2>10. \A o \in Requests \ {r} : Settled(o)'
    BY <2>1, OthersSettled DEF AllSettled
  <2> QED
    BY <2>9, <2>10 DEF AllSettled
<1>3. ASSUME NEW l, Flushes(r, l) PROVE AllSettled'
  <2>1. /\ at'[r] = "flush" /\ next'[r] = l
        /\ \A o \in Requests \ {r} : at'[o] = at[o] /\ next'[o] = next[o]
        /\ UNCHANGED <<scenario, status, stored, broken>>
    BY <1>3 DEF Flushes, Same, TypeOK
  <2>2. Call(r)' = Call(r)
    BY <2>1 DEF Call
  <2>3. at[r] \notin {"done", "commit", "flush", "more", "answer", "bulk", "integrity", "failed"}
    BY <1>3 DEF Flushes, Working
  <2>4. l # "commit" /\ (l = "commitNow" => at[r] = "check")
    BY <1>3 DEF Flushes
  <2>5. stored[r] = FALSE /\ status[r] = 0
    BY <1>1, <2>3 DEF Settled, Walks, Finishes, TypeOK
  <2>6. broken[r] => Call(r).op = "bulk_import"
    BY <1>1, <2>3 DEF Settled
  <2>7. Call(r).op = "create_snapshot" /\ FromCache(r)' => Call(r).cached
    BY <1>1, <2>1, <2>4 DEF Settled, FromCache
  <2>8. ~Finishes(r)' /\ ~Ended(r)'
    BY <2>1, <2>4 DEF Finishes, Ended
  <2>9. Settled(r)'
    BY <2>1, <2>2, <2>5, <2>6, <2>7, <2>8 DEF Settled
  <2>10. \A o \in Requests \ {r} : Settled(o)'
    BY <2>1, OthersSettled DEF AllSettled
  <2> QED
    BY <2>9, <2>10 DEF AllSettled
<1>4. ASSUME NEW s, Fails(r, s) PROVE AllSettled'
  <2>1. /\ at'[r] = "done" /\ status'[r] = s
        /\ \A o \in Requests \ {r} : at'[o] = at[o] /\ status'[o] = status[o]
        /\ UNCHANGED <<scenario, next, stored, broken>>
    BY <1>4 DEF Fails, Fail, TypeOK
  <2>2. Call(r)' = Call(r)
    BY <2>1 DEF Call
  <2>3. stored[r] => Call(r).op = "create_snapshot" /\ Call(r).cached /\ s = 500
    BY <1>1, <1>4 DEF Fails, Settled, Walks, Working
  <2>4. Told(r)'
    <3>1. CASE stored[r]
      BY <2>1, <2>2, <2>3, <3>1 DEF Told
    <3>2. CASE ~stored[r]
      <4>1. s # 200
        BY <1>4 DEF Fails
      <4>2. stored' = stored /\ stored[r] \in BOOLEAN
        BY <2>1 DEF TypeOK
      <4> QED
        BY <2>1, <3>2, <4>1, <4>2 DEF Told
    <3> QED
      BY <3>1, <3>2
  <2>5. ~Walks(r)' /\ ~Finishes(r)' /\ ~FromCache(r)'
    BY <2>1 DEF Walks, Finishes, FromCache
  <2>6. Settled(r)'
    BY <2>1, <2>4, <2>5 DEF Settled
  <2>7. \A o \in Requests \ {r} : Settled(o)'
    BY <2>1, OthersSettled DEF AllSettled
  <2> QED
    BY <2>6, <2>7 DEF AllSettled
<1> QED
  BY <1>2, <1>3, <1>4 DEF Works

LEMMA OneSettles ==
  ASSUME AllSettled, NEW r \in Requests, scenario' = scenario, Settled(r)',
         \A o \in Requests \ {r} :
           /\ at'[o] = at[o] /\ next'[o] = next[o] /\ status'[o] = status[o]
           /\ stored'[o] = stored[o] /\ broken'[o] = broken[o]
  PROVE  AllSettled'
BY OthersSettled DEF AllSettled

LEMMA AnswerSettles ==
  ASSUME TypeOK, AllSettled, NEW r \in Requests, Control(r), Answer(r)
  PROVE  AllSettled'
<1>1. Settled(r) /\ Quiet(r)
  BY DEF AllSettled, Control
<1>2. /\ at[r] = "answer" /\ status' = [status EXCEPT ![r] = 200]
      /\ UNCHANGED <<scenario, stored, broken>>
  BY DEF Answer
<1>3. /\ \/ work[r] = NoChanges /\ at' = [at EXCEPT ![r] = "commit"] /\ next' = next
         \/ work[r] # NoChanges /\ at' = [at EXCEPT ![r] = "flush"] /\ next' = [next EXCEPT ![r] = "commit"]
  BY DEF Answer
<1>4. /\ at'[r] = "commit" \/ (at'[r] = "flush" /\ next'[r] = "commit" /\ work[r] # NoChanges)
      /\ status'[r] = 200
  BY <1>2, <1>3 DEF TypeOK
<1>5. Call(r)' = Call(r)
  BY <1>2 DEF Call
<1>6. Finishes(r)' /\ ~FromCache(r)' /\ ~Ended(r)'
  BY <1>4 DEF Finishes, FromCache, Ended
<1>7. stored[r] => Call(r).op = "create_snapshot" /\ Call(r).cached /\ at'[r] = "commit"
  <2>1. stored[r] => Call(r).op = "create_snapshot" /\ Call(r).cached
    BY <1>1, <1>2 DEF Settled, Walks
  <2>2. Call(r).op = "create_snapshot" => work[r] = NoChanges
    BY <1>1, <1>2 DEF Quiet, Reading
  <2> QED
    BY <1>4, <2>1, <2>2
<1>8. broken[r] => Call(r).op = "bulk_import"
  BY <1>1, <1>2 DEF Settled
<1>9. Settled(r)'
  BY <1>2, <1>4, <1>5, <1>6, <1>7, <1>8 DEF Settled
<1>10. \A o \in Requests \ {r} : at'[o] = at[o] /\ next'[o] = next[o] /\ status'[o] = status[o]
  BY <1>2, <1>3 DEF TypeOK
<1> QED
  BY <1>2, <1>9, <1>10, OneSettles

LEMMA CommitSettles ==
  ASSUME TypeOK, AllSettled, NEW r \in Requests, Commit(r)
  PROVE  AllSettled'
<1>1. Settled(r)
  BY DEF AllSettled
<1>2. /\ at[r] = "commit" /\ at' = [at EXCEPT ![r] = "done"]
      /\ UNCHANGED <<scenario, next, status, broken>>
  BY DEF Commit
<1>3. (broken[r] /\ stored' = stored) \/ stored' = [stored EXCEPT ![r] = TRUE]
  BY DEF Commit
<1>4. at'[r] = "done" /\ (broken[r] \/ stored'[r] = TRUE) /\ status'[r] = 200
  BY <1>1, <1>2, <1>3 DEF Settled, Finishes, TypeOK
<1>5. Call(r)' = Call(r)
  BY <1>2 DEF Call
<1>6. broken[r] => Call(r).op = "bulk_import"
  BY <1>1, <1>2 DEF Settled
<1>7. Told(r)'
  <2>1. CASE broken[r]
    BY <1>2, <1>5, <1>6, <2>1 DEF Told
  <2>2. CASE ~broken[r]
    BY <1>4, <2>2 DEF Told
  <2> QED
    BY <2>1, <2>2
<1>8. ~Finishes(r)' /\ ~FromCache(r)'
  BY <1>4 DEF Finishes, FromCache
<1>9. Settled(r)'
  BY <1>4, <1>7, <1>8 DEF Settled
<1>10. \A o \in Requests \ {r} : at'[o] = at[o] /\ stored'[o] = stored[o]
  BY <1>2, <1>3 DEF TypeOK
<1> QED
  BY <1>2, <1>9, <1>10, OneSettles

(* A snapshot from the cache is committed, and answered after its values. *)
LEMMA CaptureSettles ==
  ASSUME TypeOK, AllSettled, NEW r \in Requests, CommitSnapshot(r) \/ (BulkInsert(r) /\ ~Fail(r, 500))
  PROVE  AllSettled'
<1>1. Settled(r)
  BY DEF AllSettled
<1>2. /\ at[r] \in {"commitNow", "bulk"} /\ Call(r).op = "create_snapshot"
      /\ \/ at' = [at EXCEPT ![r] = "bulk"] /\ stored' = [stored EXCEPT ![r] = TRUE]
         \/ at' = [at EXCEPT ![r] = "answer"] /\ stored' = stored
      /\ UNCHANGED <<scenario, next, status, broken>>
  BY DEF CommitSnapshot, BulkInsert, Creates, At
<1>3. at'[r] \in {"bulk", "answer"}
  BY <1>2 DEF TypeOK
<1>4. Call(r)' = Call(r)
  BY <1>2 DEF Call
<1>5. Call(r).cached /\ status[r] = 0
  BY <1>1, <1>2 DEF Settled, Walks, Finishes, FromCache
<1>6. ~broken[r]
  BY <1>1, <1>2 DEF Settled
<1>7. ~Finishes(r)' /\ ~Ended(r)'
  BY <1>3 DEF Finishes, Ended
<1>8. Settled(r)'
  BY <1>2, <1>3, <1>4, <1>5, <1>6, <1>7 DEF Settled
<1>9. \A o \in Requests \ {r} : at'[o] = at[o] /\ stored'[o] = stored[o]
  BY <1>2 DEF TypeOK
<1> QED
  BY <1>2, <1>8, <1>9, OneSettles

LEMMA PageSettles ==
  ASSUME TypeOK, AllSettled, NEW r \in Requests, Call(r).op \in {"walk", "search"}, at[r] \in {"read", "more"},
         NEW page, NEW more, Paged(r, page, more)
  PROVE  AllSettled'
<1>1. Settled(r)
  BY DEF AllSettled
<1>2. /\ at' = [at EXCEPT ![r] = "more"] \/ at' = [at EXCEPT ![r] = "done"]
      /\ status' = [status EXCEPT ![r] = 200] /\ stored' = [stored EXCEPT ![r] = TRUE]
      /\ UNCHANGED <<scenario, next, broken>>
  BY DEF Paged
<1>3. at'[r] \in {"more", "done"} /\ status'[r] = 200 /\ stored'[r] = TRUE
  BY <1>2 DEF TypeOK
<1>4. Call(r)' = Call(r)
  BY <1>2 DEF Call
<1>5. at'[r] # "done" => Walks(r)'
  BY <1>3, <1>4 DEF Walks
<1>6. ~broken[r] /\ Told(r)' /\ ~Finishes(r)' /\ ~FromCache(r)'
  BY <1>1, <1>3 DEF Settled, Told, Finishes, FromCache
<1>7. Settled(r)'
  BY <1>2, <1>5, <1>6 DEF Settled
<1>8. \A o \in Requests \ {r} : at'[o] = at[o] /\ stored'[o] = stored[o] /\ status'[o] = status[o]
  BY <1>2 DEF TypeOK
<1> QED
  BY <1>2, <1>7, <1>8, OneSettles

(* What follows a flush: the answer's commit, or a step before the answer. *)
LEMMA NextAfterFlush ==
  ASSUME NEW r \in Requests, Control(r), at[r] = "flush"
  PROVE  /\ next[r] \in {"commit", "group", "task", "values", "commitNow", "answer", "reload"}
         /\ ~Reading(r) => next[r] # "commit"
<1>1. CASE Reading(r)
  BY <1>1 DEF Control, Reads
<1>2. CASE Call(r).op = "bulk_import"
  BY <1>2 DEF Control, Imports
<1>3. CASE Call(r).op = "create_snapshot"
  BY <1>3 DEF Control, Captures
<1>4. CASE Single(r)
  BY <1>4 DEF Control, Writes
<1> QED
  BY <1>1, <1>2, <1>3, <1>4 DEF Single

LEMMA FlushSettles ==
  ASSUME TypeOK, AllSettled, NEW r \in Requests, Control(r), FlushDone(r)
  PROVE  AllSettled'
<1>1. Settled(r)
  BY DEF AllSettled
<1>2. /\ at[r] = "flush" /\ at' = [at EXCEPT ![r] = next[r]]
      /\ UNCHANGED <<scenario, next, status, stored, broken>>
  BY DEF FlushDone
<1>3. at'[r] = next[r] /\ next[r] \in {"commit", "group", "task", "values", "commitNow", "answer", "reload"}
  BY <1>2, NextAfterFlush DEF TypeOK
<1>4. Call(r)' = Call(r)
  BY <1>2 DEF Call
<1>5. stored[r] = FALSE /\ (status[r] # 0 => next[r] = "commit")
  BY <1>1, <1>2 DEF Settled, Walks, Finishes, TypeOK
<1>6. (Finishes(r)' <=> next[r] = "commit") /\ (next[r] = "commit" => status[r] = 200)
  BY <1>1, <1>2, <1>3 DEF Settled, Finishes
<1>7. broken[r] => Call(r).op = "bulk_import"
  BY <1>1, <1>2 DEF Settled
<1>8. Call(r).op = "create_snapshot" /\ FromCache(r)' => Call(r).cached
  BY <1>1, <1>2, <1>3 DEF Settled, FromCache
<1>9. ~Ended(r)'
  BY <1>3 DEF Ended
<1>10. Settled(r)'
  BY <1>2, <1>4, <1>5, <1>6, <1>7, <1>8, <1>9 DEF Settled
<1>11. \A o \in Requests \ {r} : at'[o] = at[o]
  BY <1>2 DEF TypeOK
<1> QED
  BY <1>2, <1>10, <1>11, OneSettles

(* A flush that raises is not one of a commit: a reader's never does. *)
LEMMA RefusalSettles ==
  ASSUME NEW home \in [Tags -> Groups], Legal(home), AllSettled, NEW r \in Requests,
         FlushFails(r) \/ Deadlock(r)
  PROVE  AllSettled'
<1>1. Settled(r) /\ Control(r) /\ TypeOK
  BY DEF AllSettled, Legal
<1>2. PICK error \in {"integrity", "failed"} : at[r] = "flush" /\ FlushRaises(r, error)
  BY DEF FlushFails, Deadlock
<1>3. /\ at' = [at EXCEPT ![r] = error] /\ broken' = [broken EXCEPT ![r] = TRUE]
      /\ UNCHANGED <<scenario, next, status, stored>>
  BY <1>2 DEF FlushRaises
<1>4. at'[r] = error
  BY <1>1, <1>3 DEF TypeOK
<1>5. next[r] # "commit"
  BY <1>1, <1>2, ReadersCommit, NextAfterFlush
<1>6. stored[r] = FALSE /\ status[r] = 0
  BY <1>1, <1>2, <1>5 DEF Settled, Walks, Finishes, TypeOK
<1>7. ~Finishes(r)' /\ ~FromCache(r)' /\ ~Ended(r)'
  BY <1>4 DEF Finishes, FromCache, Ended
<1>8. Settled(r)'
  BY <1>3, <1>4, <1>6, <1>7 DEF Settled
<1>9. \A o \in Requests \ {r} : at'[o] = at[o] /\ broken'[o] = broken[o]
  BY <1>1, <1>3 DEF TypeOK
<1> QED
  BY <1>3, <1>8, <1>9, OneSettles

LEMMA RaisedSettles ==
  ASSUME TypeOK, AllSettled, NEW r \in Requests, Raised(r)
  PROVE  AllSettled'
<1>1. Settled(r) /\ at[r] \in {"integrity", "failed"}
  BY DEF AllSettled, Raised
<1>2. CASE Goto(r, "task") /\ Call(r).op = "bulk_import"
  <2>1. Goes(r, "task")
    BY <1>1, <1>2 DEF Goto, Goes, Same, Working
  <2> QED
    BY <2>1, WorkSettles DEF Works
<1>3. stored[r] = FALSE /\ status[r] = 0
  BY <1>1 DEF Settled, Walks, Finishes, TypeOK
<1>4. ASSUME NEW s \in {409, 500}, Fail(r, s) PROVE AllSettled'
  <2>1. /\ at' = [at EXCEPT ![r] = "done"] /\ status' = [status EXCEPT ![r] = s]
        /\ UNCHANGED <<scenario, next, stored, broken>>
    BY <1>4 DEF Fail
  <2>2. at'[r] = "done" /\ status'[r] = s /\ s # 200
    BY <2>1 DEF TypeOK
  <2>3. Told(r)' /\ ~Finishes(r)' /\ ~FromCache(r)'
    BY <1>3, <2>1, <2>2 DEF Told, Finishes, FromCache
  <2>4. Settled(r)'
    BY <2>2, <2>3 DEF Settled
  <2>5. \A o \in Requests \ {r} : at'[o] = at[o] /\ status'[o] = status[o]
    BY <2>1 DEF TypeOK
  <2> QED
    BY <2>1, <2>4, <2>5, OneSettles
<1>5. (Goto(r, "task") /\ Call(r).op = "bulk_import") \/ \E s \in {409, 500} : Fail(r, s)
  BY <1>3 DEF Raised
<1> QED
  BY <1>2, <1>4, <1>5

LEMMA StepsSettle ==
  ASSUME SomeHome, AllSettled, NEW r \in Requests, Handler(r) \/ Statement(r)
  PROVE  AllSettled'
<1>1. PICK home \in [Tags -> Groups] : Legal(home)
  BY DEF SomeHome
<1>2. TypeOK /\ Control(r)
  BY <1>1 DEF Legal
<1>3. CASE Works(r)
  BY <1>2, <1>3, WorkSettles
<1>4. CASE TagStep(r) \/ KeyStep(r)
  BY <1>3, <1>4, TagsWork, KeysWork
<1>5. CASE PVStep(r)
  BY <1>2, <1>3, <1>5, PVsWork, PageSettles
<1>6. CASE SnapshotStep(r)
  BY <1>2, <1>3, <1>6, SnapshotsWork, CaptureSettles
<1>7. CASE Raised(r)
  BY <1>2, <1>7, RaisedSettles
<1>8. CASE Answer(r)
  BY <1>2, <1>8, AnswerSettles
<1>9. CASE Commit(r)
  BY <1>2, <1>9, CommitSettles
<1>10. CASE FlushDone(r)
  BY <1>2, <1>10, FlushSettles
<1>11. CASE FlushFails(r) \/ Deadlock(r)
  BY <1>1, <1>11, RefusalSettles
<1> QED
  BY <1>4, <1>5, <1>6, <1>7, <1>8, <1>9, <1>10, <1>11 DEF Handler, Statement

LEMMA StartSettled ==
  ASSUME Init
  PROVE  AllSettled
<1> SUFFICES ASSUME NEW r \in Requests PROVE Settled(r)
  BY DEF AllSettled
<1>1. /\ at[r] \in {"done", "arrive"} /\ (at[r] = "done" => Call(r).op = "none")
      /\ status[r] = 0 /\ ~stored[r] /\ ~broken[r]
  BY DEF Init, Call
<1>2. ~Finishes(r) /\ ~FromCache(r) /\ ~Ended(r)
  BY <1>1 DEF Finishes, FromCache, Ended
<1> QED
  BY <1>1, <1>2 DEF Settled

LEMMA StutterSettles ==
  ASSUME AllSettled, UNCHANGED vars
  PROVE  AllSettled'
<1>1. UNCHANGED <<scenario, at, next, status, stored, broken>>
  BY DEF vars
<1> SUFFICES ASSUME NEW r \in Requests PROVE Settled(r)'
  BY DEF AllSettled
<1> QED
  BY <1>1, OthersSettled DEF AllSettled

(* No request has a success to answer before it is sure to be stored, none
   has stored something before its answer, but for a snapshot from the cache,
   and a session that is broken is an import's, or answers an error. *)
THEOREM StaysSettled == Spec => []AllSettled
<1>1. Init => AllSettled
  BY StartSettled
<1>2. SomeHome /\ AllSettled /\ [Next]_vars => AllSettled'
  BY StepsSettle, StutterSettles DEF Next
<1> QED
  BY <1>1, <1>2, StaysLegal, PTL DEF Spec

(* An answer tells whether the request was stored, although the commit comes
   after the answer: a flush that only the commit makes never fails. *)
THEOREM AnswersTell == Spec => []AnswersAreTrue
<1>1. AllSettled => AnswersAreTrue
  BY DEF AllSettled, Settled, Told, AnswersAreTrue
<1> QED
  BY <1>1, StaysSettled, PTL
-----------------------------------------------------------------------------
(* Comparisons *)

LEMMA ScaledUp ==
  ASSUME NEW k \in Int, NEW m \in Int, NEW n \in Int, k > 0, m <= n
  PROVE  k * m <= k * n
BY Z3

LEMMA SameIsWithin ==
  ASSUME NEW v, IsValue(v), NEW tol \in Tolerances, tol.abs >= 0
  PROVE  WithinTolerance(v, v, tol)
<1>1. v.n \in Int /\ v.n - v.n = 0 /\ tol.abs \in Int
  BY DEF IsValue, Tolerances
<1> QED
  BY <1>1 DEF WithinTolerance, Abs

LEMMA WithinIsClose ==
  ASSUME NEW v1, IsValue(v1), NEW v2, IsValue(v2), NEW tol \in Tolerances, WithinTolerance(v1, v2, tol)
  PROVE  Close(v1, v2, tol)
<1>1. /\ v1 = [kind |-> v1.kind, n |-> v1.n] /\ v2 = [kind |-> v2.kind, n |-> v2.n]
      /\ v1.n \in Int /\ v2.n \in Int /\ tol.abs \in Int /\ tol.rel \in Int
  BY DEF IsValue, Tolerances
<1>2. CASE v1.kind = "none" \/ v2.kind = "none"
  <2>1. v1.kind = v2.kind
    BY <1>2 DEF WithinTolerance
  <2>2. v1.n = 0 /\ v2.n = 0
    BY <1>2, <2>1 DEF IsValue
  <2> QED
    BY <1>1, <2>1, <2>2 DEF Close
<1>3. CASE v1.kind = "number" /\ v2.kind = "number"
  <2> DEFINE diff == Abs(v1.n - v2.n)
             m == Abs(v1.n)
             most == Max2(m, Abs(v2.n))
  <2>1. diff \in Int /\ m \in Int /\ most \in Int /\ m <= most
    BY <1>1 DEF Abs, Max2
  <2>2. diff <= tol.abs \/ (tol.rel > 0 /\ 100 * diff <= tol.rel * m)
    BY <1>3 DEF WithinTolerance
  <2>3. Close(v1, v2, tol) <=> v1 = v2 \/ 100 * diff <= Max2(100 * tol.abs, tol.rel * most)
    BY <1>3 DEF Close
  <2> HIDE DEF diff, m, most
  <2>4. tol.rel > 0 => tol.rel * m <= tol.rel * most
    BY <1>1, <2>1, ScaledUp
  <2>5. tol.rel * m \in Int /\ tol.rel * most \in Int
    BY <1>1, <2>1
  <2>6. ASSUME NEW x \in Int, NEW y \in Int, NEW z \in Int,
               diff <= tol.abs \/ (100 * diff <= z /\ z <= y), x = 100 * tol.abs
        PROVE  100 * diff <= Max2(x, y)
    BY <1>1, <2>1, <2>6 DEF Max2
  <2>7. 100 * diff <= Max2(100 * tol.abs, tol.rel * most)
    BY <1>1, <2>2, <2>4, <2>5, <2>6
  <2> QED
    BY <2>3, <2>7
<1>4. CASE /\ v1.kind # "none" /\ v2.kind # "none"
           /\ ~(v1.kind = "number" /\ v2.kind = "number")
  BY <1>4 DEF WithinTolerance, Close
<1> QED
  BY <1>2, <1>3, <1>4

LEMMA ComparedRows ==
  ASSUME NEW rows, \A i \in DOMAIN rows : IsRow(i, rows[i]), NEW s \in Snapshots, NEW p \in PVs
  PROVE  /\ IsValue(ValueIn(rows, s, p).setpoint) /\ IsValue(ValueIn(rows, s, p).readback)
         /\ ToleranceOf(rows, p) \in Tolerances
<1>1. <<s, p>> \in Values
  BY DEF Values
<1>2. IsValue(Null)
  BY DEF IsValue, Null
<1>3. IsValue(ValueIn(rows, s, p).setpoint) /\ IsValue(ValueIn(rows, s, p).readback)
  BY <1>1, <1>2 DEF ValueIn, IsRow
<1>4. ToleranceOf(rows, p) \in Tolerances
  BY DEF ToleranceOf, IsRow, Tolerances
<1> QED
  BY <1>3, <1>4

(* A comparison reports a PV only if a value of it changed (or its absolute
   tolerance is negative), and leaves one out only if its values are equal
   or within the larger tolerance, whatever the snapshots, the values and
   the tolerances are, and whatever changed them meanwhile. *)
THEOREM ComparisonsAreRight == Spec => []ComparisonIsRight
<1>1. SomeHome => ComparisonIsRight
  <2> SUFFICES ASSUME SomeHome, NEW r \in Requests, Call(r).op = "compare", NEW p \in Compared(got[r])
               PROVE  LET s == Call(r).snapshots
                          v1 == ValueIn(got[r], s[1], p)
                          v2 == ValueIn(got[r], s[2], p)
                          tol == ToleranceOf(got[r], p)
                      IN IF Differs(got[r], s[1], s[2], p)
                         THEN v1 # v2 \/ tol.abs < 0
                         ELSE Close(v1.setpoint, v2.setpoint, tol) /\ Close(v1.readback, v2.readback, tol)
    BY DEF ComparisonIsRight
  <2> DEFINE s == Call(r).snapshots
             v1 == ValueIn(got[r], s[1], p)
             v2 == ValueIn(got[r], s[2], p)
             tol == ToleranceOf(got[r], p)
  <2>1. PICK home \in [Tags -> Groups] : Legal(home)
    BY DEF SomeHome
  <2>2. \A i \in DOMAIN got[r] : IsRow(i, got[r][i])
    BY <2>1 DEF Legal, RowsOf
  <2>3. s[1] \in Snapshots /\ s[2] \in Snapshots
    <3>1. s \in Seq(Snapshots) /\ Len(s) = 2
      BY <2>1, Asked DEF IsCall
    <3> QED
      BY <3>1
  <2>4. p \in PVs
    BY DEF Compared, Values
  <2>5. /\ IsValue(v1.setpoint) /\ IsValue(v1.readback) /\ IsValue(v2.setpoint) /\ IsValue(v2.readback)
        /\ tol \in Tolerances
    BY <2>2, <2>3, <2>4, ComparedRows
  <2>6. Differs(got[r], s[1], s[2], p) <=>
          ~(/\ WithinTolerance(v1.setpoint, v2.setpoint, tol)
            /\ WithinTolerance(v1.readback, v2.readback, tol))
    BY DEF Differs
  <2> HIDE DEF s, v1, v2, tol
  <2>7. Differs(got[r], s[1], s[2], p) => v1 # v2 \/ tol.abs < 0
    <3>1. tol.abs \in Int
      BY <2>5 DEF Tolerances
    <3> QED
      BY <2>5, <2>6, <3>1, SameIsWithin
  <2>8. ~Differs(got[r], s[1], s[2], p) =>
          Close(v1.setpoint, v2.setpoint, tol) /\ Close(v1.readback, v2.readback, tol)
    BY <2>5, <2>6, WithinIsClose, Zenon
  <2> QED
    BY <2>7, <2>8 DEF s, v1, v2, tol
<1> QED
  BY <1>1, StaysLegal, PTL

-----------------------------------------------------------------------------
(* The pages of a walk *)

LEMMA Places ==
  /\ \A p \in PVs : Place(p) \in 1..Len(Order) /\ Order[Place(p)] = p
  /\ \A p, q \in PVs : Place(p) = Place(q) => p = q
  /\ IsFiniteSet(PVs)
<1>1. Order \in Seq(PVs) /\ DOMAIN Order = 1..Len(Order) /\ Len(Order) \in Nat
  BY OrderAssumption
<1>2. ASSUME NEW p \in PVs PROVE Place(p) \in DOMAIN Order /\ Order[Place(p)] = p
  BY OrderAssumption, Zenon DEF Place
<1>3. \A p \in PVs : Place(p) \in 1..Len(Order) /\ Order[Place(p)] = p
  BY <1>1, <1>2, Zenon
<1>4. \A p, q \in PVs : Place(p) = Place(q) => p = q
  BY <1>2, Zenon
<1> DEFINE place == [p \in PVs |-> Place(p)]
<1>5. place \in Injection(PVs, 1..Len(Order))
  BY <1>3, <1>4 DEF Injection, IsInjective
<1>6. IsFiniteSet(1..Len(Order))
  BY <1>1, FS_Interval
<1>7. IsFiniteSet(PVs)
  BY <1>5, <1>6, FS_Injection
<1> QED
  BY <1>3, <1>4, <1>7

(* ORDER BY: every row once, in the order of the places. *)
Ascends(s) == \A m, n \in DOMAIN s : m < n => Place(s[m]) < Place(s[n])
Lists(s, p) == \E i \in DOMAIN s : s[i] = p

LEMMA SortedIs ==
  ASSUME NEW S, S \subseteq PVs
  PROVE  /\ Sorted(S) \in Seq(PVs) /\ Ascends(Sorted(S))
         /\ \A n \in DOMAIN Sorted(S) : Sorted(S)[n] \in S
         /\ \A p \in S : Lists(Sorted(S), p)
<1> DEFINE size == Cardinality(S)
           rank == [p \in S |-> Cardinality(UpTo(S, p))]
<1>1. IsFiniteSet(S) /\ size \in Nat
  BY Places, FS_Subset, FS_CardinalityType
<1>2. \A p \in S : UpTo(S, p) \in SUBSET S
  BY DEF UpTo
<1>3. ASSUME NEW p \in S
      PROVE  rank[p] \in 1..size
  <2>1. IsFiniteSet(UpTo(S, p)) /\ Cardinality(UpTo(S, p)) <= size
    BY <1>1, <1>2, FS_Subset
  <2>2. p \in UpTo(S, p)
    BY Places DEF UpTo
  <2>3. Cardinality(UpTo(S, p)) \in Nat /\ Cardinality(UpTo(S, p)) # 0
    BY <2>1, <2>2, FS_CardinalityType, FS_EmptySet
  <2> QED
    BY <1>1, <2>1, <2>3
<1>4. ASSUME NEW p \in S, NEW q \in S, Place(p) < Place(q)
      PROVE  rank[p] < rank[q]
  <2>1. UpTo(S, p) \in SUBSET UpTo(S, q) /\ q \in UpTo(S, q) /\ q \notin UpTo(S, p)
    BY <1>4, Places DEF UpTo
  <2>2. IsFiniteSet(UpTo(S, q))
    BY <1>1, <1>2, FS_Subset
  <2>3. Cardinality(UpTo(S, p)) <= Cardinality(UpTo(S, q)) /\ Cardinality(UpTo(S, p)) # Cardinality(UpTo(S, q))
    BY <2>1, <2>2, FS_Subset
  <2>4. Cardinality(UpTo(S, p)) \in Nat /\ Cardinality(UpTo(S, q)) \in Nat
    BY <1>3, <1>1
  <2> QED
    BY <2>3, <2>4
<1>5. \A p, q \in S : rank[p] = rank[q] => p = q
  <2> SUFFICES ASSUME NEW p \in S, NEW q \in S, p # q PROVE rank[p] # rank[q]
    OBVIOUS
  <2>1. Place(p) < Place(q) \/ Place(q) < Place(p)
    BY Places
  <2>2. rank[p] < rank[q] \/ rank[q] < rank[p]
    BY <1>4, <2>1
  <2> QED
    BY <1>1, <1>3, <2>2
<1>6. rank \in Surjection(S, 1..size)
  <2>1. rank \in [S -> 1..size]
    BY <1>3
  <2>2. rank \in Injection(S, 1..size)
    BY <1>5, <2>1 DEF Injection, IsInjective
  <2>3. IsFiniteSet(1..size) /\ Cardinality(1..size) = size
    BY <1>1, FS_Interval
  <2> QED
    BY <2>2, <2>3, FS_Injection
<1>7. ASSUME NEW n \in 1..size PROVE Sorted(S)[n] \in S /\ rank[Sorted(S)[n]] = n
  <2>1. \E p \in S : Cardinality(UpTo(S, p)) = n
    BY <1>6 DEF Surjection
  <2>2. Sorted(S)[n] = CHOOSE p \in S : Cardinality(UpTo(S, p)) = n
    BY DEF Sorted
  <2> QED
    BY <2>1, <2>2
<1>8. DOMAIN Sorted(S) = 1..size
  BY DEF Sorted
<1> HIDE DEF rank
<1>9. Sorted(S) \in Seq(PVs)
  <2>1. Sorted(S) \in [1..size -> PVs]
    BY <1>7, <1>8 DEF Sorted
  <2> QED
    BY <1>1, <2>1
<1>10. Ascends(Sorted(S))
  <2> SUFFICES ASSUME NEW m \in 1..size, NEW n \in 1..size, m < n
               PROVE  Place(Sorted(S)[m]) < Place(Sorted(S)[n])
    BY <1>8 DEF Ascends
  <2> DEFINE p == Sorted(S)[m]
             q == Sorted(S)[n]
  <2>1. p \in S /\ q \in S /\ rank[p] = m /\ rank[q] = n
    BY <1>7
  <2> HIDE DEF p, q
  <2>2. ~(Place(q) < Place(p)) /\ p # q
    BY <1>1, <1>4, <2>1
  <2>3. Place(p) < Place(q)
    BY <2>1, <2>2, Places
  <2> QED
    BY <2>3 DEF p, q
<1>11. ASSUME NEW p \in S PROVE Lists(Sorted(S), p)
  <2>1. rank[p] \in 1..size
    BY <1>3 DEF rank
  <2>2. Sorted(S)[rank[p]] \in S /\ rank[Sorted(S)[rank[p]]] = rank[p]
    BY <1>7, <2>1
  <2>3. Sorted(S)[rank[p]] = p
    BY <1>5, <2>2 DEF rank
  <2> QED
    BY <1>8, <2>1, <2>3 DEF Lists
<1> QED
  BY <1>7, <1>8, <1>9, <1>10, <1>11

(* A page goes on where the list ends, and leaves out only what comes after
   its last row. *)
LEMMA PageFollows ==
  ASSUME NEW s \in Seq(PVs), Ascends(s), NEW S, S \subseteq PVs,
         s # <<>> => \A p \in S : Place(s[Len(s)]) < Place(p),
         NEW n \in Nat \ {0}
  PROVE  LET new == s \o First(n, Sorted(S))
         IN /\ new \in Seq(PVs) /\ Ascends(new)
            /\ \A p : Lists(s, p) => Lists(new, p)
            /\ \A p \in S : \/ Lists(new, p)
                            \/ /\ Len(Sorted(S)) > n /\ new # <<>>
                               /\ Place(new[Len(new)]) < Place(p)
<1> DEFINE rest == Sorted(S)
           size == IF n < Len(rest) THEN n ELSE Len(rest)
           page == First(n, rest)
           new == s \o page
<1>1. /\ rest \in Seq(PVs) /\ Ascends(rest)
      /\ \A i \in DOMAIN rest : rest[i] \in S
      /\ \A p \in S : Lists(rest, p)
  BY SortedIs
<1> HIDE DEF rest
<1>2. /\ page \in Seq(PVs) /\ Len(page) = size /\ size \in Nat /\ size <= Len(rest)
      /\ \A i \in 1..size : page[i] = rest[i]
  BY <1>1 DEF First
<1> HIDE DEF page
<1>3. /\ new \in Seq(PVs) /\ Len(new) = Len(s) + size /\ Len(s) \in Nat
      /\ DOMAIN new = 1..Len(s) + size /\ DOMAIN s = 1..Len(s)
      /\ \A i \in 1..Len(s) : new[i] = s[i]
      /\ \A i \in 1..size : new[Len(s) + i] = rest[i]
  <2>1. new \in Seq(PVs) /\ Len(new) = Len(s) + size /\ Len(s) \in Nat
    BY <1>2
  <2>2. DOMAIN new = 1..Len(s) + size /\ DOMAIN s = 1..Len(s)
    BY <2>1
  <2>3. /\ \A i \in 1..Len(s) : new[i] = s[i]
        /\ \A i \in 1..size : new[Len(s) + i] = rest[i]
    BY <1>2
  <2> QED
    BY <2>1, <2>2, <2>3
<1>4. \A i \in DOMAIN new : i \in 1..Len(s) \/ \E j \in 1..size : i = Len(s) + j
  <2> SUFFICES ASSUME NEW i \in DOMAIN new, i \notin 1..Len(s) PROVE i - Len(s) \in 1..size /\ i = Len(s) + (i - Len(s))
    OBVIOUS
  <2> QED
    BY <1>2, <1>3
<1> HIDE DEF new
<1>5. \A p : Lists(s, p) => Lists(new, p)
  BY <1>2, <1>3 DEF Lists
<1>6. Ascends(new)
  <2> SUFFICES ASSUME NEW i \in DOMAIN new, NEW j \in DOMAIN new, i < j
               PROVE  Place(new[i]) < Place(new[j])
    BY DEF Ascends
  <2>1. CASE i \in 1..Len(s) /\ j \in 1..Len(s)
    BY <1>3, <2>1 DEF Ascends
  <2>2. CASE i \in 1..Len(s) /\ j \notin 1..Len(s)
    <3>1. PICK k \in 1..size : j = Len(s) + k
      BY <1>4, <2>2
    <3>2. new[j] = rest[k] /\ rest[k] \in S /\ new[i] = s[i] /\ s # <<>>
      BY <1>1, <1>2, <1>3, <2>2, <3>1
    <3>3. Place(s[Len(s)]) < Place(rest[k])
      BY <3>2
    <3>4. i = Len(s) \/ Place(s[i]) < Place(s[Len(s)])
      BY <2>2 DEF Ascends
    <3>5. s[i] \in PVs /\ s[Len(s)] \in PVs /\ rest[k] \in PVs
      BY <2>2, <3>2
    <3>6. Place(s[i]) \in Int /\ Place(s[Len(s)]) \in Int /\ Place(rest[k]) \in Int
      BY <3>5, Places
    <3> QED
      BY <3>2, <3>3, <3>4, <3>6
  <2>3. CASE i \notin 1..Len(s)
    <3>1. PICK k \in 1..size : i = Len(s) + k
      BY <1>4, <2>3
    <3>2. PICK m \in 1..size : j = Len(s) + m
      <4>1. j \notin 1..Len(s)
        BY <1>2, <1>3, <3>1
      <4> QED
        BY <1>4, <4>1
    <3>3. k < m /\ k \in DOMAIN rest /\ m \in DOMAIN rest
      BY <1>1, <1>2, <3>1, <3>2
    <3> QED
      BY <1>1, <1>3, <3>1, <3>2, <3>3 DEF Ascends
  <2> QED
    BY <2>1, <2>2, <2>3
<1>7. ASSUME NEW p \in S, ~Lists(new, p)
      PROVE  Len(rest) > n /\ new # <<>> /\ Place(new[Len(new)]) < Place(p)
  <2>1. PICK k \in DOMAIN rest : rest[k] = p
    BY <1>1 DEF Lists
  <2>2. k \notin 1..size
    <3> SUFFICES ASSUME k \in 1..size PROVE Lists(new, p)
      BY <1>7
    <3>1. Len(s) + k \in DOMAIN new
      BY <1>2, <1>3
    <3> QED
      BY <1>3, <2>1, <3>1 DEF Lists
  <2>3. k \in 1..Len(rest) /\ Len(rest) \in Nat
    BY <1>1
  <2>4. Len(rest) > n /\ size = n /\ n \in DOMAIN rest /\ n < k
    BY <2>2, <2>3
  <2>5. new # <<>> /\ new[Len(new)] = rest[n]
    BY <1>3, <2>4
  <2>6. Place(rest[n]) < Place(rest[k])
    BY <1>1, <2>1, <2>4 DEF Ascends
  <2> QED
    BY <2>1, <2>4, <2>5, <2>6
<1> QED
  BY <1>3, <1>5, <1>6, <1>7 DEF rest, page, new

(* What a step of r leaves to the others, and the PVs it may have in hand:
   those it had, and new ones. *)
Aside(r) ==
  /\ scenario' = scenario /\ used \subseteq used'
  /\ \A o \in Requests \ {r} :
       /\ at'[o] = at[o] /\ status'[o] = status[o] /\ work'[o] = work[o]
       /\ got'[o] = got[o] /\ list'[o] = list[o]
  /\ PVs \cap used \cap DOMAIN work'[r].ins \subseteq DOMAIN work[r].ins

Fresh(c) == PVs \cap used \cap DOMAIN c.ins = {}

LEMMA StepsAside ==
  ASSUME TypeOK, Shapes, NEW r \in Requests
  PROVE  /\ \A l : Goto(r, l) => Aside(r)
         /\ \A rows, l : Keep(r, rows, l) => Aside(r)
         /\ \A s : Fail(r, s) => Aside(r)
         /\ \A tasks : Continue(r, tasks) => Aside(r)
         /\ \A answers, l : Heard(r, answers, l) => Aside(r)
         /\ \A page, more : Paged(r, page, more) => Aside(r)
         /\ \A c, l : Flush(r, c, l) /\ Fresh(c) /\ UNCHANGED memory => Aside(r)
<1>1. at \in [Requests -> Labels] /\ status \in [Requests -> {0, 200, 401, 404, 409, 500}]
  BY DEF TypeOK
<1>2. ASSUME NEW l, Goto(r, l) PROVE Aside(r)
  BY <1>1, <1>2 DEF Goto, Aside, memory
<1>3. ASSUME NEW rows, NEW l, Keep(r, rows, l) PROVE Aside(r)
  BY <1>1, <1>3 DEF Keep, Aside, Shapes
<1>4. ASSUME NEW s, Fail(r, s) PROVE Aside(r)
  <2>1. work'[r] = NoChanges
    BY <1>4 DEF Fail, Shapes
  <2> QED
    BY <1>1, <1>4, <2>1, Nothing DEF Fail, Aside, Shapes, memory
<1>5. ASSUME NEW tasks, Continue(r, tasks) PROVE Aside(r)
  BY <1>1, <1>5 DEF Continue, Aside, Shapes
<1>6. ASSUME NEW answers, NEW l, Heard(r, answers, l) PROVE Aside(r)
  BY <1>1, <1>6 DEF Heard, Aside
<1>7. ASSUME NEW page, NEW more, Paged(r, page, more) PROVE Aside(r)
  BY <1>1, <1>7 DEF Paged, Aside, Shapes
<1>8. ASSUME NEW c, NEW l, Flush(r, c, l), Fresh(c), UNCHANGED memory PROVE Aside(r)
  BY <1>1, <1>8 DEF Flush, Fresh, Aside, Shapes, memory
<1> QED
  BY <1>2, <1>3, <1>4, <1>5, <1>6, <1>7, <1>8, Zenon

(* Only the handlers that create PVs insert any. *)
LEMMA FreshChanges ==
  /\ \A i, row : i \notin PVs => Fresh(Insert(Row(i, row)))
  /\ \A i, row : Fresh(Update(i, row))
  /\ \A S : Fresh(Delete(S))
<1>1. \A i, row : DOMAIN Insert(Row(i, row)).ins = {i}
  BY DEF Insert, NoChanges, Row
<1>2. \A i, row : DOMAIN Update(i, row).ins = {}
  BY DEF Update, NoChanges, NoRows
<1>3. \A S : DOMAIN Delete(S).ins = {}
  BY DEF Delete, NoChanges, NoRows
<1>4. \A c : DOMAIN c.ins \cap PVs = {} => Fresh(c)
  BY DEF Fresh
<1>5. \A i, row : i \notin PVs => Fresh(Insert(Row(i, row)))
  <2> SUFFICES ASSUME NEW i, NEW row, i \notin PVs PROVE Fresh(Insert(Row(i, row)))
    BY Zenon
  <2>1. DOMAIN Insert(Row(i, row)).ins \cap PVs = {}
    BY <1>1
  <2> QED
    BY <1>4, <2>1, Zenon
<1>6. \A i, row : Fresh(Update(i, row))
  <2> SUFFICES ASSUME NEW i, NEW row PROVE Fresh(Update(i, row))
    BY Zenon
  <2>1. DOMAIN Update(i, row).ins \cap PVs = {}
    BY <1>2
  <2> QED
    BY <1>4, <2>1, Zenon
<1>7. \A S : Fresh(Delete(S))
  <2> SUFFICES ASSUME NEW S PROVE Fresh(Delete(S))
    BY Zenon
  <2>1. DOMAIN Delete(S).ins \cap PVs = {}
    BY <1>3
  <2> QED
    BY <1>4, <2>1, Zenon
<1> QED
  BY <1>5, <1>6, <1>7, Zenon

LEMMA NewRowsFresh ==
  /\ \A n : Left(Groups) => Fresh(NewGroup(n))
  /\ \A g, n : Left(Tags) => Fresh(NewTag(g, n))
<1>1. Left(Groups) => Pick(Groups \ used) \notin PVs
  <2>1. Left(Groups) => Pick(Groups \ used) \in Groups
    BY DEF Left, Pick
  <2> QED
    BY <2>1
<1>2. Left(Tags) => Pick(Tags \ used) \notin PVs
  <2>1. Left(Tags) => Pick(Tags \ used) \in Tags
    BY DEF Left, Pick
  <2> QED
    BY <2>1
<1> QED
  BY <1>1, <1>2, FreshChanges, Zenon DEF NewGroup, NewTag

LEMMA TagsAside ==
  ASSUME TypeOK, Shapes, NEW r \in Requests, TagStep(r)
  PROVE  Aside(r)
<1>1. \A l : Goto(r, l) => Aside(r)
  BY StepsAside, Zenon
<1>2. \A rows, l : Keep(r, rows, l) => Aside(r)
  BY StepsAside, Zenon
<1>3. \A s : Fail(r, s) => Aside(r)
  BY StepsAside, Zenon
<1>4. \A tasks : Continue(r, tasks) => Aside(r)
  BY StepsAside, Zenon
<1>5. \A c, l : Flush(r, c, l) /\ Fresh(c) /\ UNCHANGED memory => Aside(r)
  BY StepsAside, Zenon
<1>6. \A i, row : Fresh(Update(i, row))
  BY FreshChanges, Zenon
<1>7. \A S : Fresh(Delete(S))
  BY FreshChanges, Zenon
<1>8. \A n : Left(Groups) => Fresh(NewGroup(n))
  BY NewRowsFresh, Zenon
<1>9. \A g, n : Left(Tags) => Fresh(NewTag(g, n))
  BY NewRowsFresh, Zenon
<1>10. CASE CreateGroup(r)
  BY <1>3, <1>5, <1>8, <1>10, Zenon DEF CreateGroup
<1>11. CASE GetGroup(r)
  BY <1>2, <1>3, <1>11, Zenon DEF GetGroup
<1>12. CASE RenameGroup(r)
  BY <1>1, <1>3, <1>5, <1>6, <1>12, Zenon DEF RenameGroup
<1>13. CASE RefreshGroup(r) \/ GetGroupOfTag(r) \/ RefreshTag(r) \/ ReloadGroup(r)
  BY <1>1, <1>3, <1>13, Zenon DEF RefreshGroup, GetGroupOfTag, RefreshTag, ReloadGroup
<1>14. CASE DeleteGroup(r) \/ RemoveTag(r)
  BY <1>3, <1>5, <1>7, <1>14, Zenon DEF DeleteGroup, RemoveTag
<1>15. CASE AddTag(r)
  BY <1>1, <1>3, <1>5, <1>9, <1>15, Zenon DEF AddTag
<1>16. CASE UpdateTag(r)
  BY <1>1, <1>3, <1>5, <1>6, <1>16, Zenon DEF UpdateTag
<1>17. CASE ImportReads(r)
  BY <1>17 DEF ImportReads, Aside, TypeOK, Shapes
<1>18. CASE ImportGroup(r)
  <2>1. CASE (\E tasks : Continue(r, tasks)) \/ Fail(r, 500)
    BY <1>3, <1>4, <2>1, Zenon
  <2>2. CASE /\ Left(Groups) /\ Flush(r, NewGroup(Task(r).group), "group")
             /\ Pop(r) /\ got' = [got EXCEPT ![r] = After(@, NewGroup(Task(r).group))]
    <3> DEFINE c == NewGroup(Task(r).group)
    <3>1. Fresh(c) /\ Flush(r, c, "group")
      BY <1>8, <2>2, Zenon
    <3>2. \E rows : got' = [got EXCEPT ![r] = rows]
      BY <2>2, Zenon
    <3>3. \E tasks : list' = [list EXCEPT ![r] = tasks]
      BY <2>2, Zenon DEF Pop
    <3> HIDE DEF c
    <3> QED
      BY <3>1, <3>2, <3>3 DEF Flush, Fresh, Aside, TypeOK, Shapes
  <2> QED
    BY <1>18, <2>1, <2>2, Zenon DEF ImportGroup
<1>19. CASE ImportTag(r) \/ ImportEnds(r)
  BY <1>1, <1>4, <1>19, Zenon DEF ImportTag, ImportEnds
<1>20. CASE ImportAddsTag(r)
  <2>1. CASE \E tasks : Continue(r, tasks)
    BY <1>4, <2>1, Zenon
  <2>2. CASE \E g, n : Left(Tags) /\ Flush(r, NewTag(g, n), "task") /\ Pop(r) /\ UNCHANGED <<got, heard>>
    <3>1. PICK c : Fresh(c) /\ Flush(r, c, "task")
      BY <1>9, <2>2, Zenon
    <3>2. \E tasks : list' = [list EXCEPT ![r] = tasks]
      BY <2>2, Zenon DEF Pop
    <3>3. got' = got
      BY <2>2
    <3> QED
      BY <3>1, <3>2, <3>3 DEF Flush, Fresh, Aside, TypeOK, Shapes
  <2> QED
    BY <1>20, <2>1, <2>2, Zenon DEF ImportAddsTag
<1> QED
  BY <1>10, <1>11, <1>12, <1>13, <1>14, <1>15, <1>16, <1>17, <1>18, <1>19, <1>20 DEF TagStep

LEMMA KeysAside ==
  ASSUME TypeOK, Shapes, NEW r \in Requests, KeyStep(r)
  PROVE  Aside(r)
<1>1. /\ \A l : Goto(r, l) => Aside(r)
      /\ \A s : Fail(r, s) => Aside(r)
      /\ \A c, l : Flush(r, c, l) /\ Fresh(c) /\ UNCHANGED memory => Aside(r)
  BY StepsAside, Zenon
<1>2. \A i, row : Fresh(Update(i, row))
  BY FreshChanges, Zenon
<1>3. Left(Keys) => \A row : Fresh(Insert(Row(CHOOSE i \in Keys : i \notin used, row)))
  <2>1. Left(Keys) => (CHOOSE i \in Keys : i \notin used) \in Keys
    BY DEF Left
  <2>2. Left(Keys) => (CHOOSE i \in Keys : i \notin used) \notin PVs
    BY <2>1
  <2> QED
    BY <2>2, FreshChanges, Zenon
<1>4. CASE Arrive(r)
  BY <1>1, <1>4, Zenon DEF Arrive
<1>5. CASE CreateKey(r)
  BY <1>1, <1>3, <1>5, Zenon DEF CreateKey
<1>6. CASE DeactivateKey(r)
  BY <1>1, <1>2, <1>6, Zenon DEF DeactivateKey
<1> QED
  BY <1>4, <1>5, <1>6 DEF KeyStep

LEMMA PVsAside ==
  ASSUME TypeOK, Shapes, NEW r \in Requests, IsCall(Call(r)), PVStep(r)
  PROVE  Aside(r)
<1>1. /\ \A l : Goto(r, l) => Aside(r)
      /\ \A rows, l : Keep(r, rows, l) => Aside(r)
      /\ \A s : Fail(r, s) => Aside(r)
      /\ \A page, more : Paged(r, page, more) => Aside(r)
      /\ \A c, l : Flush(r, c, l) /\ Fresh(c) /\ UNCHANGED memory => Aside(r)
  BY StepsAside, Zenon
<1>2. \A S : Fresh(Delete(S))
  BY FreshChanges, Zenon
<1>3. CASE CheckSetpoints(r) \/ RefreshPV(r)
  BY <1>1, <1>3, Zenon DEF CheckSetpoints, RefreshPV
<1>4. CASE InsertPVs(r)
  <2>1. CASE Fail(r, 409)
    BY <1>1, <2>1, Zenon
  <2>2. CASE ~Fail(r, 409)
    <3> DEFINE known == Tags \cap DOMAIN Sees(r)
               D(id) == {id[i] : i \in Items(r)} \cup UNION {{id[i]} \X (i.tags \cap known) : i \in Items(r)}
    <3>1. PICK id \in [Items(r) -> PVs \ used] :
            \E rows : DOMAIN rows = D(id) /\ Flush(r, Insert(rows), "answer") /\ UNCHANGED memory
      BY <1>4, <2>2 DEF InsertPVs
    <3>2. PICK rows : DOMAIN rows = D(id) /\ Flush(r, Insert(rows), "answer") /\ UNCHANGED memory
      BY <3>1
    <3>3. \A k \in D(id) : k \notin PVs \cap used
      BY DEF Links
    <3>4. DOMAIN Insert(rows).ins = D(id)
      BY <3>2 DEF Insert, NoChanges
    <3> HIDE DEF D
    <3>5. Fresh(Insert(rows))
      BY <3>3, <3>4 DEF Fresh
    <3> QED
      BY <1>1, <3>2, <3>5, Zenon
  <2> QED
    BY <2>1, <2>2
<1>5. CASE GetPV(r) \/ DeletePV(r)
  BY <1>1, <1>2, <1>5, Zenon DEF GetPV, DeletePV
<1>6. CASE UpdatePV(r)
  <2> DEFINE p == Call(r).pv
             want == {p} \X (Call(r).tags \cap DOMAIN Sees(r))
  <2>1. p \in PVs /\ Call(r).tags \subseteq Tags
    BY <1>6 DEF UpdatePV, At, IsCall
  <2>2. PICK c, had : /\ DOMAIN c.ins = want \ had /\ Flush(r, c, "reload") /\ UNCHANGED memory
    BY <1>6 DEF UpdatePV
  <2>3. want \subseteq Links
    BY <2>1 DEF Links
  <2>4. Fresh(c)
    BY <2>2, <2>3 DEF Fresh
  <2> QED
    BY <1>1, <2>2, <2>4, Zenon
<1>7. CASE WalkPVs(r) \/ SearchPVs(r)
  BY <1>1, <1>7, Zenon DEF WalkPVs, SearchPVs
<1> QED
  BY <1>3, <1>4, <1>5, <1>6, <1>7 DEF PVStep

LEMMA SnapshotsAside ==
  ASSUME NEW home, Legal(home), NEW r \in Requests, SnapshotStep(r)
  PROVE  Aside(r)
<1>0. TypeOK /\ Shapes /\ Control(r)
  BY DEF Legal
<1>1. /\ \A l : Goto(r, l) => Aside(r)
      /\ \A rows, l : Keep(r, rows, l) => Aside(r)
      /\ \A s : Fail(r, s) => Aside(r)
      /\ \A answers, l : Heard(r, answers, l) => Aside(r)
      /\ \A c, l : Flush(r, c, l) /\ Fresh(c) /\ UNCHANGED memory => Aside(r)
  BY <1>0, StepsAside, Zenon
<1>2. (\A i, row : Fresh(Update(i, row))) /\ \A S : Fresh(Delete(S))
  BY FreshChanges, Zenon
<1>3. CASE BeginRead(r)
  BY <1>0, <1>3 DEF BeginRead, Aside, TypeOK, Shapes
<1>4. CASE LoadSnapshot(r)
  <2>1. CASE Fail(r, 404)
    BY <1>1, <2>1, Zenon
  <2>2. CASE ~Fail(r, 404)
    <3>1. /\ UNCHANGED <<scenario, used, status, got, list>>
          /\ \E del : work' = [work EXCEPT ![r].del = del]
          /\ \E l : at' = [at EXCEPT ![r] = l]
      BY <1>4, <2>2 DEF LoadSnapshot, memory
    <3>2. DOMAIN work[r] = {"ins", "upd", "del"}
      BY <1>0 DEF TypeOK, IsChanges
    <3>3. work'[r].ins = work[r].ins
      BY <1>0, <3>1, <3>2 DEF Shapes
    <3> QED
      BY <1>0, <3>1, <3>3 DEF Aside, TypeOK, Shapes
  <2> QED
    BY <2>1, <2>2
<1>5. CASE ReadValues(r)
  BY <1>0, <1>5 DEF ReadValues, Aside, TypeOK, Shapes
<1>6. CASE ReadPVs(r) \/ UpdateSnapshot(r) \/ DeleteSnapshot(r)
  BY <1>1, <1>2, <1>6, Zenon DEF ReadPVs, UpdateSnapshot, DeleteSnapshot
<1>7. CASE ReadAddresses(r) \/ ReadCache(r) \/ ReadCA(r) \/ ReadPVA(r) \/ ReadFallback(r)
  BY <1>1, <1>7, Zenon DEF ReadAddresses, ReadCache, ReadCA, ReadPVA, ReadFallback
<1>8. CASE InsertSnapshot(r)
  <2> DEFINE s == CHOOSE i \in Snapshots : i \notin used
             c == Insert(Row(s, [name |-> Call(r).name]))
  <2>1. s \in Snapshots
    BY <1>8 DEF InsertSnapshot, Left
  <2>2. s \notin PVs
    BY <2>1
  <2>3. Fresh(c)
    BY <2>2, FreshChanges, Zenon
  <2>4. /\ \E l : Flush(r, c, l)
        /\ list' = [list EXCEPT ![r] = <<s>>] /\ got' = got
    BY <1>8 DEF InsertSnapshot
  <2> HIDE DEF c, s
  <2> QED
    BY <1>0, <2>3, <2>4 DEF Flush, Fresh, Aside, TypeOK, Shapes
<1>9. CASE InsertValues(r)
  <2>1. at[r] = "values" /\ Call(r).op = "create_snapshot"
    BY <1>9 DEF InsertValues, Creates, At
  <2>2. DOMAIN got[r] \subseteq PVs /\ list[r] \in Seq(Snapshots) /\ list[r] # <<>>
    BY <1>0, <2>1 DEF Control, Captures
  <2>3. list[r][1] \in Snapshots
    BY <2>2
  <2> DEFINE D == {list[r][1]} \X DOMAIN got[r]
  <2>4. PICK rows : DOMAIN rows = D /\ Flush(r, Insert(rows), "answer") /\ UNCHANGED memory
    BY <1>9 DEF InsertValues
  <2>5. D \subseteq Values
    BY <2>2, <2>3 DEF Values
  <2>6. Insert(rows).ins = rows
    BY DEF Insert, NoChanges
  <2> HIDE DEF D
  <2>7. Fresh(Insert(rows))
    BY <2>4, <2>5, <2>6 DEF Fresh
  <2> QED
    BY <1>1, <2>4, <2>7, Zenon
<1>10. CASE CommitSnapshot(r)
  BY <1>0, <1>10 DEF CommitSnapshot, Aside, TypeOK, Shapes, memory
<1>11. CASE BulkInsert(r)
  <2>1. CASE Fail(r, 500)
    BY <1>1, <2>1, Zenon
  <2>2. CASE ~Fail(r, 500)
    BY <1>0, <1>11, <2>2 DEF BulkInsert, Aside, TypeOK, Shapes, memory
  <2> QED
    BY <2>1, <2>2
<1> QED
  BY <1>3, <1>4, <1>5, <1>6, <1>7, <1>8, <1>9, <1>10, <1>11 DEF SnapshotStep

(* Every step of r is one of its own. *)
LEMMA AllAside ==
  ASSUME NEW home, Legal(home), NEW r \in Requests, Handler(r) \/ Statement(r)
  PROVE  Aside(r)
<1>0. TypeOK /\ Shapes /\ IsCall(Call(r))
  BY Asked DEF Legal
<1>1. /\ \A l : Goto(r, l) => Aside(r)
      /\ \A s : Fail(r, s) => Aside(r)
  BY <1>0, StepsAside, Zenon
<1>2. CASE TagStep(r) \/ KeyStep(r) \/ PVStep(r) \/ SnapshotStep(r)
  BY <1>0, <1>2, TagsAside, KeysAside, PVsAside, SnapshotsAside
<1>3. CASE Raised(r)
  <2>1. Goto(r, "task") \/ \E s : Fail(r, s)
    BY <1>3 DEF Raised
  <2> QED
    BY <1>1, <2>1, Zenon
<1>4. CASE Answer(r) \/ Commit(r)
  BY <1>0, <1>4 DEF Answer, Commit, Aside, TypeOK, memory
<1>5. DOMAIN NoChanges.ins = {}
  BY Nothing
<1>6. CASE FlushDone(r)
  BY <1>0, <1>5, <1>6 DEF FlushDone, Aside, TypeOK, Shapes, memory
<1>7. CASE FlushFails(r) \/ Deadlock(r)
  <2>1. \E error : FlushRaises(r, error)
    BY <1>7, Zenon DEF FlushFails, Deadlock
  <2> QED
    BY <1>0, <1>5, <2>1 DEF FlushRaises, Aside, TypeOK, Shapes, memory
<1> QED
  BY <1>2, <1>3, <1>4, <1>6, <1>7 DEF Handler, Statement

(* New PVs that are not committed yet: nobody else has them, and no table. *)
Pending(r) == PVs \cap (DOMAIN tx[r].ins \cup DOMAIN work[r].ins)
NewPVs ==
  /\ \A r \in Requests : Pending(r) \cap DOMAIN db = {} /\ PVs \cap DOMAIN tx[r].ins \cap DOMAIN work[r].ins = {}
  /\ \A r, o \in Requests : r # o => Pending(r) \cap Pending(o) = {}

LEMMA PendingIsUsed ==
  ASSUME NEW home, Legal(home), NEW r \in Requests
  PROVE  Pending(r) \subseteq used /\ DOMAIN db \subseteq used
BY DEF Legal, TypeOK, RowsOf, Drawn, Pending

(* PVs go from the session to the transaction, from there to the table. *)
LEMMA RowsMove ==
  ASSUME NEW home, Legal(home), NEW r \in Requests, Handler(r) \/ Statement(r)
  PROVE  /\ \A o \in Requests \ {r} : tx'[o] = tx[o]
         /\ PVs \cap DOMAIN db' \subseteq DOMAIN db \cup DOMAIN tx[r].ins
         /\ PVs \cap DOMAIN db' \subseteq DOMAIN db \/ DOMAIN tx'[r].ins = {}
         /\ DOMAIN tx'[r].ins \subseteq DOMAIN tx[r].ins \cup DOMAIN work[r].ins
         /\ DOMAIN tx'[r].ins \subseteq DOMAIN tx[r].ins \/ DOMAIN work'[r].ins = {}
<1>0. DOMAIN tx = Requests /\ DOMAIN work = Requests /\ DOMAIN NoChanges.ins = {}
  BY Nothing DEF Legal, Shapes
<1>1. CASE LeavesRows
  BY <1>1 DEF LeavesRows
<1>2. CASE RollsBack(r)
  BY <1>0, <1>2 DEF RollsBack
<1>3. CASE Commits(r)
  <2>1. tx'[r] = NoChanges /\ \A o \in Requests \ {r} : tx'[o] = tx[o]
    BY <1>0, <1>3 DEF Commits
  <2>2. DOMAIN db' \subseteq DOMAIN db \cup DOMAIN tx[r].ins
    BY <1>3 DEF Commits, After
  <2> QED
    BY <1>0, <2>1, <2>2
<1>4. CASE FlushDone(r)
  <2>1. /\ Merges(tx'[r], tx[r], Effect(r))
        /\ \A o \in Requests \ {r} : tx'[o] = tx[o]
    BY <1>4, FlushMerges
  <2>2. DOMAIN tx'[r].ins = DOMAIN tx[r].ins \cup DOMAIN Effect(r).ins
    BY <2>1 DEF Merges
  <2>3. DOMAIN Effect(r).ins = DOMAIN work[r].ins
    BY DEF Effect, Legal, TypeOK, IsChanges
  <2>4. db' = db /\ work'[r] = NoChanges
    BY <1>0, <1>4 DEF FlushDone
  <2> QED
    BY <1>0, <2>1, <2>2, <2>3, <2>4
<1>5. CASE BulkInsert(r) /\ ~Fail(r, 500)
  <2>1. tx' = tx /\ db' = After(db, Insert(Captured(r)))
    BY <1>5 DEF BulkInsert
  <2>2. DOMAIN Captured(r) \subseteq Values /\ Insert(Captured(r)).ins = Captured(r)
    BY <1>5, ValuesCaptured DEF BulkInsert
  <2>3. DOMAIN db' \subseteq DOMAIN db \cup Values
    BY <2>1, <2>2 DEF After
  <2>4. PVs \cap DOMAIN db' \subseteq DOMAIN db
    BY <2>3
  <2> QED
    BY <2>1, <2>4
<1> QED
  BY <1>1, <1>2, <1>3, <1>4, <1>5, StepKinds

LEMMA NewStayNew ==
  ASSUME NEW home, Legal(home), NewPVs, NEW r \in Requests, Handler(r) \/ Statement(r)
  PROVE  /\ NewPVs'
         /\ Pending(r)' \subseteq Pending(r) \cup (PVs \ used)
         /\ \A o \in Requests \ {r} : Pending(o)' = Pending(o)
         /\ PVs \cap DOMAIN db' \subseteq DOMAIN db \cup Pending(r)
<1>1. /\ \A o \in Requests \ {r} : work'[o] = work[o]
      /\ PVs \cap used \cap DOMAIN work'[r].ins \subseteq DOMAIN work[r].ins
  BY AllAside DEF Aside
<1>2. /\ PVs \cap DOMAIN db' \subseteq DOMAIN db \cup DOMAIN tx[r].ins
      /\ PVs \cap DOMAIN db' \subseteq DOMAIN db \/ DOMAIN tx'[r].ins = {}
      /\ DOMAIN tx'[r].ins \subseteq DOMAIN tx[r].ins \cup DOMAIN work[r].ins
      /\ DOMAIN tx'[r].ins \subseteq DOMAIN tx[r].ins \/ DOMAIN work'[r].ins = {}
      /\ \A o \in Requests \ {r} : tx'[o] = tx[o]
  BY RowsMove
<1>3. \A o \in Requests : Pending(o) \subseteq used
  BY PendingIsUsed
<1>4. DOMAIN db \subseteq used
  BY PendingIsUsed
<1>5. Pending(r) = PVs \cap (DOMAIN tx[r].ins \cup DOMAIN work[r].ins)
  BY DEF Pending
<1>6. Pending(r)' = PVs \cap (DOMAIN tx'[r].ins \cup DOMAIN work'[r].ins)
  BY DEF Pending
<1>7. \A o \in Requests \ {r} : Pending(o)' = Pending(o)
  BY <1>1, <1>2 DEF Pending
<1>8. Pending(r)' \subseteq Pending(r) \cup (PVs \ used)
  BY <1>1, <1>2, <1>5, <1>6
<1>9. PVs \cap DOMAIN db' \subseteq DOMAIN db \cup Pending(r)
  BY <1>2, <1>5
<1>10. Pending(r)' \cap DOMAIN db' = {} /\ PVs \cap DOMAIN tx'[r].ins \cap DOMAIN work'[r].ins = {}
  <2>1. PVs \cap DOMAIN tx[r].ins \cap DOMAIN work[r].ins = {} /\ Pending(r) \cap DOMAIN db = {}
    BY DEF NewPVs
  <2>2. PVs \cap DOMAIN tx'[r].ins \cap DOMAIN work'[r].ins = {}
    BY <1>1, <1>2, <1>3, <1>5, <2>1
  <2>3. ASSUME NEW p \in PVs, p \in DOMAIN work'[r].ins PROVE p \notin DOMAIN db'
    BY <1>1, <1>2, <1>3, <1>4, <1>5, <2>1, <2>3
  <2>4. ASSUME NEW p \in PVs, p \in DOMAIN tx'[r].ins PROVE p \notin DOMAIN db'
    BY <1>2, <1>5, <2>1, <2>4
  <2> QED
    BY <1>6, <2>2, <2>3, <2>4
<1>11. \A o \in Requests \ {r} : Pending(o) \cap DOMAIN db' = {} /\ Pending(o) \cap Pending(r)' = {}
  <2> SUFFICES ASSUME NEW o \in Requests \ {r} PROVE Pending(o) \cap DOMAIN db' = {} /\ Pending(o) \cap Pending(r)' = {}
    OBVIOUS
  <2>1. /\ Pending(o) \cap DOMAIN db = {} /\ Pending(o) \cap Pending(r) = {}
        /\ Pending(o) \subseteq used /\ Pending(o) \subseteq PVs
    BY <1>3 DEF NewPVs, Pending
  <2>2. Pending(o) \cap DOMAIN db' = {}
    BY <1>9, <2>1
  <2>3. Pending(o) \cap Pending(r)' = {}
    BY <1>8, <2>1
  <2> QED
    BY <2>2, <2>3
<1>12. NewPVs'
  <2>1. ASSUME NEW o \in Requests
        PROVE  (Pending(o) \cap DOMAIN db)' = {} /\ (PVs \cap DOMAIN tx[o].ins \cap DOMAIN work[o].ins)' = {}
    <3>1. CASE o = r
      BY <1>10, <3>1
    <3>2. CASE o # r
      BY <1>1, <1>2, <1>7, <1>11, <3>2 DEF NewPVs
    <3> QED
      BY <3>1, <3>2
  <2>2. ASSUME NEW o \in Requests, NEW q \in Requests, o # q PROVE (Pending(o) \cap Pending(q))' = {}
    <3>1. CASE o = r
      BY <1>7, <1>11, <2>2, <3>1
    <3>2. CASE q = r
      BY <1>7, <1>11, <2>2, <3>2
    <3>3. CASE o # r /\ q # r
      BY <1>7, <2>2, <3>3 DEF NewPVs
    <3> QED
      BY <3>1, <3>2, <3>3
  <2> QED
    BY <2>1, <2>2 DEF NewPVs
<1> QED
  BY <1>7, <1>8, <1>9, <1>12

(* A walk has every PV there was at its start, and is still there, or has it
   yet to come; what is inserted meanwhile it may have or not. *)
Underway(r) == at[r] = "more" \/ (at[r] = "done" /\ status[r] = 200)
HasOrComes(r, p) == Lists(list[r], p) \/ (at[r] = "more" /\ p \in Beyond(r))
WalkSoFar(r) ==
  Call(r).op = "walk" =>
    /\ at[r] \in {"arrive", "read", "more", "done"}
    /\ list[r] \in Seq(PVs) /\ Ascends(list[r])
    /\ at[r] \in {"arrive", "read"} => list[r] = <<>>
    /\ Underway(r) =>
         /\ DOMAIN got[r] \subseteq PVs \cap used
         /\ \A o \in Requests : DOMAIN got[r] \cap Pending(o) = {}
         /\ \A p \in DOMAIN got[r] \cap DOMAIN db : HasOrComes(r, p)

WalksGoOn == NewPVs /\ \A r \in Requests : WalkSoFar(r)

(* The steps of others take no PV that is there from a walk. *)
LEMMA OthersWalk ==
  ASSUME NEW home, Legal(home), NewPVs, NEW r \in Requests, Handler(r) \/ Statement(r),
         NEW w \in Requests \ {r}, WalkSoFar(w)
  PROVE  WalkSoFar(w)'
<1> SUFFICES ASSUME Call(w)'.op = "walk" PROVE WalkSoFar(w)'
  BY DEF WalkSoFar
<1>1. /\ at'[w] = at[w] /\ status'[w] = status[w] /\ got'[w] = got[w] /\ list'[w] = list[w]
      /\ scenario' = scenario /\ used \subseteq used'
  <2>1. Aside(r)
    BY AllAside
  <2> QED
    BY <2>1 DEF Aside
<1>2. /\ Call(w)' = Call(w) /\ (Underway(w)' <=> Underway(w)) /\ Beyond(w)' = Beyond(w)
      /\ \A p : HasOrComes(w, p)' <=> HasOrComes(w, p)
  BY <1>1 DEF Call, Underway, Beyond, HasOrComes
<1>3. /\ at[w] \in {"arrive", "read", "more", "done"} /\ list[w] \in Seq(PVs) /\ Ascends(list[w])
      /\ at[w] \in {"arrive", "read"} => list[w] = <<>>
  BY <1>2 DEF WalkSoFar
<1>4. ASSUME Underway(w)
      PROVE  /\ DOMAIN got[w] \subseteq PVs \cap used'
             /\ \A o \in Requests : DOMAIN got[w] \cap Pending(o)' = {}
             /\ \A p \in DOMAIN got[w] \cap DOMAIN db' : HasOrComes(w, p)
  <2>1. /\ DOMAIN got[w] \subseteq PVs \cap used
        /\ \A o \in Requests : DOMAIN got[w] \cap Pending(o) = {}
        /\ \A p \in DOMAIN got[w] \cap DOMAIN db : HasOrComes(w, p)
    BY <1>2, <1>4 DEF WalkSoFar
  <2>2. /\ Pending(r)' \subseteq Pending(r) \cup (PVs \ used)
        /\ \A o \in Requests \ {r} : Pending(o)' = Pending(o)
        /\ PVs \cap DOMAIN db' \subseteq DOMAIN db \cup Pending(r)
    BY NewStayNew
  <2>3. DOMAIN got[w] \cap Pending(r)' = {}
    BY <2>1, <2>2
  <2>4. \A p \in DOMAIN got[w] \cap DOMAIN db' : p \in DOMAIN db
    BY <2>1, <2>2
  <2> QED
    BY <1>1, <2>1, <2>2, <2>3, <2>4
<1>5. Underway(w)' =>
        /\ DOMAIN got'[w] \subseteq PVs \cap used'
        /\ \A o \in Requests : DOMAIN got'[w] \cap Pending(o)' = {}
        /\ \A p \in DOMAIN got'[w] \cap DOMAIN db' : HasOrComes(w, p)'
  BY <1>1, <1>2, <1>4
<1>6. Ascends(list[w])'
  BY <1>1, <1>3 DEF Ascends
<1> QED
  BY <1>1, <1>3, <1>5, <1>6 DEF WalkSoFar

(* A walk takes no other steps than its key check and its pages. *)
LEMMA WalksOnly ==
  ASSUME NEW r \in Requests, Call(r).op = "walk", at[r] \in {"arrive", "read", "more", "done"},
         Handler(r) \/ Statement(r)
  PROVE  Arrive(r) \/ WalkPVs(r)
<1> USE DEF At
<1>1. ~TagStep(r)
  <2>1. ~(CreateGroup(r) \/ GetGroup(r) \/ RenameGroup(r) \/ RefreshGroup(r) \/ DeleteGroup(r))
    BY DEF CreateGroup, GetGroup, RenameGroup, RefreshGroup, DeleteGroup
  <2>2. ~(GetGroupOfTag(r) \/ AddTag(r) \/ UpdateTag(r) \/ RefreshTag(r) \/ RemoveTag(r) \/ ReloadGroup(r))
    BY DEF GetGroupOfTag, AddTag, UpdateTag, RefreshTag, RemoveTag, ReloadGroup
  <2>3. ~(ImportReads(r) \/ ImportGroup(r) \/ ImportTag(r) \/ ImportAddsTag(r) \/ ImportEnds(r))
    BY DEF ImportReads, ImportGroup, ImportTag, ImportAddsTag, ImportEnds, Importing
  <2> QED
    BY <2>1, <2>2, <2>3 DEF TagStep
<1>2. ~(CheckSetpoints(r) \/ InsertPVs(r) \/ GetPV(r) \/ UpdatePV(r) \/ RefreshPV(r) \/ DeletePV(r) \/ SearchPVs(r))
  BY DEF CheckSetpoints, InsertPVs, Creating, GetPV, UpdatePV, RefreshPV, DeletePV, SearchPVs, Walking
<1>3. ~(CreateKey(r) \/ DeactivateKey(r))
  BY DEF CreateKey, DeactivateKey
<1>4. ~SnapshotStep(r)
  <2>1. ~(BeginRead(r) \/ LoadSnapshot(r) \/ ReadValues(r) \/ ReadPVs(r) \/ UpdateSnapshot(r) \/ DeleteSnapshot(r))
    BY DEF BeginRead, LoadSnapshot, ReadValues, ReadPVs, Reading, UpdateSnapshot, DeleteSnapshot
  <2>2. ~(ReadAddresses(r) \/ ReadCache(r) \/ ReadCA(r) \/ ReadPVA(r) \/ ReadFallback(r))
    BY DEF ReadAddresses, ReadCache, ReadCA, ReadPVA, ReadFallback, Creates
  <2>3. ~(InsertSnapshot(r) \/ InsertValues(r) \/ CommitSnapshot(r) \/ BulkInsert(r))
    BY DEF InsertSnapshot, InsertValues, CommitSnapshot, BulkInsert, Creates
  <2> QED
    BY <2>1, <2>2, <2>3 DEF SnapshotStep
<1>5. ~(Raised(r) \/ Answer(r) \/ Commit(r) \/ Statement(r))
  BY DEF Raised, Answer, Commit, Statement, FlushDone, FlushFails, Deadlock
<1> QED
  BY <1>1, <1>2, <1>3, <1>4, <1>5 DEF Handler, PVStep, KeyStep

LEMMA ArriveWalks ==
  ASSUME NEW home, Legal(home), NEW r \in Requests, WalkSoFar(r), Arrive(r)
  PROVE  WalkSoFar(r)'
<1> SUFFICES ASSUME Call(r)'.op = "walk" PROVE WalkSoFar(r)'
  BY DEF WalkSoFar
<1>1. TypeOK
  BY DEF Legal
<1>2. at[r] = "arrive" /\ (Goto(r, "read") \/ Fail(r, 401))
  BY DEF Arrive
<1>3. scenario' = scenario /\ list' = list
  BY <1>2 DEF Goto, Fail, memory
<1>4. Call(r)' = Call(r)
  BY <1>3 DEF Call
<1>5. list[r] = <<>> /\ Ascends(list[r]) /\ list[r] \in Seq(PVs)
  BY <1>2, <1>4 DEF WalkSoFar
<1>6. at'[r] = "read" \/ (at'[r] = "done" /\ status'[r] = 401)
  BY <1>1, <1>2 DEF Goto, Fail, TypeOK
<1>7. ~Underway(r)'
  BY <1>6 DEF Underway
<1>8. Ascends(list[r])' /\ list'[r] = <<>> /\ list'[r] \in Seq(PVs)
  BY <1>3, <1>5 DEF Ascends
<1> QED
  BY <1>6, <1>7, <1>8 DEF WalkSoFar

LEMMA PageWalks ==
  ASSUME NEW home, Legal(home), NewPVs, NEW r \in Requests, WalkSoFar(r), WalkPVs(r)
  PROVE  WalkSoFar(r)'
<1> DEFINE S == LivePVs(r) \cap Beyond(r)
           n == Call(r).limit
           new == list[r] \o First(n, Sorted(S))
<1>1. Call(r).op = "walk" /\ at[r] \in {"read", "more"} /\ Control(r) /\ TypeOK /\ Shapes
  BY DEF WalkPVs, Walking, Legal
<1>2. n \in Nat \ {0}
  BY <1>1, Asked DEF IsCall
<1>3. PVs \cap DOMAIN Sees(r) = PVs \cap DOMAIN db
  <2>1. Touched(tx[r]) = {}
    BY <1>1 DEF Control, Writes, Single, Reading
  <2> QED
    BY <2>1, AfterNothing DEF Sees
<1>4. S \subseteq PVs /\ S = PVs \cap DOMAIN db \cap Beyond(r)
  BY <1>3 DEF LivePVs, Beyond
<1>5. list[r] \in Seq(PVs) /\ Ascends(list[r]) /\ (at[r] = "read" => list[r] = <<>>)
  BY <1>1 DEF WalkSoFar
<1>6. list[r] # <<>> => \A p \in S : Place(list[r][Len(list[r])]) < Place(p)
  BY DEF Beyond
<1> DEFINE more == Len(Sorted(S)) > n
<1>7. Paged(r, First(n, Sorted(S)), more)
  BY DEF WalkPVs
<1>8. /\ list'[r] = new /\ at'[r] = (IF more THEN "more" ELSE "done") /\ status'[r] = 200
      /\ got'[r] = (IF at[r] = "read" THEN RowsIn(db, PVs) ELSE got[r])
      /\ UNCHANGED <<scenario, db, used, tx, work>>
  BY <1>1, <1>7 DEF Paged, TypeOK, Shapes
<1> HIDE DEF S, n
<1>9. /\ new \in Seq(PVs) /\ Ascends(new)
      /\ \A p : Lists(list[r], p) => Lists(new, p)
      /\ \A p \in S : \/ Lists(new, p)
                      \/ more /\ new # <<>> /\ Place(new[Len(new)]) < Place(p)
  BY <1>2, <1>4, <1>5, <1>6, PageFollows
<1> HIDE DEF new, more
<1>10. \A p \in PVs : Lists(new, p) \/ (more /\ new # <<>> /\ Place(new[Len(new)]) < Place(p)) => HasOrComes(r, p)'
  BY <1>8 DEF HasOrComes, Lists, Beyond
<1>11. /\ DOMAIN got'[r] \subseteq PVs \cap used
       /\ \A o \in Requests : DOMAIN got'[r] \cap Pending(o) = {}
  <2>1. CASE at[r] = "read"
    <3>1. DOMAIN got'[r] \subseteq PVs \cap DOMAIN db
      BY <1>8, <2>1 DEF RowsIn
    <3> QED
      BY <3>1, <1>1 DEF NewPVs, TypeOK
  <2>2. CASE at[r] = "more"
    BY <1>1, <1>8, <2>2 DEF WalkSoFar, Underway
  <2> QED
    BY <1>1, <2>1, <2>2
<1>12. ASSUME NEW p \in DOMAIN got'[r], p \in DOMAIN db PROVE HasOrComes(r, p)'
  <2>1. p \in PVs
    BY <1>11
  <2>2. Lists(list[r], p) \/ p \in Beyond(r)
    <3>1. CASE at[r] = "read"
      BY <1>5, <2>1, <3>1 DEF Beyond
    <3>2. CASE at[r] = "more"
      BY <1>1, <1>8, <1>12, <3>2 DEF WalkSoFar, Underway, HasOrComes
    <3> QED
      BY <1>1, <3>1, <3>2
  <2>3. Lists(new, p) \/ (more /\ new # <<>> /\ Place(new[Len(new)]) < Place(p))
    BY <1>4, <1>9, <1>12, <2>1, <2>2
  <2> QED
    BY <1>10, <2>1, <2>3
<1>13. \A o \in Requests : Pending(o)' = Pending(o)
  BY <1>8 DEF Pending
<1>14. at'[r] \in {"more", "done"}
  BY <1>8
<1>15. list'[r] \in Seq(PVs) /\ Ascends(list[r])'
  BY <1>8, <1>9 DEF Ascends
<1> QED
  BY <1>8, <1>11, <1>12, <1>13, <1>14, <1>15 DEF WalkSoFar

LEMMA StepsWalk ==
  ASSUME SomeHome, WalksGoOn, NEW r \in Requests, Handler(r) \/ Statement(r)
  PROVE  WalksGoOn'
<1>1. PICK home \in [Tags -> Groups] : Legal(home)
  BY DEF SomeHome
<1>2. NewPVs'
  BY <1>1, NewStayNew DEF WalksGoOn
<1>3. ASSUME NEW w \in Requests \ {r} PROVE WalkSoFar(w)'
  BY <1>1, OthersWalk DEF WalksGoOn
<1>4. WalkSoFar(r)'
  <2>1. CASE Call(r).op = "walk"
    <3>1. at[r] \in {"arrive", "read", "more", "done"}
      BY <2>1 DEF WalksGoOn, WalkSoFar
    <3>2. Arrive(r) \/ WalkPVs(r)
      BY <2>1, <3>1, WalksOnly
    <3> QED
      BY <1>1, <3>2, ArriveWalks, PageWalks DEF WalksGoOn
  <2>2. CASE Call(r).op # "walk"
    <3>1. Aside(r)
      BY <1>1, AllAside
    <3>2. Call(r)' = Call(r)
      BY <3>1 DEF Aside, Call
    <3> QED
      BY <2>2, <3>2 DEF WalkSoFar
  <2> QED
    BY <2>1, <2>2
<1> QED
  BY <1>2, <1>3, <1>4 DEF WalksGoOn

LEMMA StartWalks ==
  ASSUME Init
  PROVE  WalksGoOn
<1>1. DOMAIN NoChanges.ins = {}
  BY Nothing
<1>2. \A r \in Requests : tx[r] = NoChanges /\ work[r] = NoChanges /\ list[r] = <<>>
  BY DEF Init
<1>3. \A r \in Requests : Pending(r) = {}
  BY <1>1, <1>2 DEF Pending
<1>4. NewPVs
  BY <1>1, <1>2, <1>3 DEF NewPVs
<1>5. ASSUME NEW r \in Requests PROVE WalkSoFar(r)
  <2>1. at[r] \in {"arrive", "done"} /\ status[r] = 0
    BY DEF Init
  <2>2. list[r] = <<>> /\ <<>> \in Seq(PVs) /\ DOMAIN <<>> = {}
    BY <1>2
  <2>3. Ascends(list[r])
    BY <2>2 DEF Ascends
  <2> QED
    BY <2>1, <2>2, <2>3 DEF WalkSoFar, Underway
<1> QED
  BY <1>4, <1>5 DEF WalksGoOn

LEMMA StutterWalks ==
  ASSUME WalksGoOn, UNCHANGED vars
  PROVE  WalksGoOn'
<1>1. UNCHANGED <<scenario, db, used, tx, work, at, status, got, list>>
  BY DEF vars, memory
<1>2. \A r \in Requests : Pending(r)' = Pending(r)
  BY <1>1 DEF Pending
<1>3. NewPVs'
  BY <1>1, <1>2 DEF WalksGoOn, NewPVs
<1>4. ASSUME NEW r \in Requests PROVE WalkSoFar(r)'
  <2>1. /\ Call(r)' = Call(r) /\ (Underway(r)' <=> Underway(r)) /\ (Ascends(list[r])' <=> Ascends(list[r]))
        /\ \A p : HasOrComes(r, p)' <=> HasOrComes(r, p)
    BY <1>1 DEF Call, Underway, Ascends, HasOrComes, Lists, Beyond
  <2> QED
    BY <1>1, <1>2, <2>1 DEF WalksGoOn, WalkSoFar
<1> QED
  BY <1>3, <1>4 DEF WalksGoOn

LEMMA WalksEnd ==
  ASSUME WalksGoOn
  PROVE  WalkIsComplete
<1> SUFFICES ASSUME NEW r \in Requests, Ended(r), Call(r).op = "walk", status[r] = 200
             PROVE  /\ \A i, j \in DOMAIN list[r] : list[r][i] = list[r][j] => i = j
                    /\ \A p \in DOMAIN got[r] \cap DOMAIN db : \E i \in DOMAIN list[r] : list[r][i] = p
  BY DEF WalkIsComplete
<1>1. at[r] = "done" /\ Underway(r)
  BY DEF Ended, Underway
<1>2. /\ list[r] \in Seq(PVs) /\ Ascends(list[r])
      /\ \A p \in DOMAIN got[r] \cap DOMAIN db : HasOrComes(r, p)
  BY <1>1 DEF WalksGoOn, WalkSoFar
<1>3. ASSUME NEW i \in DOMAIN list[r], NEW j \in DOMAIN list[r], list[r][i] = list[r][j] PROVE i = j
  <2>1. list[r][i] \in PVs /\ i \in Nat /\ j \in Nat
    BY <1>2
  <2>2. Place(list[r][i]) \in Int
    BY <2>1, Places
  <2>3. ~(i < j) /\ ~(j < i)
    BY <1>2, <1>3, <2>2 DEF Ascends
  <2> QED
    BY <2>1, <2>3
<1>4. \A p \in DOMAIN got[r] \cap DOMAIN db : Lists(list[r], p)
  BY <1>1, <1>2 DEF HasOrComes
<1> QED
  BY <1>3, <1>4 DEF Lists

(* A client that follows the continuation tokens of GET /pvs/paged gets no PV
   twice, and every PV that was there from its first page to its last. *)
THEOREM WalksAreComplete == Spec => []WalkIsComplete
<1>1. Init => WalksGoOn
  BY StartWalks
<1>2. SomeHome /\ WalksGoOn /\ [Next]_vars => WalksGoOn'
  BY StepsWalk, StutterWalks DEF Next
<1>3. WalksGoOn => WalkIsComplete
  BY WalksEnd
<1> QED
  BY <1>1, <1>2, <1>3, StaysLegal, PTL DEF Spec

-----------------------------------------------------------------------------
(* What a direct snapshot reads and records *)

(* What EPICS has answered, and where a flush goes on, are a request's own. *)
Hears(r) ==
  /\ heard' = heard \/ \E answers : heard' = [heard EXCEPT ![r] = answers]
  /\ next' = next \/ \E l : next' = [next EXCEPT ![r] = l]

LEMMA HeardAside ==
  ASSUME NEW r \in Requests, Handler(r) \/ Statement(r)
  PROVE  Hears(r)
<1>1. \A l : Goto(r, l) => Hears(r)
  BY DEF Goto, Hears, memory
<1>2. \A rows, l : Keep(r, rows, l) => Hears(r)
  BY DEF Keep, Hears
<1>3. \A c, l : Flush(r, c, l) /\ heard' = heard => Hears(r)
  BY DEF Flush, Hears
<1>4. \A s : Fail(r, s) => Hears(r)
  BY DEF Fail, Hears, memory
<1>5. \A tasks : Continue(r, tasks) => Hears(r)
  BY DEF Continue, Hears
<1>6. \A answers, l : Heard(r, answers, l) => Hears(r)
  BY DEF Heard, Hears
<1>7. \A page, more : Paged(r, page, more) => Hears(r)
  BY DEF Paged, Hears
<1>8. (UNCHANGED memory => heard' = heard) /\ (UNCHANGED <<got, heard>> => heard' = heard)
  BY DEF memory
<1>9. CASE TagStep(r)
  <2>1. CASE CreateGroup(r) \/ GetGroup(r) \/ RefreshGroup(r) \/ DeleteGroup(r)
    BY <1>1, <1>2, <1>3, <1>4, <1>8, <2>1, Zenon DEF CreateGroup, GetGroup, RefreshGroup, DeleteGroup
  <2>2. CASE RenameGroup(r)
    BY <1>1, <1>3, <1>4, <1>8, <2>2, Zenon DEF RenameGroup
  <2>3. CASE AddTag(r)
    BY <1>1, <1>3, <1>4, <1>8, <2>3, Zenon DEF AddTag
  <2>4. CASE GetGroupOfTag(r) \/ UpdateTag(r)
    BY <1>1, <1>3, <1>4, <1>8, <2>4, Zenon DEF GetGroupOfTag, UpdateTag
  <2>5. CASE RefreshTag(r) \/ RemoveTag(r) \/ ReloadGroup(r)
    BY <1>1, <1>3, <1>4, <1>8, <2>5, Zenon DEF RefreshTag, RemoveTag, ReloadGroup
  <2>6. CASE ImportReads(r)
    BY <2>6 DEF ImportReads, Hears
  <2>7. CASE ImportGroup(r)
    BY <1>3, <1>4, <1>5, <2>7, Zenon DEF ImportGroup
  <2>8. CASE ImportTag(r) \/ ImportEnds(r)
    BY <1>1, <1>5, <2>8, Zenon DEF ImportTag, ImportEnds
  <2>9. CASE ImportAddsTag(r)
    BY <1>3, <1>5, <1>8, <2>9, Zenon DEF ImportAddsTag
  <2> QED
    BY <1>9, <2>1, <2>2, <2>3, <2>4, <2>5, <2>6, <2>7, <2>8, <2>9 DEF TagStep
<1>10. CASE PVStep(r)
  <2>1. CASE CheckSetpoints(r) \/ RefreshPV(r)
    BY <1>1, <1>4, <2>1, Zenon DEF CheckSetpoints, RefreshPV
  <2>2. CASE GetPV(r) \/ UpdatePV(r) \/ DeletePV(r)
    BY <1>2, <1>3, <1>4, <1>8, <2>2, Zenon DEF GetPV, UpdatePV, DeletePV
  <2>3. CASE InsertPVs(r)
    <3>1. Fail(r, 409) \/ \E c : Flush(r, c, "answer") /\ UNCHANGED memory
      BY <2>3, Zenon DEF InsertPVs
    <3> QED
      BY <1>3, <1>4, <1>8, <3>1, Zenon
  <2>4. CASE WalkPVs(r) \/ SearchPVs(r)
    BY <1>7, <2>4, Zenon DEF WalkPVs, SearchPVs
  <2> QED
    BY <1>10, <2>1, <2>2, <2>3, <2>4 DEF PVStep
<1>11. CASE KeyStep(r)
  BY <1>1, <1>3, <1>4, <1>8, <1>11, Zenon DEF KeyStep, Arrive, CreateKey, DeactivateKey
<1>12. CASE SnapshotStep(r)
  <2>1. CASE BeginRead(r) \/ ReadValues(r) \/ CommitSnapshot(r)
    BY <2>1 DEF BeginRead, ReadValues, CommitSnapshot, Hears, memory
  <2>2. CASE LoadSnapshot(r)
    <3>1. Fail(r, 404) \/ (heard' = heard /\ next' = next)
      BY <2>2 DEF LoadSnapshot, memory
    <3> QED
      BY <1>4, <3>1, Zenon DEF Hears
  <2>3. CASE ReadPVs(r) \/ UpdateSnapshot(r) \/ DeleteSnapshot(r) \/ ReadAddresses(r) \/ ReadCache(r)
    BY <1>1, <1>2, <1>3, <1>4, <1>8, <2>3, Zenon
    DEF ReadPVs, UpdateSnapshot, DeleteSnapshot, ReadAddresses, ReadCache
  <2>4. CASE ReadCA(r) \/ ReadPVA(r) \/ ReadFallback(r)
    BY <1>6, <2>4, Zenon DEF ReadCA, ReadPVA, ReadFallback
  <2>5. CASE InsertSnapshot(r) \/ InsertValues(r)
    <3>1. (\E c, l : Flush(r, c, l)) /\ (UNCHANGED memory \/ UNCHANGED <<got, heard>>)
      BY <2>5, Zenon DEF InsertSnapshot, InsertValues
    <3> QED
      BY <1>3, <1>8, <3>1, Zenon
  <2>6. CASE BulkInsert(r)
    <3>1. Fail(r, 500) \/ (heard' = heard /\ next' = next)
      BY <2>6 DEF BulkInsert, memory
    <3> QED
      BY <1>4, <3>1, Zenon DEF Hears
  <2> QED
    BY <1>12, <2>1, <2>2, <2>3, <2>4, <2>5, <2>6 DEF SnapshotStep
<1>13. CASE Raised(r)
  <2>1. Goto(r, "task") \/ \E s : Fail(r, s)
    BY <1>13 DEF Raised
  <2> QED
    BY <1>1, <1>4, <2>1, Zenon
<1>14. CASE Answer(r) \/ Commit(r)
  BY <1>14 DEF Answer, Commit, Hears, memory
<1>15. CASE Statement(r)
  BY <1>15 DEF Statement, FlushDone, FlushFails, Deadlock, FlushRaises, Hears, memory
<1> QED
  BY <1>9, <1>10, <1>11, <1>12, <1>13, <1>14, <1>15 DEF Handler

(* The addresses of the PVs that were read, those that answer over CA, over
   PVA, or at all, and the rows that tell what they answered. *)
AddressesIn(pvs) ==
  {pvs[p].name : p \in DOMAIN pvs} \cup ({pvs[p].readback : p \in DOMAIN pvs} \ {NoReadback})
OverCA(call, pvs) ==
  {a \in AddressesIn(pvs) : Protocol(a) \in {"ca", "bare"} /\ a \notin call.silent.ca /\ "ca" \notin call.raises}
OverPVA(call, pvs) ==
  {a \in AddressesIn(pvs) : Protocol(a) = "pva" /\ "pva" \notin call.raises}
Answering(call, pvs) == {a \in AddressesIn(pvs) : Answers(call, a)}

BackOf(call, pv) == IF pv.readback = NoReadback THEN Null ELSE Expected(call, pv.readback)
Records(call, pvs, s, rows) ==
  \A p \in DOMAIN pvs :
    /\ <<s, p>> \in DOMAIN rows
    /\ rows[<<s, p>>].setpoint = Expected(call, pvs[p].name)
    /\ rows[<<s, p>>].readback \in {BackOf(call, pvs[p]), Null}
    /\ \E q \in DOMAIN pvs :
         pvs[q].readback = pvs[p].readback /\ rows[<<s, q>>].readback = BackOf(call, pvs[p])

Directly(r) == Call(r).op = "create_snapshot" /\ ~Call(r).cached
DirectSteps == {"arrive", "read", "ca", "pva", "fallback", "insert", "flush", "values",
                "integrity", "failed", "answer", "commit", "done"}

(* A direct snapshot has heard all that answers before it inserts, and what
   it flushes last tells it. *)
CaptureSoFar(r) ==
  Directly(r) =>
    /\ at[r] \in DirectSteps
    /\ at[r] \in {"arrive", "read", "ca"} => heard[r] = {}
    /\ at[r] = "pva" => heard[r] = OverCA(Call(r), got[r])
    /\ at[r] = "fallback" => heard[r] = OverCA(Call(r), got[r]) \cup OverPVA(Call(r), got[r])
    /\ at[r] \in {"insert", "flush", "values"} => heard[r] = Answering(Call(r), got[r])
    /\ at[r] = "flush" => next[r] \in {"values", "answer"}
    /\ at[r] = "flush" /\ next[r] = "answer" => Records(Call(r), got[r], list[r][1], work[r].ins)
    /\ at[r] \in {"answer", "commit"} => Records(Call(r), got[r], list[r][1], tx[r].ins)

CapturesGoOn == DOMAIN heard = Requests /\ \A r \in Requests : CaptureSoFar(r)

LEMMA CaptureStands ==
  ASSUME NEW o, CaptureSoFar(o), scenario' = scenario, at'[o] = at[o], next'[o] = next[o],
         heard'[o] = heard[o], got'[o] = got[o], list'[o] = list[o], tx'[o] = tx[o], work'[o] = work[o]
  PROVE  CaptureSoFar(o)'
<1>1. Call(o)' = Call(o)
  BY DEF Call
<1>2. Directly(o)' <=> Directly(o)
  BY <1>1 DEF Directly
<1> QED
  BY <1>1, <1>2 DEF CaptureSoFar

(* A direct snapshot takes no other steps. *)
LEMMA DirectOnly ==
  ASSUME NEW r \in Requests, Directly(r), at[r] \in DirectSteps, Handler(r) \/ Statement(r)
  PROVE  \/ Arrive(r) \/ ReadAddresses(r) \/ ReadCA(r) \/ ReadPVA(r) \/ ReadFallback(r)
         \/ InsertSnapshot(r) \/ InsertValues(r) \/ Raised(r) \/ Answer(r) \/ Commit(r)
         \/ FlushDone(r) \/ FlushFails(r) \/ Deadlock(r)
<1> USE DEF At, Directly, DirectSteps
<1>1. ~TagStep(r)
  <2>1. ~(CreateGroup(r) \/ GetGroup(r) \/ RenameGroup(r) \/ RefreshGroup(r) \/ DeleteGroup(r))
    BY DEF CreateGroup, GetGroup, RenameGroup, RefreshGroup, DeleteGroup
  <2>2. ~(GetGroupOfTag(r) \/ AddTag(r) \/ UpdateTag(r) \/ RefreshTag(r) \/ RemoveTag(r) \/ ReloadGroup(r))
    BY DEF GetGroupOfTag, AddTag, UpdateTag, RefreshTag, RemoveTag, ReloadGroup
  <2>3. ~(ImportReads(r) \/ ImportGroup(r) \/ ImportTag(r) \/ ImportAddsTag(r) \/ ImportEnds(r))
    BY DEF ImportReads, ImportGroup, ImportTag, ImportAddsTag, ImportEnds, Importing
  <2> QED
    BY <2>1, <2>2, <2>3 DEF TagStep
<1>2. ~PVStep(r)
  BY DEF PVStep, CheckSetpoints, InsertPVs, Creating, GetPV, UpdatePV, RefreshPV, DeletePV,
         WalkPVs, SearchPVs, Walking
<1>3. ~(CreateKey(r) \/ DeactivateKey(r))
  BY DEF CreateKey, DeactivateKey
<1>4. ~(BeginRead(r) \/ LoadSnapshot(r) \/ ReadValues(r) \/ ReadPVs(r) \/ UpdateSnapshot(r) \/ DeleteSnapshot(r))
  BY DEF BeginRead, LoadSnapshot, ReadValues, ReadPVs, Reading, UpdateSnapshot, DeleteSnapshot
<1>5. ~(ReadCache(r) \/ CommitSnapshot(r) \/ BulkInsert(r))
  BY DEF ReadCache, CommitSnapshot, BulkInsert, Creates
<1> QED
  BY <1>1, <1>2, <1>3, <1>4, <1>5 DEF Handler, Statement, KeyStep, SnapshotStep

(* The steps of a direct snapshot that change nothing it has in hand. *)
LEMMA HeardTypes ==
  ASSUME NEW home, Legal(home), CapturesGoOn, NEW r \in Requests
  PROVE  /\ DOMAIN at = Requests /\ DOMAIN next = Requests /\ DOMAIN heard = Requests
         /\ DOMAIN got = Requests /\ DOMAIN list = Requests /\ DOMAIN tx = Requests /\ DOMAIN work = Requests
BY DEF Legal, TypeOK, Shapes, CapturesGoOn

(* The reads: over CA, over PVA, and over PVA again what CA has not read. *)
LEMMA ReadsHear ==
  ASSUME NEW home, Legal(home), CapturesGoOn, NEW r \in Requests, Directly(r),
         ReadAddresses(r) \/ ReadCA(r) \/ ReadPVA(r) \/ ReadFallback(r)
  PROVE  CaptureSoFar(r)'
<1> DEFINE call == Call(r)
           pvs == got[r]
<1>1. CaptureSoFar(r)
  BY DEF CapturesGoOn
<1>2. DOMAIN at = Requests /\ DOMAIN heard = Requests /\ DOMAIN got = Requests
  BY HeardTypes
<1>3. SetpointsOf(r) \cup ReadbacksOf(r) = AddressesIn(pvs)
  BY DEF SetpointsOf, ReadbacksOf, AddressesIn
<1>4. CASE ReadAddresses(r)
  <2>1. at[r] = "read"
    BY <1>1, <1>4 DEF ReadAddresses, Creates, At, CaptureSoFar, DirectSteps
  <2>2. at'[r] = "ca" /\ heard' = heard /\ scenario' = scenario
    BY <1>2, <1>4, <2>1 DEF ReadAddresses, Keep, Directly
  <2>3. Directly(r)' <=> Directly(r)
    BY <2>2 DEF Directly, Call
  <2>4. heard'[r] = {}
    BY <1>1, <2>1, <2>2 DEF CaptureSoFar
  <2> QED
    BY <2>2, <2>4 DEF CaptureSoFar, DirectSteps
<1>5. ASSUME NEW answers, NEW l \in {"pva", "fallback", "insert"}, Heard(r, answers, l)
      PROVE  /\ at'[r] = l /\ heard'[r] = heard[r] \cup answers /\ got'[r] = pvs
             /\ Call(r)' = call
  BY <1>2, <1>5 DEF Heard, Call
<1>6. CASE ReadCA(r)
  <2> DEFINE names == Addresses(r, {"ca", "bare"})
             answers == IF "ca" \in call.raises THEN {} ELSE names \ call.silent.ca
  <2>1. at[r] = "ca" /\ Heard(r, answers, "pva")
    BY <1>6 DEF ReadCA, Creates, At
  <2>2. heard[r] = {}
    BY <1>1, <2>1 DEF CaptureSoFar
  <2>3. answers = OverCA(call, pvs)
    BY <1>3 DEF Addresses, OverCA
  <2> HIDE DEF answers, call
  <2>4. at'[r] = "pva" /\ heard'[r] = OverCA(call, pvs) /\ got'[r] = pvs /\ Call(r)' = call
    BY <1>5, <2>1, <2>2, <2>3
  <2> QED
    BY <2>4 DEF CaptureSoFar, DirectSteps
<1>7. CASE ReadPVA(r)
  <2> DEFINE names == Addresses(r, {"pva"})
             answers == IF "pva" \in call.raises THEN {} ELSE names
  <2>1. at[r] = "pva" /\ Heard(r, answers, "fallback")
    BY <1>7 DEF ReadPVA, Creates, At
  <2>2. heard[r] = OverCA(call, pvs)
    BY <1>1, <2>1 DEF CaptureSoFar
  <2>3. answers = OverPVA(call, pvs)
    BY <1>3 DEF Addresses, OverPVA
  <2> HIDE DEF answers, call
  <2>4. at'[r] = "fallback" /\ heard'[r] = OverCA(call, pvs) \cup OverPVA(call, pvs) /\ got'[r] = pvs /\ Call(r)' = call
    BY <1>5, <2>1, <2>2, <2>3
  <2> QED
    BY <2>4 DEF CaptureSoFar, DirectSteps
<1>8. CASE ReadFallback(r)
  <2> DEFINE names == IF Fallback THEN Addresses(r, {"bare"}) \ heard[r] ELSE {}
             answers == IF "fallback" \in call.raises THEN {} ELSE names
  <2>1. at[r] = "fallback" /\ Heard(r, answers, "insert")
    BY <1>8 DEF ReadFallback, Creates, At
  <2>2. heard[r] = OverCA(call, pvs) \cup OverPVA(call, pvs)
    BY <1>1, <2>1 DEF CaptureSoFar
  <2>3. "fallback" \notin call.raises => names \cap call.silent.pva = {}
    BY <1>8 DEF ReadFallback
  <2>4. Addresses(r, {"bare"}) = {a \in AddressesIn(pvs) : Protocol(a) = "bare"}
    BY <1>3 DEF Addresses
  <2>5. ASSUME NEW a PROVE a \in heard[r] \cup answers <=> a \in Answering(call, pvs)
    <3>1. a \in heard[r] <=>
            /\ a \in AddressesIn(pvs)
            /\ \/ Protocol(a) \in {"ca", "bare"} /\ a \notin call.silent.ca /\ "ca" \notin call.raises
               \/ Protocol(a) = "pva" /\ "pva" \notin call.raises
      BY <2>2 DEF OverCA, OverPVA
    <3>2. a \in answers <=>
            /\ a \in AddressesIn(pvs) /\ Protocol(a) = "bare" /\ a \notin heard[r]
            /\ Fallback /\ "fallback" \notin call.raises
      BY <2>4
    <3>3. a \in answers => a \notin call.silent.pva
      BY <2>3
    <3>4. a \in Answering(call, pvs) <=>
            /\ a \in AddressesIn(pvs)
            /\ \/ Protocol(a) = "pva" /\ "pva" \notin call.raises
               \/ Protocol(a) \in {"ca", "bare"} /\ a \notin call.silent.ca /\ "ca" \notin call.raises
               \/ /\ Protocol(a) = "bare" /\ Fallback /\ a \notin call.silent.pva
                  /\ "fallback" \notin call.raises
      BY DEF Answering, Answers
    <3> HIDE DEF answers, call, pvs
    <3> QED
      BY <3>1, <3>2, <3>3, <3>4
  <2> HIDE DEF answers, call
  <2>6. heard[r] \cup answers = Answering(call, pvs)
    BY <2>5
  <2>7. at'[r] = "insert" /\ heard'[r] = Answering(call, pvs) /\ got'[r] = pvs /\ Call(r)' = call
    BY <1>5, <2>1, <2>6
  <2> QED
    BY <2>7 DEF CaptureSoFar, DirectSteps
<1> QED
  BY <1>4, <1>6, <1>7, <1>8

(* The rows: the snapshot, then a value for every PV. *)
LEMMA InsertsRecord ==
  ASSUME NEW home, Legal(home), CapturesGoOn, NEW r \in Requests, Directly(r),
         InsertSnapshot(r) \/ InsertValues(r)
  PROVE  CaptureSoFar(r)'
<1> DEFINE call == Call(r)
           pvs == got[r]
<1>1. CaptureSoFar(r)
  BY DEF CapturesGoOn
<1>2. /\ DOMAIN at = Requests /\ DOMAIN next = Requests /\ DOMAIN heard = Requests
      /\ DOMAIN got = Requests /\ DOMAIN work = Requests
  BY HeardTypes
<1>3. CASE InsertSnapshot(r)
  <2>1. at[r] = "insert"
    BY <1>1, <1>3 DEF InsertSnapshot, Creates, At, CaptureSoFar, DirectSteps
  <2>2. at'[r] = "flush" /\ next'[r] = "values" /\ scenario' = scenario /\ got' = got /\ heard' = heard
    BY <1>2, <1>3, <2>1 DEF InsertSnapshot, Flush
  <2>3. Call(r)' = Call(r)
    BY <2>2 DEF Call
  <2>4. heard[r] = Answering(Call(r), got[r])
    BY <1>1, <2>1 DEF CaptureSoFar
  <2> QED
    BY <2>2, <2>3, <2>4 DEF CaptureSoFar, DirectSteps
<1>4. CASE InsertValues(r)
  <2> DEFINE s == list[r][1]
  <2>1. at[r] = "values"
    BY <1>4 DEF InsertValues, Creates, At
  <2>2. heard[r] = Answering(call, pvs)
    BY <1>1, <2>1 DEF CaptureSoFar
  <2>3. PICK of \in [ReadbacksOf(r) -> DOMAIN got[r]] :
          /\ \A a \in ReadbacksOf(r) : got[r][of[a]].readback = a
          /\ Flush(r, Insert(
               [v \in {list[r][1]} \X DOMAIN got[r] |->
                  LET pv == got[r][v[2]]
                  IN [setpoint |-> Recorded(r, pv.name),
                      readback |-> IF pv.readback \in ReadbacksOf(r) /\ of[pv.readback] = v[2]
                                   THEN Recorded(r, pv.readback) ELSE Null]]), "answer")
    BY <1>4 DEF InsertValues
  <2> DEFINE back(p) == IF pvs[p].readback \in ReadbacksOf(r) /\ of[pvs[p].readback] = p
                        THEN Recorded(r, pvs[p].readback) ELSE Null
             rows == [v \in {s} \X DOMAIN pvs |-> [setpoint |-> Recorded(r, pvs[v[2]].name), readback |-> back(v[2])]]
  <2>4. Flush(r, Insert(rows), "answer")
    BY <2>3
  <2>5. \A a \in AddressesIn(pvs) : Recorded(r, a) = Expected(call, a)
    BY <2>2 DEF Answering, Recorded, Sanitized, Expected
  <2>6. ReadbacksOf(r) = {pvs[p].readback : p \in DOMAIN pvs} \ {NoReadback}
    BY DEF ReadbacksOf
  <2>7. \A p \in DOMAIN pvs : pvs[p].name \in AddressesIn(pvs)
    BY DEF AddressesIn
  <2>8. \A a \in ReadbacksOf(r) : a \in AddressesIn(pvs)
    BY <2>6 DEF AddressesIn
  <2>9. ASSUME NEW p \in DOMAIN pvs
        PROVE  back(p) \in {BackOf(call, pvs[p]), Null}
    <3>1. CASE pvs[p].readback \in ReadbacksOf(r)
      BY <2>5, <2>6, <2>8, <3>1 DEF BackOf
    <3>2. CASE pvs[p].readback \notin ReadbacksOf(r)
      BY <3>2
    <3> QED
      BY <3>1, <3>2
  <2>10. ASSUME NEW p \in DOMAIN pvs
         PROVE  \E q \in DOMAIN pvs : pvs[q].readback = pvs[p].readback /\ back(q) = BackOf(call, pvs[p])
    <3>1. CASE pvs[p].readback = NoReadback
      <4>1. pvs[p].readback \notin ReadbacksOf(r)
        BY <2>6, <3>1
      <4>2. back(p) = Null /\ BackOf(call, pvs[p]) = Null
        BY <3>1, <4>1 DEF BackOf
      <4> QED
        BY <4>2
    <3>2. CASE pvs[p].readback # NoReadback
      <4> DEFINE a == pvs[p].readback
                 q == of[a]
      <4>1. a \in ReadbacksOf(r)
        BY <2>6, <3>2
      <4>2. q \in DOMAIN pvs /\ pvs[q].readback = a
        BY <2>3, <4>1
      <4>3. back(q) = Recorded(r, a)
        BY <4>1, <4>2
      <4>4. BackOf(call, pvs[p]) = Expected(call, a)
        BY <3>2 DEF BackOf
      <4>5. back(q) = BackOf(call, pvs[p])
        BY <2>5, <2>8, <4>1, <4>3, <4>4
      <4> HIDE DEF back
      <4> QED
        BY <4>2, <4>5
    <3> QED
      BY <3>1, <3>2
  <2> HIDE DEF back
  <2>11. \A p \in DOMAIN pvs : /\ <<s, p>> \in DOMAIN rows
                               /\ rows[<<s, p>>].setpoint = Recorded(r, pvs[p].name)
                               /\ rows[<<s, p>>].readback = back(p)
    OBVIOUS
  <2> HIDE DEF rows, s, call, pvs
  <2>12. Records(call, pvs, s, rows)
    BY <2>5, <2>7, <2>9, <2>10, <2>11 DEF Records
  <2>13. Insert(rows).ins = rows
    BY DEF Insert, NoChanges
  <2>14. /\ at'[r] = "flush" /\ next'[r] = "answer" /\ work'[r] = Insert(rows)
         /\ scenario' = scenario /\ got' = got /\ list' = list /\ heard' = heard
    BY <1>2, <1>4, <2>4 DEF InsertValues, Flush, memory
  <2>15. Call(r)' = call /\ got'[r] = pvs /\ list'[r][1] = s
    BY <2>14 DEF Call, call, pvs, s
  <2> QED
    BY <2>2, <2>12, <2>13, <2>14, <2>15 DEF CaptureSoFar, DirectSteps
<1> QED
  BY <1>3, <1>4

(* Flushes that work, flushes that do not, and the ends. *)
LEMMA FlushRecords ==
  ASSUME NEW home \in [Tags -> Groups], Legal(home), CapturesGoOn, NEW r \in Requests, Directly(r), FlushDone(r)
  PROVE  CaptureSoFar(r)'
<1>1. CaptureSoFar(r)
  BY DEF CapturesGoOn
<1>2. DOMAIN at = Requests
  BY HeardTypes
<1>3. at[r] = "flush" /\ next[r] \in {"values", "answer"} /\ heard[r] = Answering(Call(r), got[r])
  BY <1>1 DEF FlushDone, CaptureSoFar
<1>4. /\ at'[r] = next[r]
      /\ UNCHANGED <<scenario, got, list, heard>>
  BY <1>2 DEF FlushDone, memory
<1>5. Call(r)' = Call(r)
  BY <1>4 DEF Call
<1>6. ASSUME next[r] = "answer"
      PROVE  Records(Call(r), got[r], list[r][1], tx'[r].ins)
  <2> DEFINE new == tx'[r].ins
             ins == work[r].ins
  <2>1. Records(Call(r), got[r], list[r][1], ins)
    BY <1>1, <1>3, <1>6 DEF CaptureSoFar
  <2>2. Merges(tx'[r], tx[r], Effect(r)) /\ Effect(r).ins = ins
    BY FlushMerges, EffectIs
  <2>3. \A i \in DOMAIN ins : i \in DOMAIN new /\ new[i] = ins[i]
    BY <2>2 DEF Merges
  <2> HIDE DEF new, ins
  <2>4. Records(Call(r), got[r], list[r][1], new)
    BY <2>1, <2>3 DEF Records
  <2> QED
    BY <2>4 DEF new
<1> QED
  BY <1>3, <1>4, <1>5, <1>6 DEF CaptureSoFar, DirectSteps

LEMMA EndsRecord ==
  ASSUME NEW home, Legal(home), CapturesGoOn, NEW r \in Requests, Directly(r),
         Arrive(r) \/ Raised(r) \/ Answer(r) \/ Commit(r) \/ FlushFails(r) \/ Deadlock(r)
  PROVE  CaptureSoFar(r)'
<1>1. CaptureSoFar(r) /\ Control(r)
  BY DEF CapturesGoOn, Legal
<1>2. DOMAIN at = Requests /\ DOMAIN tx = Requests
  BY HeardTypes
<1>3. CASE Arrive(r)
  <2>1. at[r] = "arrive" /\ at'[r] \in {"read", "done"} /\ heard' = heard
    BY <1>2, <1>3 DEF Arrive, Goto, Fail, memory
  <2> QED
    BY <1>1, <2>1 DEF CaptureSoFar, DirectSteps
<1>4. CASE Answer(r)
  <2>1. at[r] = "answer" /\ work[r] = NoChanges
    BY <1>1, <1>4 DEF Answer, Control, Quiet, Reading, Directly
  <2>2. at'[r] = "commit" /\ UNCHANGED <<scenario, tx, got, list>>
    BY <1>2, <1>4, <2>1 DEF Answer, memory
  <2>3. Call(r)' = Call(r)
    BY <2>2 DEF Call
  <2> QED
    BY <1>1, <2>1, <2>2, <2>3 DEF CaptureSoFar, DirectSteps
<1>5. CASE Raised(r) \/ Commit(r) \/ FlushFails(r) \/ Deadlock(r)
  <2>1. at'[r] \in {"done", "integrity", "failed"}
    <3>1. CASE Raised(r)
      BY <1>2, <3>1 DEF Raised, Fail, Directly
    <3>2. CASE Commit(r)
      BY <1>2, <3>2 DEF Commit
    <3>3. CASE FlushFails(r) \/ Deadlock(r)
      BY <1>2, <3>3 DEF FlushFails, Deadlock, FlushRaises
    <3> QED
      BY <1>5, <3>1, <3>2, <3>3
  <2> QED
    BY <2>1 DEF CaptureSoFar, DirectSteps
<1> QED
  BY <1>3, <1>4, <1>5

LEMMA StepsCapture ==
  ASSUME SomeHome, CapturesGoOn, NEW r \in Requests, Handler(r) \/ Statement(r)
  PROVE  CapturesGoOn'
<1>1. PICK home \in [Tags -> Groups] : Legal(home)
  BY DEF SomeHome
<1>2. Aside(r) /\ Hears(r) /\ \A o \in Requests \ {r} : tx'[o] = tx[o]
  BY <1>1, AllAside, HeardAside, RowsMove
<1>3. DOMAIN next = Requests /\ DOMAIN heard = Requests
  BY <1>1, HeardTypes
<1>4. DOMAIN heard' = Requests
  BY <1>2, <1>3 DEF Hears
<1>5. ASSUME NEW o \in Requests \ {r} PROVE CaptureSoFar(o)'
  <2>1. /\ scenario' = scenario /\ at'[o] = at[o] /\ got'[o] = got[o] /\ list'[o] = list[o]
        /\ tx'[o] = tx[o] /\ work'[o] = work[o]
    BY <1>2 DEF Aside
  <2>2. heard'[o] = heard[o] /\ next'[o] = next[o]
    BY <1>2, <1>3 DEF Hears
  <2>3. CaptureSoFar(o)
    BY DEF CapturesGoOn
  <2> QED
    BY <2>1, <2>2, <2>3, CaptureStands
<1>6. CaptureSoFar(r)'
  <2>1. CASE Directly(r)
    <3>1. at[r] \in DirectSteps
      BY <2>1 DEF CapturesGoOn, CaptureSoFar
    <3> QED
      BY <1>1, <2>1, <3>1, DirectOnly, ReadsHear, InsertsRecord, FlushRecords, EndsRecord
  <2>2. CASE ~Directly(r)
    <3>1. Call(r)' = Call(r)
      BY <1>2 DEF Aside, Call
    <3> QED
      BY <2>2, <3>1 DEF CaptureSoFar, Directly
  <2> QED
    BY <2>1, <2>2
<1> QED
  BY <1>4, <1>5, <1>6 DEF CapturesGoOn

LEMMA CapturesStart ==
  ASSUME Init
  PROVE  CapturesGoOn
<1>1. DOMAIN heard = Requests /\ \A r \in Requests : heard[r] = {} /\ at[r] \in {"arrive", "done"}
  BY DEF Init
<1> QED
  BY <1>1 DEF CapturesGoOn, CaptureSoFar, DirectSteps

LEMMA CapturesStutter ==
  ASSUME CapturesGoOn, UNCHANGED vars
  PROVE  CapturesGoOn'
<1>1. UNCHANGED <<scenario, tx, work, at, next, got, list, heard>>
  BY DEF vars, memory
<1>2. ASSUME NEW r \in Requests PROVE CaptureSoFar(r)'
  BY <1>1, CaptureStands DEF CapturesGoOn
<1> QED
  BY <1>1, <1>2 DEF CapturesGoOn

LEMMA CapturesEnd ==
  ASSUME SomeHome, CapturesGoOn
  PROVE  CaptureIsTrue
<1> SUFFICES ASSUME NEW r \in Requests, At(r, "create_snapshot", "commit"), ~Call(r).cached,
                    NEW p \in DOMAIN got[r]
             PROVE  LET row(q) == Sees(r)[<<list[r][1], q>>]
                    IN /\ <<list[r][1], p>> \in DOMAIN Sees(r)
                       /\ row(p).setpoint = Expected(Call(r), got[r][p].name)
                       /\ row(p).readback \in {ExpectedBack(r, p), Null}
                       /\ \E q \in DOMAIN got[r] :
                            got[r][q].readback = got[r][p].readback /\ row(q).readback = ExpectedBack(r, p)
  BY DEF CaptureIsTrue
<1>1. PICK home \in [Tags -> Groups] : Legal(home)
  BY DEF SomeHome
<1>2. Directly(r) /\ at[r] = "commit"
  BY DEF At, Directly
<1> DEFINE s == list[r][1]
           ins == tx[r].ins
<1>3. Records(Call(r), got[r], s, ins)
  BY <1>2 DEF CapturesGoOn, CaptureSoFar
<1>4. tx[r].del = {}
  BY <1>1, <1>2 DEF Legal, Control, Captures, InsertsOnly, Directly
<1>5. \A i \in DOMAIN ins : i \in DOMAIN Sees(r) /\ Sees(r)[i] = ins[i]
  BY <1>4 DEF Sees, After
<1>6. BackOf(Call(r), got[r][p]) = ExpectedBack(r, p)
  BY DEF BackOf, ExpectedBack
<1> HIDE DEF s, ins
<1>7. /\ <<s, p>> \in DOMAIN ins
      /\ ins[<<s, p>>].setpoint = Expected(Call(r), got[r][p].name)
      /\ ins[<<s, p>>].readback \in {ExpectedBack(r, p), Null}
  BY <1>3, <1>6 DEF Records
<1>8. PICK q \in DOMAIN got[r] :
        got[r][q].readback = got[r][p].readback /\ ins[<<s, q>>].readback = ExpectedBack(r, p)
  BY <1>3, <1>6 DEF Records
<1>9. <<s, q>> \in DOMAIN ins
  BY <1>3 DEF Records
<1>10. <<s, p>> \in DOMAIN Sees(r) /\ Sees(r)[<<s, p>>] = ins[<<s, p>>] /\ Sees(r)[<<s, q>>] = ins[<<s, q>>]
  BY <1>5, <1>7, <1>9
<1> QED
  BY <1>7, <1>8, <1>10 DEF s

(* A direct snapshot has a row for every PV it read, with what its setpoint
   answered; of the PVs with one readback address one has what it answered. *)
THEOREM CapturesAreTrue == Spec => []CaptureIsTrue
<1>1. Init => CapturesGoOn
  BY CapturesStart
<1>2. SomeHome /\ CapturesGoOn /\ [Next]_vars => CapturesGoOn'
  BY StepsCapture, CapturesStutter DEF Next
<1>3. SomeHome /\ CapturesGoOn => CaptureIsTrue
  BY CapturesEnd
<1> QED
  BY <1>1, <1>2, <1>3, StaysLegal, PTL DEF Spec
=============================================================================
