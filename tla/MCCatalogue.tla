----------------------------- MODULE MCCatalogue -----------------------------
(***************************************************************************)
(* Catalogue for TLC: what two or three clients ask for at the same time.  *)
(***************************************************************************)
EXTENDS Catalogue, TLC

CONSTANTS g1, g2, g3, g4, g5, g6, g7,
          t1, t2, t3, t4, t5, t6, t7, t8,
          p1, p2, p3, p4, p5,
          k1, k2, k3, k4, k5, k6,
          s1, s2, s3, s4

Lower(n) == CASE n = "A" -> "a" [] n = "B" -> "b" [] n = "X" -> "x" [] OTHER -> n
PVsInOrder == <<p1, p2, p3, p4, p5>>
Prefix(a) == CASE a \in {"P1", "C1"} -> "ca" [] a \in {"P3", "P4"} -> "pva" [] OTHER -> "bare"

Number(n) == [kind |-> "number", n |-> n]
Text == [kind |-> "text", n |-> 0]
Pair(v, w) == [setpoint |-> v, readback |-> w]
NoTol == [abs |-> 0, rel |-> 0]

Base ==
     k1 :> [name |-> "one", active |-> TRUE, access |-> {"read", "write"}]
  @@ g1 :> [name |-> "a"] @@ t1 :> [name |-> "x", group |-> g1]
  @@ p1 :> [name |-> "P1", readback |-> "B1", tol |-> NoTol]
  @@ p3 :> [name |-> "P3", readback |-> "no readback", tol |-> NoTol]
  @@ <<p1, t1>> :> [link |-> TRUE]

Ask(op) == [op |-> op, key |-> k1, needs |-> "write"]
None == Ask("none")

\* All ways for n clients to make calls out of a sequence of them, whichever
\* client makes which.
Mix(n, calls, rows) ==
  {[calls |-> [r \in Requests |-> IF r <= n THEN calls[f[r]] ELSE None], rows |-> rows] :
     f \in {f \in [1..n -> DOMAIN calls] : \A r \in 2..n : f[r - 1] <= f[r]}}

CreateG(n) == Ask("create_group") @@ [name |-> n]
RenameG(g, n) == Ask("update_group") @@ [group |-> g, name |-> n]
DeleteG(g) == Ask("delete_group") @@ [group |-> g]
AddT(g, n, skip) == Ask("add_tag") @@ [group |-> g, name |-> n, skip |-> skip]
RenameT(g, t, n) == Ask("update_tag") @@ [group |-> g, tag |-> t, name |-> n]
RemoveT(g, t) == Ask("remove_tag") @@ [group |-> g, tag |-> t]
ImportT(tasks) == Ask("bulk_import") @@ [tasks |-> tasks]
Group(n) == [group |-> n, tag |-> ""]
Tag(n, t) == [group |-> n, tag |-> t]

GroupMix ==
  Mix(2, <<CreateG("a"), CreateG("b"), CreateG("B"), RenameG(g1, "b"), RenameG(g1, "A"), DeleteG(g1),
        RenameG(g1, "a")>>, Base)
TagMix ==
  Mix(2, <<AddT(g1, "x", FALSE), AddT(g1, "y", TRUE), RenameT(g1, t1, "y"), RenameT(g1, t1, "x"),
        RemoveT(g1, t1), DeleteG(g1), RenameG(g1, "b")>>, Base)
ImportMix ==
  Mix(2, <<ImportT(<<Group("b"), Tag("b", "x"), Group("c"), Tag("c", "y")>>),
        ImportT(<<Group("c"), Tag("c", "x"), Group("b"), Tag("b", "x")>>),
        ImportT(<<Group("a"), Tag("a", "y"), Tag("a", "X"), Group("A"), Tag("A", "y")>>),
        ImportT(<<Group("a"), Tag("a", "y")>>), DeleteG(g1), CreateG("b")>>, Base)

Item(n, tags) == [name |-> n, readback |-> "no readback", tags |-> tags, tol |-> NoTol]
CreateP(items) == Ask("create_pv") @@ [items |-> items]
CreatePs(items) == Ask("create_many") @@ [items |-> items]
UpdateP(p, tags, tol) == Ask("update_pv") @@ [pv |-> p, tags |-> tags, tol |-> tol]
DeleteP(p) == Ask("delete_pv") @@ [pv |-> p]
Walk == [Ask("walk") EXCEPT !.needs = "read"] @@ [limit |-> 1]
Search == [Ask("search") EXCEPT !.needs = "read"] @@ [limit |-> 1]

WalkMix ==
  Mix(3, <<Walk, CreateP(<<Item("P2", {})>>), DeleteP(p1), DeleteP(p3)>>, Base)
PVMix ==
  Mix(2, <<CreateP(<<Item("P2", {t1})>>), CreatePs(<<Item("P2", {t1, t2})>>),
        UpdateP(p1, {}, NoTol), UpdateP(p1, {t1}, [abs |-> 1, rel |-> 0]), DeleteP(p1),
        RemoveT(g1, t1), Walk>>, Base)

TwoKeys == k2 :> [name |-> "two", active |-> TRUE, access |-> {"read", "write"}]
           @@ k3 :> [name |-> "three", active |-> TRUE, access |-> {"read"}] @@ Base
CreateK(n) == Ask("create_key") @@ [name |-> n]
Deactivate(k, by, force) == [Ask("deactivate_key") EXCEPT !.key = by]
                            @@ [target |-> k, force |-> force]

KeyMix ==
  Mix(2, <<CreateK("two"), CreateK("four"), Deactivate(k2, k1, FALSE), Deactivate(k1, k2, FALSE),
        Deactivate(k1, k1, TRUE), Deactivate(k2, k3, FALSE)>>, TwoKeys)

GetS(s, limit, offset) ==
  [Ask("get_snapshot") EXCEPT !.needs = "read"]
  @@ [snapshots |-> <<s>>, limit |-> limit, offset |-> offset]
Compare(a, b) ==
  [Ask("compare") EXCEPT !.needs = "read"]
  @@ [snapshots |-> <<a, b>>, limit |-> NoLimit, offset |-> 0]
RenameS(s) == Ask("update_snapshot") @@ [snapshot |-> s, name |-> "new"]
DeleteS(s) == Ask("delete_snapshot") @@ [snapshot |-> s]
CreateFrom(cached, silent, raises, nan) ==
  Ask("create_snapshot")
  @@ [name |-> "new", cached |-> cached, silent |-> silent, raises |-> raises, nan |-> nan]
AllAnswer == [ca |-> {}, pva |-> {}]
CreateS(cached) == CreateFrom(cached, AllAnswer, {}, {})

Shot(s, values) == s :> [name |-> "old"] @@ [v \in {s} \X DOMAIN values |-> values[v[2]]]
TwoShots ==
  Shot(s1, p1 :> Pair(Number(10), Null) @@ p3 :> Pair(Number(5), Number(5)))
  @@ Shot(s2, p1 :> Pair(Number(11), Null)) @@ Base

SnapshotMix ==
  Mix(2, <<GetS(s1, NoLimit, 0), Compare(s1, s2), RenameS(s1), DeleteS(s1), DeleteP(p1),
        UpdateP(p1, {t1}, [abs |-> 1, rel |-> 0]), CreateS(TRUE), CreateS(FALSE)>>, TwoShots)

\* Reads of one value at a time.
PageMix == Mix(1, <<GetS(s1, 1, 0), GetS(s1, 1, 1)>>, TwoShots)

\* A walk by offsets, and two updates of the tags of one PV.
SearchMix == Mix(2, <<Search, DeleteP(p1)>>, Base)
RetagMix ==
  Mix(2, <<UpdateP(p3, {t1}, NoTol), UpdateP(p3, {t2}, NoTol)>>,
      t2 :> [name |-> "y", group |-> g1] @@ Base)

\* Direct snapshots of PVs of every protocol: an unprefixed one that has CA
\* only, PVA only or neither, requests that raise, and devices at NaN.
Devices ==
  p2 :> [name |-> "P2", readback |-> "no readback", tol |-> NoTol]
  @@ p4 :> [name |-> "P4", readback |-> "B4", tol |-> NoTol] @@ Base
Direct(mute, raises) ==
  CreateFrom(FALSE, [ca |-> mute, pva |-> IF mute = {} THEN {} ELSE {"P1"}], raises, {})
CaptureMix ==
  Mix(2, <<Direct({}, {}), Direct({"P1", "P2"}, {}), Direct({"P2"}, {"ca"}), Direct({"P2"}, {"pva"}),
        Direct({"P2"}, {"fallback"}), DeleteP(p4),
        [Direct({"P2"}, {}) EXCEPT !.nan = {"P1", "P2", "B4"}]>>, Devices)
SilentMix ==
  Mix(1, <<CreateFrom(FALSE, [ca |-> {}, pva |-> {"P3"}], {}, {})>>, Devices)
\* Two PVs with one readback.
SharedMix == Mix(1, <<Direct({}, {})>>, [Devices EXCEPT ![p2].readback = "B1"])

\* One comparison, of small values and of all tolerances.
Readings == {Null, Text} \cup {Number(n) : n \in {0, 9, 10}}
ReadbackPairs == {<<Null, Null>>, <<Number(9), Number(9)>>, <<Number(9), Number(10)>>}
Comparisons ==
  {[calls |-> [r \in Requests |-> IF r = 1 THEN Compare(s1, s2) ELSE None],
    rows |-> [Shot(s1, p1 :> Pair(v, b[1])) @@ Shot(s2, p1 :> Pair(w, b[2])) @@ Base
                EXCEPT ![p1].tol = t]] :
     v \in Readings, w \in Readings, b \in ReadbackPairs, t \in [abs : {-1, 0, 1}, rel : {0, 10}]}

Mixes ==
  GroupMix \cup TagMix \cup ImportMix \cup PVMix \cup WalkMix \cup KeyMix \cup SnapshotMix
  \cup SearchMix \cup RetagMix \cup CaptureMix \cup SharedMix \cup Comparisons

\* TLC evaluates what stands for a constant at every use, and Mixes once.
AllMixes == Mixes
=============================================================================
