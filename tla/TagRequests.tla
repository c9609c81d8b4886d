----------------------------- MODULE TagRequests -----------------------------
(***************************************************************************)
(* The handlers of app/api/v1/tags.py with TagService and its repositories.*)
(* Descriptions are left out: a PUT that changes nothing but the           *)
(* description is one that changes no name.                                *)
(***************************************************************************)
EXTENDS Database

CONSTANT Fold(_)   \* str.lower, on the names of groups and tags

Pick(S) == CHOOSE i \in S : TRUE

(* TagGroupRepository.find_by_name: scalar_one_or_none raises if the name
   folds to that of several groups. *)
GroupsNamed(r, n) ==
  {g \in DOMAIN Sees(r) \cap Groups : Fold(Sees(r)[g].name) = Fold(n)}

(* TagRepository.find_by_group_and_name *)
TagsNamed(r, g, n) ==
  {t \in DOMAIN Sees(r) \cap Tags :
     Sees(r)[t].group = g /\ Fold(Sees(r)[t].name) = Fold(n)}

NewGroup(n) == Insert(Row(Pick(Groups \ used), [name |-> n]))
NewTag(g, n) == Insert(Row(Pick(Tags \ used), [name |-> n, group |-> g]))

(* As a mutant: a repository that leaves the INSERT to the commit. *)
CreateGroupUnflushed(r) ==
  /\ At(r, "create_group", "read")
  /\ LET same == GroupsNamed(r, Call(r).name)
     IN \/ Cardinality(same) > 1 /\ Fail(r, 500)
        \/ Cardinality(same) = 1 /\ Fail(r, 409)
        \/ same = {} /\ NoFlush(r, NewGroup(Call(r).name), "answer") /\ UNCHANGED memory

(* POST /tags *)
CreateGroup(r) ==
  /\ At(r, "create_group", "read")
  /\ LET same == GroupsNamed(r, Call(r).name)
     IN \/ Cardinality(same) > 1 /\ Fail(r, 500)
        \/ Cardinality(same) = 1 /\ Fail(r, 409)
        \/ /\ same = {} /\ Left(Groups)
           /\ Flush(r, NewGroup(Call(r).name), "answer") /\ UNCHANGED memory

(* PUT /tags/{group_id}: the group, then the other groups of that name. *)
GetGroup(r) ==
  /\ At(r, "update_group", "read")
  /\ IF Call(r).group \in DOMAIN Sees(r)
     THEN Keep(r, RowsIn(Sees(r), {Call(r).group}), "check")
     ELSE Fail(r, 404)

RenameGroup(r) ==
  /\ At(r, "update_group", "check")
  /\ LET g == Call(r).group
         same == GroupsNamed(r, Call(r).name)
     IN \/ Cardinality(same) > 1 /\ Fail(r, 500)
        \/ Cardinality(same) = 1 /\ same # {g} /\ Fail(r, 409)
        \/ /\ same \subseteq {g}
           /\ IF got[r][g].name = Call(r).name
              THEN Goto(r, "reload")
              ELSE /\ Flush(r, Update(g, [name |-> Call(r).name]), "answer")
                   /\ UNCHANGED memory

(* Without a change nothing holds the row that update() refreshes. *)
RefreshGroup(r) ==
  /\ At(r, "update_group", "reload")
  /\ IF Call(r).group \in DOMAIN Sees(r) THEN Goto(r, "answer") ELSE Fail(r, 500)

(* DELETE /tags/{group_id}: the tags and links the session loads, and what
   the foreign keys cascade to. *)
DeleteGroup(r) ==
  /\ At(r, "delete_group", "read")
  /\ IF Call(r).group \in DOMAIN Sees(r)
     THEN Flush(r, Delete(Cascade(r, {Call(r).group})), "answer") /\ UNCHANGED memory
     ELSE Fail(r, 404)

(* POST /tags/{group_id}/tags *)
GetGroupOfTag(r) ==
  /\ At(r, "add_tag", "read")
  /\ IF Call(r).group \in DOMAIN Sees(r) THEN Goto(r, "check") ELSE Fail(r, 404)

AddTag(r) ==
  /\ At(r, "add_tag", "check")
  /\ LET g == Call(r).group
         same == TagsNamed(r, g, Call(r).name)
     IN \/ Cardinality(same) > 1 /\ Fail(r, 500)
        \/ /\ Cardinality(same) = 1
           /\ IF Call(r).skip THEN Goto(r, "reload") ELSE Fail(r, 409)
        \/ /\ same = {} /\ Left(Tags)
           /\ Flush(r, NewTag(g, Call(r).name), "reload") /\ UNCHANGED memory

(* PUT and DELETE /tags/{group_id}/tags/{tag_id} *)
GetTag(r) == Call(r).tag \in DOMAIN Sees(r) /\ Sees(r)[Call(r).tag].group = Call(r).group

UpdateTag(r) ==
  /\ At(r, "update_tag", "read")
  /\ LET t == Call(r).tag
     IN \/ ~GetTag(r) /\ Fail(r, 404)
        \/ GetTag(r) /\ Sees(r)[t].name = Call(r).name /\ Goto(r, "check")
        \/ /\ GetTag(r) /\ Sees(r)[t].name # Call(r).name
           /\ Flush(r, Update(t, [Sees(r)[t] EXCEPT !.name = Call(r).name]), "reload")
           /\ UNCHANGED memory

RefreshTag(r) ==
  /\ At(r, "update_tag", "check")
  /\ IF Call(r).tag \in DOMAIN Sees(r) THEN Goto(r, "reload") ELSE Fail(r, 500)

RemoveTag(r) ==
  /\ At(r, "remove_tag", "read")
  /\ IF GetTag(r)
     THEN Flush(r, Delete(Cascade(r, {Call(r).tag})), "reload") /\ UNCHANGED memory
     ELSE Fail(r, 404)

(* The group as it is now is the answer: the handler reads it again. *)
ReloadGroup(r) ==
  /\ Call(r).op \in {"add_tag", "update_tag", "remove_tag"} /\ at[r] = "reload"
  /\ IF Call(r).group \in DOMAIN Sees(r) THEN Goto(r, "answer") ELSE Fail(r, 404)

-----------------------------------------------------------------------------
(* POST /tags/bulk: tasks [group, tag], one for each group (tag = "") and
   one for each of its tags, in one transaction. *)

Importing(r) == Call(r).op = "bulk_import" /\ at[r] \in {"task", "group"}
Task(r) == Head(list[r])
Pop(r) == list' = [list EXCEPT ![r] = Tail(@)]

(* The groups in existing_group_map under a name, compared exactly. *)
Mapped(r, n) == {g \in DOMAIN got[r] : got[r][g].name = n}

ImportReads(r) ==
  /\ At(r, "bulk_import", "read")
  /\ got' = [got EXCEPT ![r] = RowsIn(Sees(r), Groups)]
  /\ list' = [list EXCEPT ![r] = Call(r).tasks]
  /\ at' = [at EXCEPT ![r] = "task"]
  /\ UNCHANGED <<scenario, db, used, tx, work, next, status, stored, broken, heard>>

(* Goes on with the next task, or with those of the next group. *)
Continue(r, tasks) ==
  /\ list' = [list EXCEPT ![r] = tasks]
  /\ at' = [at EXCEPT ![r] = "task"]
  /\ UNCHANGED <<scenario, db, used, tx, work, next, status, stored, broken, got, heard>>

ImportGroup(r) ==
  /\ Importing(r) /\ list[r] # <<>> /\ Task(r).tag = ""
  /\ LET n == Task(r).group
         same == GroupsNamed(r, n)
         new == NewGroup(n)
         otherGroup(task) == task.group # n
     IN \/ Mapped(r, n) # {} /\ Continue(r, Tail(list[r]))
        \/ /\ Mapped(r, n) = {}
           /\ \/ (broken[r] \/ Cardinality(same) > 1) /\ Fail(r, 500)
              \/ /\ ~broken[r] /\ Cardinality(same) = 1      \* ValueError: a warning
                 /\ Continue(r, SelectSeq(list[r], otherGroup))
              \/ /\ ~broken[r] /\ same = {} /\ Left(Groups)
                 /\ Flush(r, new, "group")
                 /\ Pop(r)
                 /\ got' = [got EXCEPT ![r] = After(@, new)]
                 /\ UNCHANGED heard

(* add_tag_to_group with skip_duplicates; its exceptions are warnings. *)
ImportTag(r) ==
  /\ Importing(r) /\ list[r] # <<>> /\ Task(r).tag # ""
  /\ IF broken[r] \/ Mapped(r, Task(r).group) \cap DOMAIN Sees(r) = {}
     THEN Continue(r, Tail(list[r]))
     ELSE Goto(r, "check")

ImportAddsTag(r) ==
  /\ At(r, "bulk_import", "check")
  /\ LET g == Pick(Mapped(r, Task(r).group))
     IN IF TagsNamed(r, g, Task(r).tag) # {}
        THEN Continue(r, Tail(list[r]))
        ELSE /\ Left(Tags)
             /\ Flush(r, NewTag(g, Task(r).tag), "task") /\ Pop(r) /\ UNCHANGED <<got, heard>>

ImportEnds(r) == Importing(r) /\ list[r] = <<>> /\ Goto(r, "answer")

TagStep(r) ==
  \/ CreateGroup(r)
  \/ GetGroup(r) \/ RenameGroup(r) \/ RefreshGroup(r)
  \/ DeleteGroup(r)
  \/ GetGroupOfTag(r) \/ AddTag(r)
  \/ UpdateTag(r) \/ RefreshTag(r) \/ RemoveTag(r) \/ ReloadGroup(r)
  \/ ImportReads(r) \/ ImportGroup(r) \/ ImportTag(r) \/ ImportAddsTag(r) \/ ImportEnds(r)
=============================================================================
