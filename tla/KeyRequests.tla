----------------------------- MODULE KeyRequests -----------------------------
(***************************************************************************)
(* API keys: the check every request begins with (app/dependencies.py) and *)
(* the handlers of app/api/v1/api_keys.py with ApiKeyService.              *)
(***************************************************************************)
EXTENDS Database

(* get_api_key, require_read_access and require_write_access. *)
Arrive(r) ==
  /\ at[r] = "arrive"
  /\ LET key == Call(r).key
     IN IF key \in DOMAIN db /\ db[key].active /\ Call(r).needs \in db[key].access
        THEN Goto(r, "read")
        ELSE Fail(r, 401)

(* POST /api-keys: get_by_app_name, then the INSERT. *)
CreateKey(r) ==
  /\ At(r, "create_key", "read")
  /\ IF \E k \in Keys \cap DOMAIN Sees(r) : Sees(r)[k].active /\ Sees(r)[k].name = Call(r).name
     THEN Fail(r, 409)
     ELSE LET k == CHOOSE i \in Keys : i \notin used
          IN /\ Left(Keys)
             /\ Flush(r, Insert(Row(k, [name |-> Call(r).name, active |-> TRUE,
                                        access |-> {"read", "write"}])), "answer")
             /\ UNCHANGED memory

(* DELETE /api-keys/{key_id} *)
DeactivateKey(r) ==
  /\ At(r, "deactivate_key", "read")
  /\ LET k == Call(r).target
     IN \/ k = Call(r).key /\ ~Call(r).force /\ Fail(r, 409)
        \/ /\ k # Call(r).key \/ Call(r).force
           /\ \/ k \notin DOMAIN Sees(r) /\ Fail(r, 404)
              \/ k \in DOMAIN Sees(r) /\ ~Sees(r)[k].active /\ Fail(r, 409)
              \/ /\ k \in DOMAIN Sees(r) /\ Sees(r)[k].active
                 /\ Flush(r, Update(k, [Sees(r)[k] EXCEPT !.active = FALSE]), "answer")
                 /\ UNCHANGED memory

KeyStep(r) == Arrive(r) \/ CreateKey(r) \/ DeactivateKey(r)
=============================================================================
