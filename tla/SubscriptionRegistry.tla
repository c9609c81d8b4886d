------------------------- MODULE SubscriptionRegistry -------------------------
(***************************************************************************)
(* The Redis registry of WebSocket subscriptions that several API          *)
(* instances share (app/services/subscription_registry.py), and the calls  *)
(* that the diff stream manager of each makes (app/api/v1/websocket.py     *)
(* with multi_instance=True).                                              *)
(*                                                                         *)
(* A pipeline is one MULTI transaction and one step; unregistering and     *)
(* cleaning up read a subscription list in a step of its own before.  An   *)
(* instance is one process lifetime: instance and client ids are fresh     *)
(* UUIDs.  The client_instance keys are written but never read: left out.  *)
(* Any call of Redis may fail, before or after it took effect.  One Tick   *)
(* is 60 s, which a live instance never spends without a heartbeat (it     *)
(* sends one every 10 s).                                                  *)
(***************************************************************************)
EXTENDS Integers, FiniteSets

CONSTANTS Instances, Clients, PVs,
          KeyTTL,     \* ticks a subscription key lives (60; 0: never expires)
          BeatTTL,    \* ticks a heartbeat key lives (1)
          DeadAge,    \* age in ticks beyond which an instance counts as dead (2)
          Overlap,    \* clients disconnected perhaps while their endpoint awaits Redis
          MaxFaults,  \* bound: calls of Redis that fail, or that a stop cancels
          NoInstance

ASSUME RegistryAssumption ==
  /\ NoInstance \notin Instances
  /\ KeyTTL \in Nat /\ BeatTTL \in Nat \ {0} /\ DeadAge \in Nat
  /\ Overlap \subseteq Clients /\ MaxFaults \in Nat

VARIABLES
  inst,       \* inst[i]: the process of i
  beat,       \* ticks until squirrel:ws:instance_heartbeat:i expires, 0: gone
  clientsOf,  \* squirrel:ws:clients:i
  subs,       \* squirrel:ws:subscriptions:c
  subsTTL,    \* ticks until it expires
  pvSubs,     \* squirrel:ws:pv_subscribers:pv
  pvTTL,      \* ticks until it expires
  home,       \* the instance that accepted the connection of c
  conn,       \* is c in _connections of its home ("open"; "lost": without an
              \* endpoint), and has its endpoint left
  want,       \* _subscriptions[c] of its home
  call,       \* call[c]: the registry call its endpoint awaits
  args,       \* args[c]: the PVs of that call
  drop,       \* drop[<<k, c>>]: where unregister_client(c) is in coroutine k
  names,      \* names[<<k, c>>]: the subscriptions it read
  target,     \* target[i]: the instance that i is cleaning up
  left,       \* left[i]: clients its cleanup has still to handle
  current,    \* current[i]: the one it has read the subscriptions of
  expired,    \* history: has a key expired that still held something
  faults,     \* history: failed calls so far
  missed      \* history: clients with a failed call that no unregistering made good

keys == <<clientsOf, subs, subsTTL, pvSubs, pvTTL, expired>>
manager == <<home, conn, want, call, args, drop, names>>
cleanup == <<target, left, current>>
failing == <<faults, missed>>
vars == <<inst, beat, keys, manager, cleanup, failing>>

(* A client is unregistered by its endpoint and, when a send to it fails or
   the manager stops, by another task before. *)
Droppers == {"task", "endpoint"}

NoClient == "no client"
Idle == [client |-> NoClient, pvs |-> {}]

TypeOK ==
  /\ inst \in [Instances -> {"new", "up", "stopping", "down"}]
  /\ beat \in [Instances -> 0..BeatTTL]
  /\ clientsOf \in [Instances -> SUBSET Clients]
  /\ subs \in [Clients -> SUBSET PVs] /\ pvSubs \in [PVs -> SUBSET Clients]
  /\ expired \in BOOLEAN /\ faults \in 0..MaxFaults /\ missed \subseteq Clients
  /\ subsTTL \in [Clients -> 0..KeyTTL] /\ pvTTL \in [PVs -> 0..KeyTTL]
  /\ home \in [Clients -> Instances \cup {NoInstance}]
  /\ conn \in [Clients -> {"new", "open", "lost", "closed", "left"}]
  /\ want \in [Clients -> SUBSET PVs]
  /\ call \in [Clients -> {"none", "register", "subscribe", "unsubscribe"}]
  /\ args \in [Clients -> SUBSET PVs]
  /\ names \in [Droppers \X Clients -> SUBSET PVs]
  /\ drop \in [Droppers \X Clients -> {"none", "read", "write"}]
  /\ target \in [Instances -> Instances \cup {NoInstance}]
  /\ left \in [Instances -> SUBSET Clients]
  /\ current \in [Instances -> [client : Clients \cup {NoClient}, pvs : SUBSET PVs]]

Init ==
  /\ inst = [i \in Instances |-> "new"]
  /\ beat = [i \in Instances |-> 0]
  /\ clientsOf = [i \in Instances |-> {}]
  /\ subs = [c \in Clients |-> {}] /\ subsTTL = [c \in Clients |-> 0]
  /\ pvSubs = [pv \in PVs |-> {}] /\ pvTTL = [pv \in PVs |-> 0]
  /\ home = [c \in Clients |-> NoInstance]
  /\ conn = [c \in Clients |-> "new"]
  /\ want = [c \in Clients |-> {}]
  /\ call = [c \in Clients |-> "none"]
  /\ args = [c \in Clients |-> {}]
  /\ names = [d \in Droppers \X Clients |-> {}]
  /\ drop = [d \in Droppers \X Clients |-> "none"]
  /\ target = [i \in Instances |-> NoInstance]
  /\ left = [i \in Instances |-> {}]
  /\ current = [i \in Instances |-> Idle]
  /\ expired = FALSE /\ faults = 0 /\ missed = {}

-----------------------------------------------------------------------------
(* The manager: local bookkeeping, then an await on the registry *)

Connect(i, c) ==
  /\ inst[i] = "up" /\ conn[c] = "new"
  /\ home' = [home EXCEPT ![c] = i]
  /\ conn' = [conn EXCEPT ![c] = "open"]
  /\ call' = [call EXCEPT ![c] = "register"]
  /\ UNCHANGED <<inst, beat, keys, want, args, drop, names, cleanup, failing>>

Receiving(c) == conn[c] = "open" /\ call[c] = "none"

AskSubscribe(c, S) ==
  /\ Receiving(c)
  /\ want' = [want EXCEPT ![c] = @ \cup S]
  /\ call' = [call EXCEPT ![c] = "subscribe"]
  /\ args' = [args EXCEPT ![c] = S]
  /\ UNCHANGED <<inst, beat, keys, home, conn, drop, names, cleanup, failing>>

AskUnsubscribe(c, S) ==
  /\ Receiving(c)
  /\ want' = [want EXCEPT ![c] = @ \ S]
  /\ call' = [call EXCEPT ![c] = "unsubscribe"]
  /\ args' = [args EXCEPT ![c] = S]
  /\ UNCHANGED <<inst, beat, keys, home, conn, drop, names, cleanup, failing>>

(* disconnect by a task: for the clients in Overlap even while the endpoint
   awaits an answer of Redis, and else between two messages.  A lost client
   has no endpoint any more to leave after it. *)
Disconnect(c) ==
  /\ conn[c] \in {"open", "lost"}
  /\ c \in Overlap \/ call[c] = "none"
  /\ conn' = [conn EXCEPT ![c] = IF @ = "open" THEN "closed" ELSE "left"]
  /\ want' = [want EXCEPT ![c] = {}]
  /\ drop' = [drop EXCEPT ![<<"task", c>>] = "read"]
  /\ UNCHANGED <<inst, beat, keys, home, call, args, names, cleanup, failing>>

(* disconnect by the endpoint, whoever was first: it unregisters as well. *)
Leave(c) ==
  /\ conn[c] \in {"open", "closed"} /\ call[c] = "none"
  /\ conn' = [conn EXCEPT ![c] = "left"]
  /\ want' = [want EXCEPT ![c] = {}]
  /\ drop' = [drop EXCEPT ![<<"endpoint", c>>] = "read"]
  /\ UNCHANGED <<inst, beat, keys, home, call, args, names, cleanup, failing>>

-----------------------------------------------------------------------------
(* The registry *)

Fault == faults < MaxFaults /\ faults' = faults + 1

Answered(c) ==
  /\ call' = [call EXCEPT ![c] = "none"]
  /\ args' = [args EXCEPT ![c] = {}]

register_client(c) ==
  /\ call[c] = "register"
  /\ clientsOf' = [clientsOf EXCEPT ![home[c]] = @ \cup {c}]
  /\ Answered(c)
  /\ UNCHANGED <<inst, beat, subs, subsTTL, pvSubs, pvTTL, expired, home, conn, want, drop, names, cleanup, failing>>

(* The call of register_client is outside the endpoint's try: the endpoint
   ends and leaves the client among the connections, until a task fails to
   send to it. *)
RegisterFails(c) ==
  /\ call[c] = "register" /\ Fault
  /\ clientsOf' \in {clientsOf, [clientsOf EXCEPT ![home[c]] = @ \cup {c}]}
  /\ conn' = [conn EXCEPT ![c] = IF @ = "open" THEN "lost" ELSE "left"]
  /\ missed' = missed \cup {c}
  /\ Answered(c)
  /\ UNCHANGED <<inst, beat, subs, subsTTL, pvSubs, pvTTL, expired, home, want, drop, names, cleanup>>

(* Both lists are extended and both keys get a fresh hour. *)
Extend(c) ==
  /\ subs' = [subs EXCEPT ![c] = @ \cup args[c]]
  /\ subsTTL' = [subsTTL EXCEPT ![c] = KeyTTL]
  /\ pvSubs' = [pv \in PVs |-> IF pv \in args[c] THEN pvSubs[pv] \cup {c} ELSE pvSubs[pv]]
  /\ pvTTL' = [pv \in PVs |-> IF pv \in args[c] THEN KeyTTL ELSE pvTTL[pv]]

Reduce(c) ==
  /\ subs' = [subs EXCEPT ![c] = @ \ args[c]]
  /\ pvSubs' = [pv \in PVs |-> IF pv \in args[c] THEN pvSubs[pv] \ {c} ELSE pvSubs[pv]]
  /\ UNCHANGED <<subsTTL, pvTTL>>

(* As a mutant: subscribing registers the client once more. *)
SubscribeRegisters(c) ==
  /\ call[c] = "subscribe"
  /\ clientsOf' = [clientsOf EXCEPT ![home[c]] = @ \cup {c}]
  /\ Extend(c)
  /\ Answered(c)
  /\ UNCHANGED <<inst, beat, expired, home, conn, want, drop, names, cleanup, failing>>

subscribe(c) ==
  /\ call[c] = "subscribe"
  /\ Extend(c)
  /\ Answered(c)
  /\ UNCHANGED <<inst, beat, clientsOf, expired, home, conn, want, drop, names, cleanup, failing>>

(* As a mutant: only the client's own list is reduced. *)
UnsubscribeOwnList(c) ==
  /\ call[c] = "unsubscribe"
  /\ subs' = [subs EXCEPT ![c] = @ \ args[c]]
  /\ Answered(c)
  /\ UNCHANGED <<inst, beat, clientsOf, pvSubs, subsTTL, pvTTL, expired, home, conn, want, drop, names, cleanup, failing>>

unsubscribe(c) ==
  /\ call[c] = "unsubscribe"
  /\ Reduce(c)
  /\ Answered(c)
  /\ UNCHANGED <<inst, beat, clientsOf, expired, home, conn, want, drop, names, cleanup, failing>>

(* Either pipeline fails: the exception ends the endpoint, which disconnects
   its client on the way out. *)
SubscribeFails(c) ==
  /\ Fault
  /\ \/ call[c] = "subscribe" /\ Extend(c)
     \/ call[c] = "unsubscribe" /\ Reduce(c)
     \/ call[c] \in {"subscribe", "unsubscribe"} /\ UNCHANGED <<subs, subsTTL, pvSubs, pvTTL>>
  /\ conn' = [conn EXCEPT ![c] = "left"]
  /\ want' = [want EXCEPT ![c] = {}]
  /\ drop' = [drop EXCEPT ![<<"endpoint", c>>] = "read"]
  /\ Answered(c)
  /\ UNCHANGED <<inst, beat, clientsOf, expired, home, names, cleanup, missed>>

(* As a mutant: it reads the client list of the instance. *)
UnregisterReadsClients(k, c) ==
  /\ drop[<<k, c>>] = "read"
  /\ names' = [names EXCEPT ![<<k, c>>] = clientsOf[home[c]]]
  /\ drop' = [drop EXCEPT ![<<k, c>>] = "write"]
  /\ UNCHANGED <<inst, beat, keys, home, conn, want, call, args, cleanup, failing>>

(* unregister_client reads the subscriptions ... *)
UnregisterRead(k, c) ==
  /\ drop[<<k, c>>] = "read"
  /\ names' = [names EXCEPT ![<<k, c>>] = subs[c]]
  /\ drop' = [drop EXCEPT ![<<k, c>>] = "write"]
  /\ UNCHANGED <<inst, beat, keys, home, conn, want, call, args, cleanup, failing>>

(* c leaves the subscriber lists of S and loses its own list. *)
Forget(c, S) ==
  /\ subs' = [subs EXCEPT ![c] = {}]
  /\ pvSubs' = [pv \in PVs |-> IF pv \in S THEN pvSubs[pv] \ {c} ELSE pvSubs[pv]]
  /\ UNCHANGED <<subsTTL, pvTTL, expired>>

(* As a mutant: the client stays in the list of its instance. *)
UnregisterKeepsClient(k, c) ==
  /\ drop[<<k, c>>] = "write"
  /\ Forget(c, names[<<k, c>>])
  /\ drop' = [drop EXCEPT ![<<k, c>>] = "none"]
  /\ names' = [names EXCEPT ![<<k, c>>] = {}]
  /\ UNCHANGED <<inst, beat, clientsOf, home, conn, want, call, args, cleanup, failing>>

(* ... and removes the client from the lists that it read. *)
UnregisterWrite(k, c) ==
  /\ drop[<<k, c>>] = "write"
  /\ clientsOf' = [clientsOf EXCEPT ![home[c]] = @ \ {c}]
  /\ Forget(c, names[<<k, c>>])
  /\ drop' = [drop EXCEPT ![<<k, c>>] = "none"]
  /\ names' = [names EXCEPT ![<<k, c>>] = {}]
  /\ missed' = missed \ {c}
  /\ UNCHANGED <<inst, beat, home, conn, want, call, args, cleanup, faults>>

(* Either of its two calls fails, or stop() cancels the task that makes
   them: nothing is removed, and nobody tries again but the endpoint after
   a task. *)
UnregisterFails(k, c) ==
  /\ drop[<<k, c>>] # "none" /\ Fault
  /\ drop' = [drop EXCEPT ![<<k, c>>] = "none"]
  /\ names' = [names EXCEPT ![<<k, c>>] = {}]
  /\ missed' = missed \cup {c}
  /\ UNCHANGED <<inst, beat, keys, home, conn, want, call, args, cleanup>>

(* get_local_subscribers, where it is asked. *)
get_local_subscribers(i, pv) == pvSubs[pv] \cap clientsOf[i]

-----------------------------------------------------------------------------
(* Instances, heartbeats and cleanup *)

Start(i) ==
  /\ inst[i] = "new"
  /\ inst' = [inst EXCEPT ![i] = "up"]
  /\ beat' = [beat EXCEPT ![i] = BeatTTL]
  /\ UNCHANGED <<keys, manager, cleanup, failing>>

(* The process dies with its coroutines; Redis keeps its keys. *)
Crash(i) ==
  /\ inst[i] \in {"up", "stopping"}
  /\ inst' = [inst EXCEPT ![i] = "down"]
  /\ conn' = [c \in Clients |-> IF home[c] = i THEN "left" ELSE conn[c]]
  /\ want' = [c \in Clients |-> IF home[c] = i THEN {} ELSE want[c]]
  /\ call' = [c \in Clients |-> IF home[c] = i THEN "none" ELSE call[c]]
  /\ drop' = [d \in DOMAIN drop |-> IF home[d[2]] = i THEN "none" ELSE drop[d]]
  /\ args' = [c \in Clients |-> IF home[c] = i THEN {} ELSE args[c]]
  /\ names' = [d \in DOMAIN names |-> IF home[d[2]] = i THEN {} ELSE names[d]]
  /\ target' = [target EXCEPT ![i] = NoInstance]
  /\ left' = [left EXCEPT ![i] = {}]
  /\ current' = [current EXCEPT ![i] = Idle]
  /\ UNCHANGED <<beat, keys, home, failing>>

(* The manager has closed its connections and stops the registry, which
   cancels its two tasks and cleans up after itself. *)
Stop(i) ==
  /\ inst[i] = "up"
  /\ \A c \in Clients : home[c] = i => conn[c] \notin {"open", "lost"} /\ drop[<<"task", c>>] = "none"
  /\ inst' = [inst EXCEPT ![i] = "stopping"]
  /\ target' = [target EXCEPT ![i] = NoInstance]
  /\ left' = [left EXCEPT ![i] = {}]
  /\ current' = [current EXCEPT ![i] = Idle]
  /\ UNCHANGED <<beat, keys, manager, failing>>

(* A heartbeat key that is still there, with a timestamp of long ago. *)
LooksDead(t) == beat[t] > 0 /\ BeatTTL - beat[t] > DeadAge

(* Whose subscriptions i may remove: its own when it stops, or those of
   what _cleanup_dead_instances takes for dead. *)
Targets(i) ==
  CASE inst[i] = "stopping" -> {i}
    [] inst[i] = "up" -> {t \in Instances : LooksDead(t)}
    [] OTHER -> {}

BeginCleanup(i) ==
  /\ target[i] = NoInstance
  /\ \E t \in Targets(i) :
       /\ target' = [target EXCEPT ![i] = t]
       /\ left' = [left EXCEPT ![i] = clientsOf[t]]
  /\ UNCHANGED <<inst, beat, keys, manager, current, failing>>

CleanupRead(i) ==
  /\ target[i] # NoInstance /\ current[i] = Idle
  /\ \E c \in left[i] :
       /\ current' = [current EXCEPT ![i] = [client |-> c, pvs |-> subs[c]]]
       /\ left' = [left EXCEPT ![i] = @ \ {c}]
  /\ UNCHANGED <<inst, beat, keys, manager, target, failing>>

CleanupWrite(i) ==
  /\ current[i] # Idle
  /\ Forget(current[i].client, current[i].pvs)
  /\ current' = [current EXCEPT ![i] = Idle]
  /\ UNCHANGED <<inst, beat, clientsOf, manager, target, left, failing>>

(* The last pipeline deletes the instance's client list and heartbeat. *)
CleanupEnd(i) ==
  /\ target[i] # NoInstance /\ left[i] = {} /\ current[i] = Idle
  /\ clientsOf' = [clientsOf EXCEPT ![target[i]] = {}]
  /\ beat' = [beat EXCEPT ![target[i]] = 0]
  /\ target' = [target EXCEPT ![i] = NoInstance]
  /\ inst' = [inst EXCEPT ![i] = IF target[i] = i THEN "down" ELSE @]
  /\ UNCHANGED <<subs, subsTTL, pvSubs, pvTTL, expired, manager, left, current, failing>>

(* A failed call ends a cleanup halfway.  That of a dead instance starts
   anew in a minute; a stopping one goes down with what it has left. *)
CleanupFails(i) ==
  /\ target[i] # NoInstance /\ Fault
  /\ target' = [target EXCEPT ![i] = NoInstance]
  /\ left' = [left EXCEPT ![i] = {}]
  /\ current' = [current EXCEPT ![i] = Idle]
  /\ inst' = [inst EXCEPT ![i] = IF @ = "stopping" THEN "down" ELSE @]
  /\ UNCHANGED <<beat, keys, manager, missed>>

Less(n) == IF n = 0 THEN 0 ELSE n - 1

(* A minute passes: live instances have sent heartbeats, keys expire. *)
Tick ==
  /\ beat' = [i \in Instances |-> IF inst[i] = "up" THEN BeatTTL ELSE Less(beat[i])]
  /\ subsTTL' = [c \in Clients |-> Less(subsTTL[c])]
  /\ pvTTL' = [pv \in PVs |-> Less(pvTTL[pv])]
  /\ subs' = [c \in Clients |-> IF subsTTL[c] = 1 THEN {} ELSE subs[c]]
  /\ pvSubs' = [pv \in PVs |-> IF pvTTL[pv] = 1 THEN {} ELSE pvSubs[pv]]
  /\ expired' = (expired \/ subs' # subs \/ pvSubs' # pvSubs)
  /\ UNCHANGED <<inst, clientsOf, manager, cleanup, failing>>

-----------------------------------------------------------------------------
Registry(c) ==
  \/ register_client(c) \/ subscribe(c) \/ unsubscribe(c)
  \/ \E k \in Droppers : UnregisterRead(k, c) \/ UnregisterWrite(k, c)

Cleanup(i) == BeginCleanup(i) \/ CleanupRead(i) \/ CleanupWrite(i) \/ CleanupEnd(i)

Fails(c) ==
  \/ RegisterFails(c) \/ SubscribeFails(c)
  \/ \E k \in Droppers : UnregisterFails(k, c)

Next ==
  \/ \E i \in Instances : Start(i) \/ Stop(i) \/ Crash(i) \/ Cleanup(i) \/ CleanupFails(i)
  \/ \E i \in Instances, c \in Clients : Connect(i, c)
  \/ \E c \in Clients : Registry(c) \/ Fails(c) \/ Disconnect(c) \/ Leave(c)
  \/ \E c \in Clients, S \in SUBSET PVs \ {{}} : AskSubscribe(c, S) \/ AskUnsubscribe(c, S)
  \/ Tick

Spec == Init /\ [][Next]_vars

(* Redis answers, the cleanup loops run and time passes. *)
FairSpec ==
  /\ Spec
  /\ WF_vars(Tick)
  /\ \A i \in Instances : WF_vars(Cleanup(i))
  /\ \A c \in Clients : WF_vars(Registry(c)) /\ WF_vars(conn[c] = "closed" /\ Leave(c))

-----------------------------------------------------------------------------
(* Properties *)

(* No call of the manager for c is under way. *)
Unregistering(c) == \E k \in Droppers : drop[<<k, c>>] # "none"
Settled(c) == call[c] = "none" /\ ~Unregistering(c)

(* What an instance looks up for itself are clients it still has a
   connection to, or is just unregistering: whatever lists a disconnect, an
   expiry or an earlier instance leaves behind, no update is grouped for a
   client that is not there.  The one exception is a client whose
   unregistering failed and was not made good by its endpoint's
   (subscription_registry.py:111, :130). *)
LocalLookupSound ==
  \A i \in Instances, pv \in PVs :
    inst[i] = "up" =>
      \A c \in get_local_subscribers(i, pv) :
        home[c] = i /\ (conn[c] = "open" \/ Unregistering(c) \/ c \in missed)

LookupExact(c, pv) ==
  conn[c] = "open" /\ Settled(c) => (c \in pvSubs[pv] <=> pv \in want[c])

(* "any instance can look up which clients need it"
   (subscription_registry.py:10): until a key expires and between calls, the
   subscriber list of a PV holds a connected client exactly when the client
   is subscribed to it, whichever calls failed before. *)
LookupComplete == expired \/ \A c \in Clients, pv \in PVs : LookupExact(c, pv)

(* The same without "until a key expires", as the line quoted says it. *)
LookupLasts == \A c \in Clients, pv \in PVs : LookupExact(c, pv)

(* "Remove client from all PV subscriber lists"
   (subscription_registry.py:125): until a key expires, nothing of a client
   is left once it is unregistered, by a task or by its endpoint, unless a
   task dropped it while its endpoint was subscribing it.  A task whose
   unregistering failed is made good by the endpoint's; only when that
   failed as well is the client left in the lists. *)
UnregisteredIsGone ==
  expired \/ \A c \in Clients \ (Overlap \cup missed) :
    home[c] # NoInstance /\ conn[c] = "left" /\ Settled(c) /\ inst[home[c]] = "up" =>
      /\ c \notin clientsOf[home[c]]
      /\ \A pv \in PVs : c \notin pvSubs[pv]

(* "Remove subscriptions from instances that haven't sent heartbeat"
   (subscription_registry.py:253): as long as some instance lives on, the
   client list of a dead one does not stay for ever. *)
DeadAreCleaned ==
  \A i, j \in Instances :
    i # j /\ inst[i] = "down" ~> clientsOf[i] = {} \/ inst[j] # "up"

=============================================================================
