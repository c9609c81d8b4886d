---------------------- MODULE SubscriptionRegistryProofs ----------------------
(***************************************************************************)
(* Theorems of SubscriptionRegistry for any instances, clients, PVs and    *)
(* times to live.                                                          *)
(***************************************************************************)
EXTENDS SubscriptionRegistry, TLAPS

USE RegistryAssumption

(* The subscriber lists that c is in. *)
Listed(c) == {pv \in PVs : c \in pvSubs[pv]}

HomeIsUp(c) == home[c] # NoInstance /\ inst[home[c]] = "up"
HomeIsGone(c) == home[c] # NoInstance /\ inst[home[c]] \notin {"new", "up"}

(* A client belongs to one instance, which has started before it came and
   which lives as long as the connection is open. *)
Placed ==
  /\ \A c \in Clients :
       /\ conn[c] = "new" <=> home[c] = NoInstance
       /\ home[c] # NoInstance => inst[home[c]] # "new"
       /\ conn[c] = "open" => HomeIsUp(c)
  /\ \A i \in Instances : \A c \in clientsOf[i] : home[c] = i

(* No call outlives the endpoint, and outside Overlap none outlives the
   connection; before a client is registered it is in no list. *)
InTurn ==
  \A c \in Clients :
    /\ call[c] # "none" => conn[c] \in {"open", "closed"}
    /\ conn[c] # "open" /\ c \notin Overlap => call[c] = "none"
    /\ conn[c] \in {"new", "open", "lost"} => ~Unregistering(c)
    /\ conn[c] = "lost" => c \in missed
    /\ conn[c] = "new" \/ call[c] = "register" =>
         Listed(c) = {} /\ \A i \in Instances : c \notin clientsOf[i]

(* A registered client is connected, or on its way out, or a call failed
   for it; or it has been registered after it was dropped, and then it is in
   no list. *)
Registered ==
  \A i \in Instances : inst[i] = "up" =>
    \A c \in clientsOf[i] :
      \/ conn[c] = "open" \/ Unregistering(c) \/ c \in missed
      \/ conn[c] = "closed" /\ call[c] = "none" /\ Listed(c) = {}

(* A cleanup never touches the client of an instance that is up: that has a
   fresh heartbeat, and never comes up again once it is down. *)
OnlyTheGone ==
  \A i \in Instances :
    /\ inst[i] = "up" => beat[i] = BeatTTL
    /\ inst[i] = "new" => beat[i] = 0
    /\ target[i] # NoInstance => inst[target[i]] \notin {"new", "up"}
    /\ \A c \in left[i] : HomeIsGone(c)
    /\ current[i] # Idle => current[i].client \in Clients /\ HomeIsGone(current[i].client)

(* Until a key expires, the lists of a connected client lack nothing but
   what the call under way is about to add, and have nothing else but what
   it is about to remove. *)
InStep ==
  \A c \in Clients :
    /\ conn[c] = "new" => want[c] = {}
    /\ conn[c] = "open" =>
         /\ call[c] \in {"none", "register"} => want[c] = Listed(c)
         /\ call[c] = "subscribe" => want[c] = Listed(c) \cup args[c]
         /\ call[c] = "unsubscribe" => want[c] = Listed(c) \ args[c]

(* Until a key expires, and outside Overlap, a client of an instance that is
   up is in no list that its own does not name, nor in one that its
   unregistering has not read; that of the endpoint leaves it in none,
   unless it failed. *)
Known ==
  \A c \in Clients \ Overlap : HomeIsUp(c) =>
    /\ Listed(c) \subseteq subs[c]
    /\ \A k \in Droppers : drop[<<k, c>>] = "write" => Listed(c) \subseteq names[<<k, c>>]
    /\ conn[c] = "left" /\ drop[<<"endpoint", c>>] = "none" /\ c \notin missed => Listed(c) = {}

LookupInv == TypeOK /\ Placed /\ InTurn /\ Registered /\ OnlyTheGone
ListInv == expired \/ (InStep /\ Known)

-----------------------------------------------------------------------------
LEMMA TypeStep == TypeOK /\ [Next]_vars => TypeOK'
<1> SUFFICES ASSUME TypeOK, [Next]_vars
             PROVE  TypeOK'
  OBVIOUS
<1> USE DEF keys, manager, cleanup, failing
<1>1. ASSUME NEW i \in Instances, Start(i) \/ Stop(i) PROVE TypeOK'
  <2>1. inst' \in [Instances -> {"new", "up", "stopping", "down"}]
    BY <1>1 DEF Start, Stop, TypeOK
  <2>4. beat' \in [Instances -> 0..BeatTTL]
    <3>1. beat \in [Instances -> 0..BeatTTL] /\ BeatTTL \in 0..BeatTTL
      BY DEF TypeOK
    <3>2. beat' = beat \/ beat' = [beat EXCEPT ![i] = BeatTTL]
      BY <1>1 DEF Start, Stop
    <3> QED
      BY <3>1, <3>2
  <2>2. target' \in [Instances -> Instances \cup {NoInstance}] /\ left' \in [Instances -> SUBSET Clients]
    BY <1>1 DEF Start, Stop, TypeOK
  <2>3. current' \in [Instances -> [client : Clients \cup {NoClient}, pvs : SUBSET PVs]]
    <3>1. /\ current \in [Instances -> [client : Clients \cup {NoClient}, pvs : SUBSET PVs]]
          /\ Idle \in [client : Clients \cup {NoClient}, pvs : SUBSET PVs]
      BY DEF TypeOK, Idle
    <3>2. current' = current \/ current' = [current EXCEPT ![i] = Idle]
      BY <1>1 DEF Start, Stop
    <3> QED
      BY <3>1, <3>2
  <2> QED
    BY <1>1, <2>1, <2>2, <2>3, <2>4 DEF Start, Stop, TypeOK
<1>2. ASSUME NEW i \in Instances, Crash(i) PROVE TypeOK'
  <2>1. inst' \in [Instances -> {"new", "up", "stopping", "down"}]
    BY <1>2 DEF Crash, TypeOK
  <2>2. conn' \in [Clients -> {"new", "open", "lost", "closed", "left"}] /\ want' \in [Clients -> SUBSET PVs]
    BY <1>2 DEF Crash, TypeOK
  <2>3. call' \in [Clients -> {"none", "register", "subscribe", "unsubscribe"}]
        /\ args' \in [Clients -> SUBSET PVs]
    BY <1>2 DEF Crash, TypeOK
  <2>4. drop' \in [Droppers \X Clients -> {"none", "read", "write"}]
        /\ names' \in [Droppers \X Clients -> SUBSET PVs]
    BY <1>2 DEF Crash, TypeOK
  <2>5. target' \in [Instances -> Instances \cup {NoInstance}] /\ left' \in [Instances -> SUBSET Clients]
    BY <1>2 DEF Crash, TypeOK
  <2>6. current' \in [Instances -> [client : Clients \cup {NoClient}, pvs : SUBSET PVs]]
    BY <1>2 DEF Crash, TypeOK, Idle
  <2> QED
    BY <1>2, <2>1, <2>2, <2>3, <2>4, <2>5, <2>6 DEF Crash, TypeOK
<1>3. ASSUME NEW i \in Instances, BeginCleanup(i) PROVE TypeOK'
  <2>1. \A t \in Targets(i) : t \in Instances
    BY <1>3 DEF Targets
  <2>2. target' \in [Instances -> Instances \cup {NoInstance}] /\ left' \in [Instances -> SUBSET Clients]
    BY <1>3, <2>1 DEF BeginCleanup, TypeOK
  <2> QED
    BY <1>3, <2>2 DEF BeginCleanup, TypeOK
<1>4. ASSUME NEW i \in Instances, CleanupRead(i) PROVE TypeOK'
  <2>1. current' \in [Instances -> [client : Clients \cup {NoClient}, pvs : SUBSET PVs]]
    BY <1>4 DEF CleanupRead, TypeOK
  <2>2. left' \in [Instances -> SUBSET Clients]
    BY <1>4 DEF CleanupRead, TypeOK
  <2> QED
    BY <1>4, <2>1, <2>2 DEF CleanupRead, TypeOK
<1>5. ASSUME NEW c, NEW S, Forget(c, S)
      PROVE  subs' \in [Clients -> SUBSET PVs] /\ pvSubs' \in [PVs -> SUBSET Clients]
  BY <1>5 DEF Forget, TypeOK
<1>6. ASSUME NEW i \in Instances, CleanupWrite(i) PROVE TypeOK'
  <2>1. current' \in [Instances -> [client : Clients \cup {NoClient}, pvs : SUBSET PVs]]
    BY <1>6 DEF CleanupWrite, TypeOK, Idle
  <2>2. subs' \in [Clients -> SUBSET PVs] /\ pvSubs' \in [PVs -> SUBSET Clients]
    BY <1>5, <1>6 DEF CleanupWrite
  <2> QED
    BY <1>6, <2>1, <2>2 DEF CleanupWrite, Forget, TypeOK
<1>7. ASSUME NEW i \in Instances, CleanupEnd(i) PROVE TypeOK'
  <2>1. inst' \in [Instances -> {"new", "up", "stopping", "down"}] /\ beat' \in [Instances -> 0..BeatTTL]
    BY <1>7 DEF CleanupEnd, TypeOK
  <2>2. clientsOf' \in [Instances -> SUBSET Clients]
        /\ target' \in [Instances -> Instances \cup {NoInstance}]
    BY <1>7 DEF CleanupEnd, TypeOK
  <2> QED
    BY <1>7, <2>1, <2>2 DEF CleanupEnd, TypeOK
<1>8. ASSUME NEW i \in Instances, NEW c \in Clients, Connect(i, c) PROVE TypeOK'
  BY <1>8 DEF Connect, TypeOK
<1>9. ASSUME NEW c \in Clients, register_client(c) PROVE TypeOK'
  BY <1>9 DEF register_client, Answered, TypeOK
<1>f. ASSUME Fault PROVE faults' \in 0..MaxFaults
  BY <1>f DEF Fault, TypeOK
<1>r. ASSUME NEW c \in Clients, RegisterFails(c) PROVE TypeOK'
  <2>1. clientsOf' \in [Instances -> SUBSET Clients]
    <3>1. clientsOf' = clientsOf \/ clientsOf' = [clientsOf EXCEPT ![home[c]] = @ \cup {c}]
      BY <1>r DEF RegisterFails
    <3>2. clientsOf \in [Instances -> SUBSET Clients]
      BY DEF TypeOK
    <3> QED
      BY <3>1, <3>2
  <2>2. conn' \in [Clients -> {"new", "open", "lost", "closed", "left"}]
    <3>1. PICK p \in {"lost", "left"} : conn' = [conn EXCEPT ![c] = p]
      BY <1>r DEF RegisterFails, TypeOK
    <3> QED
      BY <3>1 DEF TypeOK
  <2>3. call' \in [Clients -> {"none", "register", "subscribe", "unsubscribe"}]
        /\ args' \in [Clients -> SUBSET PVs]
    BY <1>r DEF RegisterFails, Answered, TypeOK
  <2>4. faults' \in 0..MaxFaults /\ missed' \subseteq Clients
    BY <1>f, <1>r DEF RegisterFails, TypeOK
  <2>5. UNCHANGED <<inst, beat, subs, subsTTL, pvSubs, pvTTL, expired, home, want, drop, names, cleanup>>
    BY <1>r DEF RegisterFails
  <2> QED
    BY <2>1, <2>2, <2>3, <2>4, <2>5 DEF TypeOK
(* What subscribe and unsubscribe write. *)
<1>w. ASSUME NEW c \in Clients, Extend(c) \/ Reduce(c)
      PROVE  /\ subs' \in [Clients -> SUBSET PVs] /\ pvSubs' \in [PVs -> SUBSET Clients]
             /\ subsTTL' \in [Clients -> 0..KeyTTL] /\ pvTTL' \in [PVs -> 0..KeyTTL]
  <2>0. /\ subs \in [Clients -> SUBSET PVs] /\ pvSubs \in [PVs -> SUBSET Clients]
        /\ args[c] \in SUBSET PVs
        /\ subsTTL \in [Clients -> 0..KeyTTL] /\ pvTTL \in [PVs -> 0..KeyTTL] /\ KeyTTL \in 0..KeyTTL
    BY DEF TypeOK
  <2>1. subs' \in [Clients -> SUBSET PVs]
    <3>1. subs' = [subs EXCEPT ![c] = subs[c] \cup args[c]] \/ subs' = [subs EXCEPT ![c] = subs[c] \ args[c]]
      BY <1>w DEF Extend, Reduce
    <3> QED
      BY <2>0, <3>1
  <2>2. pvSubs' \in [PVs -> SUBSET Clients]
    <3>1. CASE Extend(c)
      BY <2>0, <3>1 DEF Extend
    <3>2. CASE Reduce(c)
      BY <2>0, <3>2 DEF Reduce
    <3> QED
      BY <1>w, <3>1, <3>2
  <2>3. subsTTL' \in [Clients -> 0..KeyTTL] /\ pvTTL' \in [PVs -> 0..KeyTTL]
    <3>1. CASE Extend(c)
      BY <2>0, <3>1 DEF Extend
    <3>2. CASE Reduce(c)
      BY <2>0, <3>2 DEF Reduce
    <3> QED
      BY <1>w, <3>1, <3>2
  <2> QED
    BY <2>1, <2>2, <2>3
<1>s. ASSUME NEW c \in Clients, SubscribeFails(c) PROVE TypeOK'
  <2>1. /\ subs' \in [Clients -> SUBSET PVs] /\ pvSubs' \in [PVs -> SUBSET Clients]
        /\ subsTTL' \in [Clients -> 0..KeyTTL] /\ pvTTL' \in [PVs -> 0..KeyTTL]
    <3>1. CASE Extend(c) \/ Reduce(c)
      BY <1>w, <3>1
    <3>2. CASE UNCHANGED <<subs, subsTTL, pvSubs, pvTTL>>
      BY <3>2 DEF TypeOK
    <3> QED
      BY <1>s, <3>1, <3>2 DEF SubscribeFails
  <2>2. conn' \in [Clients -> {"new", "open", "lost", "closed", "left"}] /\ want' \in [Clients -> SUBSET PVs]
    BY <1>s DEF SubscribeFails, TypeOK
  <2>3. drop' \in [Droppers \X Clients -> {"none", "read", "write"}]
    BY <1>s DEF SubscribeFails, TypeOK
  <2>4. call' \in [Clients -> {"none", "register", "subscribe", "unsubscribe"}]
        /\ args' \in [Clients -> SUBSET PVs]
    BY <1>s DEF SubscribeFails, Answered, TypeOK
  <2>5. faults' \in 0..MaxFaults
    BY <1>f, <1>s DEF SubscribeFails
  <2>6. UNCHANGED <<inst, beat, clientsOf, expired, home, names, cleanup, missed>>
    BY <1>s DEF SubscribeFails
  <2> QED
    BY <2>1, <2>2, <2>3, <2>4, <2>5, <2>6 DEF TypeOK
<1>u. ASSUME NEW k \in Droppers, NEW c \in Clients, UnregisterFails(k, c) PROVE TypeOK'
  <2>1. drop' \in [Droppers \X Clients -> {"none", "read", "write"}]
        /\ names' \in [Droppers \X Clients -> SUBSET PVs]
    BY <1>u DEF UnregisterFails, TypeOK
  <2>2. faults' \in 0..MaxFaults /\ missed' \subseteq Clients
    BY <1>f, <1>u DEF UnregisterFails, TypeOK
  <2> QED
    BY <1>u, <2>1, <2>2 DEF UnregisterFails, TypeOK
<1>g. ASSUME NEW i \in Instances, CleanupFails(i) PROVE TypeOK'
  <2>1. target' \in [Instances -> Instances \cup {NoInstance}] /\ left' \in [Instances -> SUBSET Clients]
    BY <1>g DEF CleanupFails, TypeOK
  <2>2. current' \in [Instances -> [client : Clients \cup {NoClient}, pvs : SUBSET PVs]]
    BY <1>g DEF CleanupFails, TypeOK, Idle
  <2>3. inst' \in [Instances -> {"new", "up", "stopping", "down"}] /\ faults' \in 0..MaxFaults
    BY <1>f, <1>g DEF CleanupFails, TypeOK
  <2> QED
    BY <1>g, <2>1, <2>2, <2>3 DEF CleanupFails, TypeOK
<1>10. ASSUME NEW c \in Clients, subscribe(c) \/ unsubscribe(c) PROVE TypeOK'
  <2>1. Extend(c) \/ Reduce(c)
    BY <1>10 DEF subscribe, unsubscribe
  <2>4. Answered(c) /\ UNCHANGED <<inst, beat, clientsOf, expired, home, conn, want, drop, names, cleanup, failing>>
    BY <1>10 DEF subscribe, unsubscribe
  <2>5. call' \in [Clients -> {"none", "register", "subscribe", "unsubscribe"}]
        /\ args' \in [Clients -> SUBSET PVs]
    BY <2>4 DEF Answered, TypeOK
  <2> QED
    BY <1>w, <2>1, <2>4, <2>5 DEF TypeOK
<1>11. ASSUME NEW k \in Droppers, NEW c \in Clients, UnregisterRead(k, c) PROVE TypeOK'
  BY <1>11 DEF UnregisterRead, TypeOK
<1>12. ASSUME NEW k \in Droppers, NEW c \in Clients, UnregisterWrite(k, c) PROVE TypeOK'
  <2>1. subs' \in [Clients -> SUBSET PVs] /\ pvSubs' \in [PVs -> SUBSET Clients]
    BY <1>5, <1>12 DEF UnregisterWrite
  <2>2. clientsOf' \in [Instances -> SUBSET Clients]
    BY <1>12 DEF UnregisterWrite, TypeOK
  <2>3. drop' \in [Droppers \X Clients -> {"none", "read", "write"}]
        /\ names' \in [Droppers \X Clients -> SUBSET PVs]
    BY <1>12 DEF UnregisterWrite, TypeOK
  <2>4. missed' \subseteq Clients
    BY <1>12 DEF UnregisterWrite, TypeOK
  <2> QED
    BY <1>12, <2>1, <2>2, <2>3, <2>4 DEF UnregisterWrite, Forget, TypeOK
<1>13. ASSUME NEW c \in Clients, Disconnect(c) \/ Leave(c) PROVE TypeOK'
  <2>1. PICK k \in Droppers : drop' = [drop EXCEPT ![<<k, c>>] = "read"]
    BY <1>13 DEF Disconnect, Leave, Droppers
  <2>2. drop' \in [Droppers \X Clients -> {"none", "read", "write"}]
    BY <2>1 DEF TypeOK
  <2>3. want' = [want EXCEPT ![c] = {}] /\ \E p \in {"closed", "left"} : conn' = [conn EXCEPT ![c] = p]
    BY <1>13 DEF Disconnect, Leave, TypeOK
  <2>4. conn' \in [Clients -> {"new", "open", "lost", "closed", "left"}] /\ want' \in [Clients -> SUBSET PVs]
    BY <2>3 DEF TypeOK
  <2>5. UNCHANGED <<inst, beat, keys, home, call, args, names, cleanup, failing>>
    BY <1>13 DEF Disconnect, Leave
  <2> QED
    BY <2>2, <2>4, <2>5 DEF TypeOK
<1>14. ASSUME NEW c \in Clients, NEW S \in SUBSET PVs, AskSubscribe(c, S) \/ AskUnsubscribe(c, S)
       PROVE  TypeOK'
  <2>1. CASE AskSubscribe(c, S)
    BY <2>1 DEF AskSubscribe, TypeOK
  <2>2. CASE AskUnsubscribe(c, S)
    BY <2>2 DEF AskUnsubscribe, TypeOK
  <2> QED
    BY <1>14, <2>1, <2>2
<1>15. CASE Tick
  <2>0. \A m \in Nat : m \in 0..m /\ \A n \in 0..m : Less(n) \in 0..m
    BY DEF Less
  <2>1. beat' \in [Instances -> 0..BeatTTL]
    BY <1>15, <2>0 DEF Tick, TypeOK
  <2>2. subsTTL' \in [Clients -> 0..KeyTTL] /\ pvTTL' \in [PVs -> 0..KeyTTL]
    BY <1>15, <2>0 DEF Tick, TypeOK
  <2>3. subs' \in [Clients -> SUBSET PVs] /\ pvSubs' \in [PVs -> SUBSET Clients]
    BY <1>15 DEF Tick, TypeOK
  <2>4. expired' \in BOOLEAN
    BY <1>15 DEF Tick
  <2> QED
    BY <1>15, <2>1, <2>2, <2>3, <2>4 DEF Tick, TypeOK
<1>16. CASE UNCHANGED vars
  BY <1>16 DEF vars, TypeOK
<1> QED
  BY <1>1, <1>2, <1>3, <1>4, <1>6, <1>7, <1>8, <1>9, <1>10, <1>11, <1>12, <1>13, <1>14, <1>15, <1>16, <1>r, <1>s, <1>u, <1>g
  DEF Next, Registry, Cleanup, Fails

LEMMA TypeInit == Init => TypeOK
<1>1. ASSUME Init PROVE TypeOK
  <2>1. current \in [Instances -> [client : Clients \cup {NoClient}, pvs : SUBSET PVs]]
    BY <1>1 DEF Init, Idle
  <2>2. beat \in [Instances -> 0..BeatTTL]
    BY <1>1 DEF Init
  <2>3. subsTTL \in [Clients -> 0..KeyTTL] /\ pvTTL \in [PVs -> 0..KeyTTL]
    BY <1>1 DEF Init
  <2>4. names \in [Droppers \X Clients -> SUBSET PVs] /\ args \in [Clients -> SUBSET PVs]
        /\ want \in [Clients -> SUBSET PVs]
    BY <1>1 DEF Init
  <2>5. faults \in 0..MaxFaults /\ missed \subseteq Clients
    BY <1>1 DEF Init
  <2>6. /\ conn \in [Clients -> {"new", "open", "lost", "closed", "left"}]
        /\ call \in [Clients -> {"none", "register", "subscribe", "unsubscribe"}]
        /\ drop \in [Droppers \X Clients -> {"none", "read", "write"}]
    BY <1>1 DEF Init
  <2> QED
    BY <1>1, <2>1, <2>2, <2>3, <2>4, <2>5, <2>6 DEF Init, TypeOK
<1> QED
  BY <1>1

(* Every variable keeps its type: no time to live is counted beyond zero,
   and no list names what is not a client or a PV. *)
THEOREM TypeCorrect == Spec => []TypeOK
BY TypeInit, TypeStep, PTL DEF Spec

-----------------------------------------------------------------------------
(* What the steps do to the subscriber lists. *)
LEMMA ForgetLists ==
  ASSUME TypeOK, NEW c \in Clients, NEW S, Forget(c, S)
  PROVE  \A d \in Clients : Listed(d)' = IF d = c THEN Listed(d) \ S ELSE Listed(d)
<1>1. pvSubs \in [PVs -> SUBSET Clients]
      /\ pvSubs' = [pv \in PVs |-> IF pv \in S THEN pvSubs[pv] \ {c} ELSE pvSubs[pv]]
  BY DEF Forget, TypeOK
<1>2. \A d \in Clients, pv \in PVs :
        d \in pvSubs'[pv] <=> d \in pvSubs[pv] /\ ~(d = c /\ pv \in S)
  BY <1>1
<1> QED
  BY <1>2 DEF Listed

LEMMA SubscribeLists ==
  ASSUME TypeOK, NEW c \in Clients, Extend(c)
  PROVE  \A d \in Clients : Listed(d)' = IF d = c THEN Listed(d) \cup args[c] ELSE Listed(d)
<1>1. /\ pvSubs \in [PVs -> SUBSET Clients] /\ args[c] \subseteq PVs
      /\ pvSubs' = [pv \in PVs |-> IF pv \in args[c] THEN pvSubs[pv] \cup {c} ELSE pvSubs[pv]]
  BY DEF Extend, TypeOK
<1>2. \A d \in Clients, pv \in PVs :
        d \in pvSubs'[pv] <=> d \in pvSubs[pv] \/ (d = c /\ pv \in args[c])
  BY <1>1
<1> QED
  BY <1>1, <1>2 DEF Listed

LEMMA UnsubscribeLists ==
  ASSUME TypeOK, NEW c \in Clients, Reduce(c)
  PROVE  \A d \in Clients : Listed(d)' = IF d = c THEN Listed(d) \ args[c] ELSE Listed(d)
<1>1. /\ pvSubs \in [PVs -> SUBSET Clients]
      /\ pvSubs' = [pv \in PVs |-> IF pv \in args[c] THEN pvSubs[pv] \ {c} ELSE pvSubs[pv]]
  BY DEF Reduce, TypeOK
<1>2. \A d \in Clients, pv \in PVs :
        d \in pvSubs'[pv] <=> d \in pvSubs[pv] /\ ~(d = c /\ pv \in args[c])
  BY <1>1
<1> QED
  BY <1>2 DEF Listed

LEMMA FailLists ==
  ASSUME TypeOK, NEW c \in Clients, SubscribeFails(c)
  PROVE  \A d \in Clients \ {c} : Listed(d)' = Listed(d)
<1>1. CASE Extend(c)
  BY <1>1, SubscribeLists
<1>2. CASE Reduce(c)
  BY <1>2, UnsubscribeLists
<1>3. CASE UNCHANGED pvSubs
  BY <1>3 DEF Listed
<1> QED
  BY <1>1, <1>2, <1>3 DEF SubscribeFails

LEMMA TickLists ==
  ASSUME TypeOK, Tick
  PROVE  \A d \in Clients : Listed(d)' \subseteq Listed(d)
BY DEF Tick, Listed, TypeOK

-----------------------------------------------------------------------------
LEMMA PlacedStep == LookupInv /\ [Next]_vars => Placed'
<1> SUFFICES ASSUME LookupInv, [Next]_vars
             PROVE  Placed'
  OBVIOUS
<1> USE DEF keys, manager, cleanup, failing
<1>0. /\ inst \in [Instances -> {"new", "up", "stopping", "down"}]
      /\ clientsOf \in [Instances -> SUBSET Clients]
      /\ home \in [Clients -> Instances \cup {NoInstance}]
      /\ conn \in [Clients -> {"new", "open", "lost", "closed", "left"}]
      /\ Placed
  BY DEF LookupInv, TypeOK
<1>1. ASSUME NEW i \in Instances, Start(i) PROVE Placed'
  BY <1>0, <1>1 DEF Start, Placed, HomeIsUp
<1>2. ASSUME NEW i \in Instances, Stop(i) PROVE Placed'
  BY <1>0, <1>2 DEF Stop, Placed, HomeIsUp
<1>3. ASSUME NEW i \in Instances, Crash(i) PROVE Placed'
  BY <1>0, <1>3 DEF Crash, Placed, HomeIsUp
<1>4. ASSUME UNCHANGED <<inst, home, conn>>,
             \A i \in Instances : clientsOf'[i] \subseteq clientsOf[i]
      PROVE  Placed'
  BY <1>0, <1>4 DEF Placed, HomeIsUp
<1>5. ASSUME NEW i \in Instances, BeginCleanup(i) \/ CleanupRead(i) \/ CleanupWrite(i)
      PROVE  Placed'
  BY <1>4, <1>5 DEF BeginCleanup, CleanupRead, CleanupWrite
<1>6. ASSUME NEW i \in Instances, CleanupEnd(i) PROVE Placed'
  <2>1. UNCHANGED <<home, conn>> /\ \A j \in Instances : clientsOf'[j] \subseteq clientsOf[j]
    BY <1>0, <1>6 DEF CleanupEnd
  <2>2. \A j \in Instances : \/ inst'[j] = inst[j]
                             \/ inst[j] \notin {"new", "up"} /\ inst'[j] = "down"
    BY <1>0, <1>6 DEF CleanupEnd, LookupInv, OnlyTheGone
  <2> QED
    BY <1>0, <2>1, <2>2 DEF Placed, HomeIsUp
<1>7. ASSUME NEW i \in Instances, NEW c \in Clients, Connect(i, c) PROVE Placed'
  <2>1. \A j \in Instances : c \notin clientsOf[j]
    BY <1>0, <1>7 DEF Connect, Placed
  <2> QED
    BY <1>0, <1>7, <2>1 DEF Connect, Placed, HomeIsUp
<1>8. ASSUME NEW c \in Clients, register_client(c) PROVE Placed'
  BY <1>0, <1>8 DEF register_client, Placed, HomeIsUp
<1>9. ASSUME NEW c \in Clients, subscribe(c) \/ unsubscribe(c) PROVE Placed'
  BY <1>4, <1>9 DEF subscribe, unsubscribe
<1>10. ASSUME NEW c \in Clients, NEW k \in Droppers, UnregisterRead(k, c) PROVE Placed'
  BY <1>4, <1>10 DEF UnregisterRead
<1>11. ASSUME NEW c \in Clients, NEW k \in Droppers, UnregisterWrite(k, c) PROVE Placed'
  BY <1>0, <1>4, <1>11 DEF UnregisterWrite
<1>12. ASSUME NEW c \in Clients, Disconnect(c) \/ Leave(c) PROVE Placed'
  BY <1>0, <1>12 DEF Disconnect, Leave, Placed, HomeIsUp
<1>13. ASSUME NEW c \in Clients, NEW S, AskSubscribe(c, S) \/ AskUnsubscribe(c, S) PROVE Placed'
  BY <1>4, <1>13 DEF AskSubscribe, AskUnsubscribe
<1>15. ASSUME NEW c \in Clients, RegisterFails(c) PROVE Placed'
  <2>1. /\ UNCHANGED <<inst, home>> /\ home[c] # NoInstance
        /\ clientsOf' = clientsOf \/ clientsOf' = [clientsOf EXCEPT ![home[c]] = @ \cup {c}]
        /\ conn' = [conn EXCEPT ![c] = IF @ = "open" THEN "lost" ELSE "left"]
    BY <1>0, <1>15 DEF RegisterFails, LookupInv, InTurn, Placed
  <2>2. \A i \in Instances : \A d \in clientsOf'[i] : home[d] = i
    BY <1>0, <2>1 DEF Placed
  <2> QED
    BY <1>0, <2>1, <2>2 DEF Placed, HomeIsUp
<1>16. ASSUME NEW c \in Clients, SubscribeFails(c) PROVE Placed'
  <2>1. /\ UNCHANGED <<inst, home, clientsOf>> /\ conn[c] # "new" /\ conn' = [conn EXCEPT ![c] = "left"]
    BY <1>0, <1>16 DEF SubscribeFails, LookupInv, InTurn
  <2> QED
    BY <1>0, <2>1 DEF Placed, HomeIsUp
<1>17. ASSUME NEW c \in Clients, NEW k \in Droppers, UnregisterFails(k, c) PROVE Placed'
  BY <1>4, <1>17 DEF UnregisterFails
<1>18. ASSUME NEW i \in Instances, CleanupFails(i) PROVE Placed'
  <2>1. UNCHANGED <<home, conn, clientsOf>>
    BY <1>18 DEF CleanupFails
  <2>2. \A j \in Instances : \/ inst'[j] = inst[j]
                             \/ inst[j] = "stopping" /\ inst'[j] = "down"
    BY <1>0, <1>18 DEF CleanupFails
  <2> QED
    BY <1>0, <2>1, <2>2 DEF Placed, HomeIsUp
<1>14. CASE Tick \/ UNCHANGED vars
  BY <1>4, <1>14 DEF Tick, vars
<1> QED
  BY <1>1, <1>2, <1>3, <1>5, <1>6, <1>7, <1>8, <1>9, <1>10, <1>11, <1>12, <1>13, <1>14, <1>15, <1>16, <1>17, <1>18
  DEF Next, Registry, Cleanup, Fails

LEMMA InTurnStep == LookupInv /\ [Next]_vars => InTurn'
<1> SUFFICES ASSUME LookupInv, [Next]_vars
             PROVE  InTurn'
  OBVIOUS
<1> USE DEF keys, manager, cleanup, failing
<1>t. TypeOK
  BY DEF LookupInv
<1>0. /\ clientsOf \in [Instances -> SUBSET Clients]
      /\ home \in [Clients -> Instances \cup {NoInstance}]
      /\ conn \in [Clients -> {"new", "open", "lost", "closed", "left"}]
      /\ call \in [Clients -> {"none", "register", "subscribe", "unsubscribe"}]
      /\ drop \in [Droppers \X Clients -> {"none", "read", "write"}]
      /\ InTurn /\ Placed
  BY DEF LookupInv, TypeOK
<1>1. \A k \in Droppers, c \in Clients : <<k, c>> \in Droppers \X Clients
  OBVIOUS
<1>2. ASSUME UNCHANGED <<conn, call, drop>>, missed \subseteq missed',
             \A i \in Instances : clientsOf'[i] \subseteq clientsOf[i],
             \A c \in Clients : Listed(c)' \subseteq Listed(c)
      PROVE  InTurn'
  BY <1>0, <1>2 DEF InTurn, Unregistering
<1>3. ASSUME UNCHANGED <<conn, call, drop, clientsOf, pvSubs, missed>> PROVE InTurn'
  BY <1>2, <1>3 DEF Listed
<1>4. ASSUME NEW i \in Instances, Start(i) \/ Stop(i) \/ BeginCleanup(i) \/ CleanupRead(i)
      PROVE  InTurn'
  BY <1>3, <1>4 DEF Start, Stop, BeginCleanup, CleanupRead
<1>5. ASSUME NEW i \in Instances, CleanupWrite(i) PROVE InTurn'
  <2>0. PICK c \in Clients : \E S : Forget(c, S)
    BY <1>5 DEF CleanupWrite, LookupInv, OnlyTheGone
  <2>1. PICK S : Forget(c, S)
    BY <2>0
  <2>2. \A d \in Clients : Listed(d)' \subseteq Listed(d)
    BY <1>t, <2>1, ForgetLists
  <2> QED
    BY <1>2, <1>5, <2>2 DEF CleanupWrite
<1>6. ASSUME NEW i \in Instances, CleanupEnd(i) PROVE InTurn'
  BY <1>0, <1>2, <1>6 DEF CleanupEnd, Listed
<1>7. ASSUME NEW i \in Instances, Crash(i) PROVE InTurn'
  <2>1. UNCHANGED <<clientsOf, pvSubs, home, missed>>
    BY <1>7 DEF Crash
  <2>2. \A c \in Clients : Listed(c)' = Listed(c)
    BY <2>1 DEF Listed
  <2>3. \A c \in Clients : home[c] # i =>
          conn'[c] = conn[c] /\ call'[c] = call[c] /\ Unregistering(c)' = Unregistering(c)
    BY <1>0, <1>1, <1>7 DEF Crash, Unregistering
  <2>4. \A c \in Clients : home[c] = i =>
          conn'[c] = "left" /\ call'[c] = "none" /\ ~Unregistering(c)'
    BY <1>0, <1>1, <1>7 DEF Crash, Unregistering
  <2> QED
    BY <1>0, <2>1, <2>2, <2>3, <2>4 DEF InTurn
<1>8. ASSUME NEW i \in Instances, NEW c \in Clients, Connect(i, c) PROVE InTurn'
  <2>1. UNCHANGED <<clientsOf, pvSubs, drop, missed>>
    BY <1>8 DEF Connect
  <2>2. \A d \in Clients : Listed(d)' = Listed(d) /\ Unregistering(d)' = Unregistering(d)
    BY <2>1 DEF Listed, Unregistering
  <2>3. conn[c] = "new" /\ conn' = [conn EXCEPT ![c] = "open"] /\ call' = [call EXCEPT ![c] = "register"]
    BY <1>8 DEF Connect
  <2> QED
    BY <1>0, <2>1, <2>2, <2>3 DEF InTurn
<1>9. ASSUME NEW c \in Clients, call[c] # "none", UNCHANGED <<conn, drop, missed>>,
             call' = [call EXCEPT ![c] = "none"],
             \A i \in Instances, d \in Clients \ {c} : d \in clientsOf'[i] => d \in clientsOf[i],
             \A d \in Clients \ {c} : Listed(d)' = Listed(d)
      PROVE  InTurn'
  BY <1>0, <1>9 DEF InTurn, Unregistering
<1>10. ASSUME NEW c \in Clients, register_client(c) PROVE InTurn'
  BY <1>0, <1>9, <1>10 DEF register_client, Answered, Listed
<1>11. ASSUME NEW c \in Clients, subscribe(c) PROVE InTurn'
  BY <1>t, <1>9, <1>11, SubscribeLists DEF subscribe, Answered
<1>12. ASSUME NEW c \in Clients, unsubscribe(c) PROVE InTurn'
  BY <1>t, <1>9, <1>12, UnsubscribeLists DEF unsubscribe, Answered
<1>13. ASSUME NEW c \in Clients, NEW k \in Droppers, UnregisterRead(k, c) PROVE InTurn'
  <2>1. UNCHANGED <<clientsOf, pvSubs, conn, call, missed>>
    BY <1>13 DEF UnregisterRead
  <2>2. \A d \in Clients : Listed(d)' = Listed(d)
    BY <2>1 DEF Listed
  <2>3. drop[<<k, c>>] = "read" /\ drop' = [drop EXCEPT ![<<k, c>>] = "write"]
    BY <1>13 DEF UnregisterRead
  <2>4. \A d \in Clients : Unregistering(d)' = Unregistering(d)
    BY <1>0, <1>1, <2>3 DEF Unregistering
  <2> QED
    BY <1>0, <2>1, <2>2, <2>4 DEF InTurn
<1>14. ASSUME NEW c \in Clients, NEW k \in Droppers, UnregisterWrite(k, c) PROVE InTurn'
  <2>1. UNCHANGED <<conn, call>> /\ \A i \in Instances : clientsOf'[i] \subseteq clientsOf[i]
    BY <1>0, <1>14 DEF UnregisterWrite
  <2>2. \A d \in Clients : Listed(d)' \subseteq Listed(d)
    BY <1>t, <1>14, ForgetLists DEF UnregisterWrite
  <2>3. \A d \in Clients : Unregistering(d)' => Unregistering(d)
    BY <1>0, <1>1, <1>14 DEF UnregisterWrite, Unregistering
  <2>4. conn[c] # "lost" /\ missed' = missed \ {c}
    BY <1>0, <1>14 DEF UnregisterWrite, InTurn, Unregistering
  <2> QED
    BY <1>0, <2>1, <2>2, <2>3, <2>4 DEF InTurn
<1>15. ASSUME NEW c \in Clients, Disconnect(c) \/ Leave(c) PROVE InTurn'
  <2>1. UNCHANGED <<clientsOf, pvSubs, call, missed>>
    BY <1>15 DEF Disconnect, Leave
  <2>2. \A d \in Clients : Listed(d)' = Listed(d)
    BY <2>1 DEF Listed
  <2>3. /\ conn[c] # "new" /\ conn'[c] \in {"closed", "left"}
        /\ call[c] # "none" => conn'[c] = "closed" /\ c \in Overlap
        /\ \A d \in Clients \ {c} : conn'[d] = conn[d]
    BY <1>0, <1>15 DEF Disconnect, Leave, InTurn
  <2>4. \A d \in Clients \ {c} : Unregistering(d)' = Unregistering(d)
    <3>1. PICK k \in Droppers : drop' = [drop EXCEPT ![<<k, c>>] = "read"]
      BY <1>15 DEF Disconnect, Leave, Droppers
    <3>2. \A d \in Clients \ {c}, l \in Droppers : drop'[<<l, d>>] = drop[<<l, d>>]
      BY <1>0, <1>1, <3>1
    <3> QED
      BY <3>2 DEF Unregistering
  <2> QED
    BY <1>0, <2>1, <2>2, <2>3, <2>4 DEF InTurn
<1>16. ASSUME NEW c \in Clients, NEW S, AskSubscribe(c, S) \/ AskUnsubscribe(c, S) PROVE InTurn'
  <2>1. UNCHANGED <<clientsOf, pvSubs, conn, drop, missed>>
    BY <1>16 DEF AskSubscribe, AskUnsubscribe
  <2>2. \A d \in Clients : Listed(d)' = Listed(d) /\ Unregistering(d)' = Unregistering(d)
    BY <2>1 DEF Listed, Unregistering
  <2>3. conn[c] = "open" /\ \E p \in {"subscribe", "unsubscribe"} : call' = [call EXCEPT ![c] = p]
    BY <1>16 DEF AskSubscribe, AskUnsubscribe, Receiving
  <2> QED
    BY <1>0, <2>1, <2>2, <2>3 DEF InTurn
<1>19. ASSUME NEW c \in Clients, RegisterFails(c) PROVE InTurn'
  <2>1. /\ call[c] = "register" /\ call' = [call EXCEPT ![c] = "none"] /\ UNCHANGED <<pvSubs, drop>>
        /\ conn' = [conn EXCEPT ![c] = IF @ = "open" THEN "lost" ELSE "left"]
        /\ missed' = missed \cup {c}
        /\ clientsOf' = clientsOf \/ clientsOf' = [clientsOf EXCEPT ![home[c]] = @ \cup {c}]
    BY <1>19 DEF RegisterFails, Answered
  <2>2. \A d \in Clients : Listed(d)' = Listed(d) /\ Unregistering(d)' = Unregistering(d)
    BY <2>1 DEF Listed, Unregistering
  <2>3. \A i \in Instances, d \in Clients \ {c} : d \in clientsOf'[i] => d \in clientsOf[i]
    BY <1>0, <2>1
  <2>4. conn[c] = "open" => ~Unregistering(c)
    BY <1>0 DEF InTurn
  <2>5. /\ call'[c] = "none" /\ conn'[c] \in {"lost", "left"} /\ (conn'[c] = "lost" => conn[c] = "open")
        /\ \A d \in Clients \ {c} : call'[d] = call[d] /\ conn'[d] = conn[d]
    BY <1>0, <2>1
  <2> QED
    BY <1>0, <2>1, <2>2, <2>3, <2>4, <2>5 DEF InTurn
<1>20. ASSUME NEW c \in Clients, SubscribeFails(c) PROVE InTurn'
  <2>1. /\ UNCHANGED <<clientsOf, missed>> /\ call' = [call EXCEPT ![c] = "none"]
        /\ conn' = [conn EXCEPT ![c] = "left"] /\ drop' = [drop EXCEPT ![<<"endpoint", c>>] = "read"]
    BY <1>20 DEF SubscribeFails, Answered
  <2>2. \A d \in Clients \ {c} : Listed(d)' = Listed(d)
    BY <1>t, <1>20, FailLists
  <2>3. \A d \in Clients \ {c} : Unregistering(d)' = Unregistering(d)
    BY <1>0, <1>1, <2>1 DEF Unregistering, Droppers
  <2> QED
    BY <1>0, <2>1, <2>2, <2>3 DEF InTurn
<1>21. ASSUME NEW c \in Clients, NEW k \in Droppers, UnregisterFails(k, c) PROVE InTurn'
  <2>1. UNCHANGED <<conn, call, clientsOf, pvSubs>> /\ missed' = missed \cup {c}
    BY <1>21 DEF UnregisterFails
  <2>2. \A d \in Clients : Listed(d)' = Listed(d)
    BY <2>1 DEF Listed
  <2>3. \A d \in Clients : Unregistering(d)' => Unregistering(d)
    BY <1>0, <1>1, <1>21 DEF UnregisterFails, Unregistering
  <2> QED
    BY <1>0, <2>1, <2>2, <2>3 DEF InTurn
<1>22. ASSUME NEW i \in Instances, CleanupFails(i) PROVE InTurn'
  BY <1>3, <1>22 DEF CleanupFails
<1>17. CASE Tick
  BY <1>2, <1>t, <1>17, TickLists DEF Tick
<1>18. CASE UNCHANGED vars
  BY <1>3, <1>18 DEF vars
<1> QED
  BY <1>4, <1>5, <1>6, <1>7, <1>8, <1>10, <1>11, <1>12, <1>13, <1>14, <1>15, <1>16, <1>17, <1>18,
     <1>19, <1>20, <1>21, <1>22
  DEF Next, Registry, Cleanup, Fails

LEMMA OnlyTheGoneStep == LookupInv /\ [Next]_vars => OnlyTheGone'
<1> SUFFICES ASSUME LookupInv, [Next]_vars
             PROVE  OnlyTheGone'
  OBVIOUS
<1> USE DEF keys, manager, cleanup, failing
<1>0. /\ inst \in [Instances -> {"new", "up", "stopping", "down"}]
      /\ beat \in [Instances -> 0..BeatTTL]
      /\ clientsOf \in [Instances -> SUBSET Clients]
      /\ home \in [Clients -> Instances \cup {NoInstance}]
      /\ target \in [Instances -> Instances \cup {NoInstance}]
      /\ left \in [Instances -> SUBSET Clients]
      /\ OnlyTheGone /\ Placed
  BY DEF LookupInv, TypeOK
<1>t. current \in [Instances -> [client : Clients \cup {NoClient}, pvs : SUBSET PVs]]
  BY DEF LookupInv, TypeOK
<1>1. ASSUME UNCHANGED <<inst, beat, home, target, left, current>> PROVE OnlyTheGone'
  BY <1>0, <1>1 DEF OnlyTheGone, HomeIsGone
<1>2. ASSUME NEW i \in Instances, Start(i) PROVE OnlyTheGone'
  <2>1. \A c \in Clients : HomeIsGone(c) => HomeIsGone(c)'
    BY <1>0, <1>2 DEF Start, HomeIsGone
  <2>2. inst[i] = "new" /\ inst' = [inst EXCEPT ![i] = "up"] /\ beat' = [beat EXCEPT ![i] = BeatTTL]
        /\ UNCHANGED <<target, left, current>>
    BY <1>2 DEF Start
  <2> QED
    BY <1>0, <2>1, <2>2 DEF OnlyTheGone
<1>3. ASSUME NEW i \in Instances, Stop(i) \/ Crash(i) \/ CleanupFails(i) PROVE OnlyTheGone'
  <2>1. /\ UNCHANGED <<beat, home>> /\ \A j \in Instances \ {i} : inst'[j] = inst[j]
        /\ inst'[i] = inst[i] \/ (inst[i] # "new" /\ inst'[i] \notin {"new", "up"})
    BY <1>0, <1>3 DEF Stop, Crash, CleanupFails
  <2>2. /\ target' = [target EXCEPT ![i] = NoInstance] /\ left' = [left EXCEPT ![i] = {}]
        /\ current' = [current EXCEPT ![i] = Idle]
    BY <1>3 DEF Stop, Crash, CleanupFails
  <2>3. \A c \in Clients : HomeIsGone(c) => HomeIsGone(c)'
    BY <1>0, <2>1 DEF HomeIsGone
  <2>4. \A j \in Instances : (current[j] # Idle => current[j].client \in Clients /\ HomeIsGone(current[j].client))'
    <3> TAKE j \in Instances
    <3>1. CASE j = i
      BY <1>t, <2>2, <3>1
    <3>2. CASE j # i
      BY <1>0, <1>t, <2>2, <2>3, <3>2 DEF OnlyTheGone, HomeIsGone
    <3> QED
      BY <3>1, <3>2
  <2>5. \A j \in Instances : (\A c \in left[j] : HomeIsGone(c))'
    BY <1>0, <2>2, <2>3 DEF OnlyTheGone
  <2>6. \A j \in Instances : (target[j] # NoInstance => inst[target[j]] \notin {"new", "up"})'
    BY <1>0, <2>1, <2>2 DEF OnlyTheGone
  <2>7. \A j \in Instances : (/\ inst[j] = "up" => beat[j] = BeatTTL
                              /\ inst[j] = "new" => beat[j] = 0)'
    BY <1>0, <2>1 DEF OnlyTheGone
  <2> QED
    BY <2>4, <2>5, <2>6, <2>7 DEF OnlyTheGone
<1>4. ASSUME NEW i \in Instances, BeginCleanup(i) PROVE OnlyTheGone'
  <2>1. PICK t \in Targets(i) : target' = [target EXCEPT ![i] = t] /\ left' = [left EXCEPT ![i] = clientsOf[t]]
    BY <1>4 DEF BeginCleanup
  <2>2. UNCHANGED <<inst, beat, home, current>>
    BY <1>4 DEF BeginCleanup
  <2>3. t \in Instances /\ inst[t] \notin {"new", "up"}
    <3>1. ASSUME inst[i] = "stopping" PROVE t \in Instances /\ inst[t] \notin {"new", "up"}
      BY <2>1, <3>1 DEF Targets
    <3>2. \A u \in Instances : ~LooksDead(u) \/ inst[u] \notin {"new", "up"}
      BY <1>0 DEF LooksDead, OnlyTheGone
    <3> QED
      BY <1>0, <2>1, <3>1, <3>2 DEF Targets
  <2>4. \A c \in clientsOf[t] : HomeIsGone(c)
    BY <1>0, <2>3 DEF Placed, HomeIsGone
  <2>5. \A c \in Clients : HomeIsGone(c) => HomeIsGone(c)'
    BY <2>2 DEF HomeIsGone
  <2>6. \A j \in Instances : (current[j] # Idle => current[j].client \in Clients /\ HomeIsGone(current[j].client))'
    BY <1>0, <2>2 DEF OnlyTheGone, HomeIsGone
  <2>7. \A j \in Instances : (\A c \in left[j] : HomeIsGone(c))'
    BY <1>0, <2>1, <2>3, <2>4, <2>5 DEF OnlyTheGone
  <2> QED
    BY <1>0, <2>1, <2>2, <2>3, <2>6, <2>7 DEF OnlyTheGone
<1>5. ASSUME NEW i \in Instances, CleanupRead(i) PROVE OnlyTheGone'
  <2>1. PICK c \in left[i] : /\ current' = [current EXCEPT ![i] = [client |-> c, pvs |-> subs[c]]]
                             /\ left' = [left EXCEPT ![i] = @ \ {c}]
    BY <1>5 DEF CleanupRead
  <2>2. UNCHANGED <<inst, beat, home, target>>
    BY <1>5 DEF CleanupRead
  <2>3. c \in Clients /\ HomeIsGone(c)
    BY <1>0 DEF OnlyTheGone
  <2>4. \A d : HomeIsGone(d)' <=> HomeIsGone(d)
    BY <2>2 DEF HomeIsGone
  <2>5. \A j \in Instances : (current[j] # Idle => current[j].client \in Clients /\ HomeIsGone(current[j].client))'
    <3> TAKE j \in Instances
    <3>1. CASE j = i
      <4>1. current'[j].client = c
        BY <1>t, <2>1, <3>1
      <4> QED
        BY <2>2, <2>3, <4>1 DEF HomeIsGone
    <3>2. CASE j # i
      <4>1. current'[j] = current[j]
        BY <1>t, <2>1, <3>2
      <4> QED
        BY <1>0, <2>2, <4>1 DEF OnlyTheGone, HomeIsGone
    <3> QED
      BY <3>1, <3>2
  <2>6. \A j \in Instances : (\A d \in left[j] : HomeIsGone(d))'
    BY <1>0, <2>1, <2>4 DEF OnlyTheGone
  <2> QED
    BY <1>0, <2>2, <2>5, <2>6 DEF OnlyTheGone
<1>6. ASSUME NEW i \in Instances, CleanupWrite(i) PROVE OnlyTheGone'
  <2>1. UNCHANGED <<inst, beat, home, target, left>> /\ current' = [current EXCEPT ![i] = Idle]
    BY <1>6 DEF CleanupWrite
  <2>2. \A j \in Instances : (current[j] # Idle => current[j].client \in Clients /\ HomeIsGone(current[j].client))'
    <3> TAKE j \in Instances
    <3>1. current'[j] = Idle \/ current'[j] = current[j]
      BY <1>t, <2>1
    <3> QED
      BY <1>0, <2>1, <3>1 DEF OnlyTheGone, HomeIsGone
  <2>3. \A j \in Instances : (\A d \in left[j] : HomeIsGone(d))'
    BY <1>0, <2>1 DEF OnlyTheGone, HomeIsGone
  <2> QED
    BY <1>0, <2>1, <2>2, <2>3 DEF OnlyTheGone
<1>7. ASSUME NEW i \in Instances, CleanupEnd(i) PROVE OnlyTheGone'
  <2>1. /\ target[i] \in Instances /\ inst[target[i]] \notin {"new", "up"}
        /\ beat' = [beat EXCEPT ![target[i]] = 0]
        /\ inst' = [inst EXCEPT ![i] = IF target[i] = i THEN "down" ELSE @]
        /\ target' = [target EXCEPT ![i] = NoInstance]
        /\ UNCHANGED <<home, left, current>>
    BY <1>0, <1>7 DEF CleanupEnd, OnlyTheGone
  <2>2. \A j \in Instances : \/ inst'[j] = inst[j]
                             \/ inst[j] \notin {"new", "up"} /\ inst'[j] \notin {"new", "up"}
    BY <1>0, <2>1
  <2>3. \A c \in Clients : HomeIsGone(c) => HomeIsGone(c)'
    BY <1>0, <2>1, <2>2 DEF HomeIsGone
  <2>4. \A j \in Instances : (current[j] # Idle => current[j].client \in Clients /\ HomeIsGone(current[j].client))'
    BY <1>0, <2>1, <2>2 DEF OnlyTheGone, HomeIsGone
  <2>5. \A j \in Instances : (/\ inst[j] = "up" => beat[j] = BeatTTL
                              /\ inst[j] = "new" => beat[j] = 0)'
    BY <1>0, <2>1, <2>2 DEF OnlyTheGone
  <2>6. \A j \in Instances : (target[j] # NoInstance => inst[target[j]] \notin {"new", "up"})'
    BY <1>0, <2>1, <2>2 DEF OnlyTheGone
  <2> QED
    BY <1>0, <2>1, <2>3, <2>4, <2>5, <2>6 DEF OnlyTheGone
<1>8. ASSUME NEW i \in Instances, NEW c \in Clients, Connect(i, c) PROVE OnlyTheGone'
  <2>1. home[c] = NoInstance /\ home' = [home EXCEPT ![c] = i] /\ UNCHANGED <<inst, beat, target, left, current>>
    BY <1>0, <1>8 DEF Connect, Placed
  <2>2. \A d \in Clients : HomeIsGone(d) => HomeIsGone(d)'
    BY <1>0, <2>1 DEF HomeIsGone
  <2>3. \A j \in Instances : (current[j] # Idle => current[j].client \in Clients /\ HomeIsGone(current[j].client))'
    BY <1>0, <2>1 DEF OnlyTheGone, HomeIsGone
  <2> QED
    BY <1>0, <2>1, <2>2, <2>3 DEF OnlyTheGone
<1>9. ASSUME NEW c \in Clients, Registry(c) \/ Fails(c) \/ Disconnect(c) \/ Leave(c) PROVE OnlyTheGone'
  <2>1. UNCHANGED <<inst, beat, home, target, left, current>>
    BY <1>9 DEF Registry, register_client, subscribe, unsubscribe, UnregisterRead, UnregisterWrite,
                Fails, RegisterFails, SubscribeFails, UnregisterFails, Disconnect, Leave
  <2> QED
    BY <1>1, <2>1
<1>10. ASSUME NEW c \in Clients, NEW S, AskSubscribe(c, S) \/ AskUnsubscribe(c, S) PROVE OnlyTheGone'
  BY <1>1, <1>10 DEF AskSubscribe, AskUnsubscribe
<1>11. CASE Tick
  <2>1. UNCHANGED <<inst, home, target, left, current>>
    BY <1>11 DEF Tick
  <2>2. \A j \in Instances : beat'[j] = IF inst[j] = "up" THEN BeatTTL ELSE Less(beat[j])
    BY <1>11 DEF Tick
  <2>3. \A j \in Instances : (/\ inst[j] = "up" => beat[j] = BeatTTL
                              /\ inst[j] = "new" => beat[j] = 0)'
    BY <1>0, <2>1, <2>2 DEF OnlyTheGone, Less
  <2> QED
    BY <1>0, <2>1, <2>3 DEF OnlyTheGone, HomeIsGone
<1>12. CASE UNCHANGED vars
  BY <1>1, <1>12 DEF vars
<1> QED
  BY <1>2, <1>3, <1>4, <1>5, <1>6, <1>7, <1>8, <1>9, <1>10, <1>11, <1>12 DEF Next, Cleanup

LEMMA RegisteredStep == LookupInv /\ [Next]_vars => Registered'
<1> SUFFICES ASSUME LookupInv, [Next]_vars
             PROVE  Registered'
  OBVIOUS
<1> USE DEF keys, manager, cleanup, failing
<1>t. TypeOK
  BY DEF LookupInv
<1>0. /\ inst \in [Instances -> {"new", "up", "stopping", "down"}]
      /\ clientsOf \in [Instances -> SUBSET Clients]
      /\ home \in [Clients -> Instances \cup {NoInstance}]
      /\ conn \in [Clients -> {"new", "open", "lost", "closed", "left"}]
      /\ call \in [Clients -> {"none", "register", "subscribe", "unsubscribe"}]
      /\ drop \in [Droppers \X Clients -> {"none", "read", "write"}]
      /\ InTurn /\ Placed /\ Registered
  BY DEF LookupInv, TypeOK
<1>1. \A k \in Droppers, c \in Clients : <<k, c>> \in Droppers \X Clients
  OBVIOUS
<1>2. ASSUME UNCHANGED <<conn, call, drop>>, missed \subseteq missed',
             \A i \in Instances : inst'[i] = "up" => inst[i] = "up",
             \A i \in Instances : clientsOf'[i] \subseteq clientsOf[i],
             \A c \in Clients : Listed(c)' \subseteq Listed(c)
      PROVE  Registered'
  BY <1>0, <1>2 DEF Registered, Unregistering
(* Only c is concerned, and what it has become is allowed. *)
<1>3. ASSUME NEW c \in Clients, UNCHANGED inst, missed \ {c} \subseteq missed',
             \A i \in Instances, d \in Clients \ {c} : d \in clientsOf'[i] => d \in clientsOf[i],
             \A d \in Clients \ {c} : UNCHANGED <<conn[d], call[d]>>,
             \A k \in Droppers, d \in Clients \ {c} : UNCHANGED drop[<<k, d>>],
             \A d \in Clients \ {c} : Listed(d)' = Listed(d),
             \A i \in Instances : inst[i] = "up" /\ c \in clientsOf'[i] =>
               \/ conn'[c] = "open" \/ Unregistering(c)' \/ c \in missed'
               \/ conn'[c] = "closed" /\ call'[c] = "none" /\ Listed(c)' = {}
      PROVE  Registered'
  <2>1. \A d \in Clients \ {c} : Unregistering(d)' = Unregistering(d)
    BY <1>3 DEF Unregistering
  <2>2. clientsOf' \in [Instances -> SUBSET Clients]
    BY <1>t, TypeStep DEF TypeOK
  <2> QED
    BY <1>0, <1>3, <2>1, <2>2 DEF Registered
<1>4. ASSUME NEW i \in Instances, Start(i) PROVE Registered'
  <2>1. /\ UNCHANGED <<conn, call, drop, clientsOf, pvSubs, missed>> /\ inst[i] = "new"
        /\ \A j \in Instances \ {i} : inst'[j] = inst[j]
    BY <1>0, <1>4 DEF Start
  <2>2. clientsOf[i] = {}
    BY <1>0, <2>1 DEF Placed
  <2> QED
    BY <1>0, <2>1, <2>2 DEF Registered, Unregistering, Listed
<1>5. ASSUME NEW i \in Instances, Stop(i) \/ BeginCleanup(i) \/ CleanupRead(i) \/ CleanupEnd(i) \/ CleanupFails(i)
      PROVE  Registered'
  <2>1. UNCHANGED <<conn, call, drop, pvSubs, missed>>
    BY <1>5 DEF Stop, BeginCleanup, CleanupRead, CleanupEnd, CleanupFails
  <2>2. \A j \in Instances : inst'[j] = "up" => inst[j] = "up"
    BY <1>0, <1>5 DEF Stop, BeginCleanup, CleanupRead, CleanupEnd, CleanupFails
  <2>3. \A j \in Instances : clientsOf'[j] \subseteq clientsOf[j]
    BY <1>0, <1>5 DEF Stop, BeginCleanup, CleanupRead, CleanupEnd, CleanupFails
  <2> QED
    BY <1>2, <2>1, <2>2, <2>3 DEF Listed
<1>6. ASSUME NEW i \in Instances, CleanupWrite(i) PROVE Registered'
  <2>0. PICK c \in Clients : \E S : Forget(c, S)
    BY <1>6 DEF CleanupWrite, LookupInv, OnlyTheGone
  <2>1. PICK S : Forget(c, S)
    BY <2>0
  <2>2. \A d \in Clients : Listed(d)' \subseteq Listed(d)
    BY <1>t, <2>1, ForgetLists
  <2> QED
    BY <1>2, <1>6, <2>2 DEF CleanupWrite
<1>7. ASSUME NEW i \in Instances, Crash(i) PROVE Registered'
  <2>1. UNCHANGED <<clientsOf, pvSubs, missed>> /\ inst' = [inst EXCEPT ![i] = "down"]
    BY <1>7 DEF Crash
  <2>2. \A c \in Clients : Listed(c)' = Listed(c)
    BY <2>1 DEF Listed
  <2>3. \A c \in Clients : home[c] # i =>
          conn'[c] = conn[c] /\ call'[c] = call[c] /\ Unregistering(c)' = Unregistering(c)
    BY <1>0, <1>1, <1>7 DEF Crash, Unregistering
  <2> QED
    BY <1>0, <2>1, <2>2, <2>3 DEF Registered, Placed
<1>8. ASSUME NEW i \in Instances, NEW c \in Clients, Connect(i, c) PROVE Registered'
  <2>1. /\ UNCHANGED <<inst, drop, pvSubs, clientsOf, missed>>
        /\ conn' = [conn EXCEPT ![c] = "open"] /\ call' = [call EXCEPT ![c] = "register"]
    BY <1>8 DEF Connect
  <2> QED
    BY <1>0, <1>3, <2>1 DEF Listed
<1>9. ASSUME NEW c \in Clients, register_client(c) PROVE Registered'
  <2>1. /\ UNCHANGED <<inst, conn, drop, pvSubs, missed>> /\ call' = [call EXCEPT ![c] = "none"]
        /\ call[c] = "register" /\ clientsOf' = [clientsOf EXCEPT ![home[c]] = @ \cup {c}]
    BY <1>9 DEF register_client, Answered
  <2>2. \A d \in Clients : Listed(d)' = Listed(d)
    BY <2>1 DEF Listed
  <2>3. conn[c] \in {"open", "closed"} /\ Listed(c) = {}
    BY <1>0, <2>1 DEF InTurn
  <2>4. \A i \in Instances, d \in Clients \ {c} : d \in clientsOf'[i] => d \in clientsOf[i]
    BY <1>0, <2>1
  <2>5. \A i \in Instances : inst[i] = "up" /\ c \in clientsOf'[i] =>
          conn'[c] = "open" \/ (conn'[c] = "closed" /\ call'[c] = "none" /\ Listed(c)' = {})
    BY <1>0, <2>1, <2>2, <2>3
  <2> QED
    BY <1>0, <1>3, <2>1, <2>2, <2>4, <2>5
<1>10. ASSUME NEW c \in Clients, subscribe(c) \/ unsubscribe(c) PROVE Registered'
  <2>1. /\ UNCHANGED <<inst, conn, drop, clientsOf, missed>> /\ call' = [call EXCEPT ![c] = "none"]
        /\ call[c] # "none"
    BY <1>10 DEF subscribe, unsubscribe, Answered
  <2>2. \A d \in Clients \ {c} : Listed(d)' = Listed(d)
    BY <1>t, <1>10, SubscribeLists, UnsubscribeLists DEF subscribe, unsubscribe
  <2>3. \A i \in Instances : inst[i] = "up" /\ c \in clientsOf[i] => conn[c] = "open" \/ Unregistering(c) \/ c \in missed
    BY <1>0, <2>1 DEF Registered
  <2>4. Unregistering(c)' = Unregistering(c)
    BY <2>1 DEF Unregistering
  <2> QED
    BY <1>0, <1>3, <2>1, <2>2, <2>3, <2>4
<1>11. ASSUME NEW c \in Clients, NEW k \in Droppers, UnregisterRead(k, c) PROVE Registered'
  <2>1. UNCHANGED <<inst, clientsOf, pvSubs, conn, call, missed>> /\ drop' = [drop EXCEPT ![<<k, c>>] = "write"]
    BY <1>11 DEF UnregisterRead
  <2>2. Unregistering(c)'
    BY <1>0, <1>1, <2>1 DEF Unregistering
  <2>3. \A l \in Droppers, d \in Clients \ {c} : drop'[<<l, d>>] = drop[<<l, d>>]
    BY <1>0, <1>1, <2>1
  <2> QED
    BY <1>0, <1>3, <2>1, <2>2, <2>3 DEF Listed
<1>12. ASSUME NEW c \in Clients, NEW k \in Droppers, UnregisterWrite(k, c) PROVE Registered'
  <2>1. /\ UNCHANGED <<inst, conn, call>> /\ missed' = missed \ {c} /\ drop' = [drop EXCEPT ![<<k, c>>] = "none"]
        /\ clientsOf' = [clientsOf EXCEPT ![home[c]] = @ \ {c}]
    BY <1>12 DEF UnregisterWrite
  <2>2. \A i \in Instances : c \notin clientsOf'[i] /\ clientsOf'[i] \subseteq clientsOf[i]
    BY <1>0, <2>1 DEF Placed
  <2>3. \A d \in Clients \ {c} : Listed(d)' = Listed(d)
    BY <1>t, <1>12, ForgetLists DEF UnregisterWrite
  <2>4. \A l \in Droppers, d \in Clients \ {c} : drop'[<<l, d>>] = drop[<<l, d>>]
    BY <1>0, <1>1, <2>1
  <2> QED
    BY <1>3, <2>1, <2>2, <2>3, <2>4
<1>13. ASSUME NEW c \in Clients, Disconnect(c) \/ Leave(c) PROVE Registered'
  <2>1. UNCHANGED <<inst, clientsOf, pvSubs, call, missed>>
    BY <1>13 DEF Disconnect, Leave
  <2>2. PICK k \in Droppers : drop' = [drop EXCEPT ![<<k, c>>] = "read"]
    BY <1>13 DEF Disconnect, Leave, Droppers
  <2>3. Unregistering(c)'
    BY <1>0, <1>1, <2>2 DEF Unregistering
  <2>4. \A l \in Droppers, d \in Clients \ {c} : drop'[<<l, d>>] = drop[<<l, d>>]
    BY <1>0, <1>1, <2>2
  <2>5. \A d \in Clients \ {c} : conn'[d] = conn[d]
    BY <1>0, <1>13 DEF Disconnect, Leave
  <2> QED
    BY <1>3, <2>1, <2>3, <2>4, <2>5 DEF Listed
<1>14. ASSUME NEW c \in Clients, NEW S, AskSubscribe(c, S) \/ AskUnsubscribe(c, S) PROVE Registered'
  <2>1. UNCHANGED <<inst, clientsOf, pvSubs, conn, drop, missed>> /\ conn[c] = "open"
        /\ \E p : call' = [call EXCEPT ![c] = p]
    BY <1>14 DEF AskSubscribe, AskUnsubscribe, Receiving
  <2>2. \A d \in Clients \ {c} : call'[d] = call[d]
    BY <1>0, <2>1
  <2> QED
    BY <1>3, <2>1, <2>2 DEF Listed
<1>17. ASSUME NEW c \in Clients, RegisterFails(c) PROVE Registered'
  <2>1. /\ UNCHANGED <<inst, drop, pvSubs>> /\ call' = [call EXCEPT ![c] = "none"]
        /\ conn' = [conn EXCEPT ![c] = IF @ = "open" THEN "lost" ELSE "left"]
        /\ missed' = missed \cup {c}
        /\ clientsOf' = clientsOf \/ clientsOf' = [clientsOf EXCEPT ![home[c]] = @ \cup {c}]
    BY <1>17 DEF RegisterFails, Answered
  <2>2. \A i \in Instances, d \in Clients \ {c} : d \in clientsOf'[i] => d \in clientsOf[i]
    BY <1>0, <2>1
  <2>3. \A d \in Clients : Listed(d)' = Listed(d)
    BY <2>1 DEF Listed
  <2>4. \A d \in Clients \ {c} : UNCHANGED <<conn[d], call[d]>>
    BY <1>0, <2>1
  <2> QED
    BY <1>3, <2>1, <2>2, <2>3, <2>4
<1>18. ASSUME NEW c \in Clients, SubscribeFails(c) PROVE Registered'
  <2>1. /\ UNCHANGED <<inst, clientsOf, missed>> /\ call' = [call EXCEPT ![c] = "none"]
        /\ conn' = [conn EXCEPT ![c] = "left"] /\ drop' = [drop EXCEPT ![<<"endpoint", c>>] = "read"]
    BY <1>18 DEF SubscribeFails, Answered
  <2>2. \A d \in Clients \ {c} : Listed(d)' = Listed(d)
    BY <1>t, <1>18, FailLists
  <2>3. Unregistering(c)' /\ \A k \in Droppers, d \in Clients \ {c} : UNCHANGED drop[<<k, d>>]
    BY <1>0, <1>1, <2>1 DEF Unregistering, Droppers
  <2>4. \A d \in Clients \ {c} : UNCHANGED <<conn[d], call[d]>>
    BY <1>0, <2>1
  <2> QED
    BY <1>3, <2>1, <2>2, <2>3, <2>4
<1>19. ASSUME NEW c \in Clients, NEW k \in Droppers, UnregisterFails(k, c) PROVE Registered'
  <2>1. /\ UNCHANGED <<inst, clientsOf, pvSubs, conn, call>> /\ drop' = [drop EXCEPT ![<<k, c>>] = "none"]
        /\ missed' = missed \cup {c}
    BY <1>19 DEF UnregisterFails
  <2>2. \A l \in Droppers, d \in Clients \ {c} : drop'[<<l, d>>] = drop[<<l, d>>]
    BY <1>0, <1>1, <2>1
  <2> QED
    BY <1>3, <2>1, <2>2 DEF Listed
<1>15. CASE Tick
  BY <1>2, <1>t, <1>15, TickLists DEF Tick
<1>16. CASE UNCHANGED vars
  BY <1>2, <1>16 DEF vars, Listed
<1> QED
  BY <1>4, <1>5, <1>6, <1>7, <1>8, <1>9, <1>10, <1>11, <1>12, <1>13, <1>14, <1>15, <1>16,
     <1>17, <1>18, <1>19
  DEF Next, Registry, Cleanup, Fails

LEMMA LookupStep == LookupInv /\ [Next]_vars => LookupInv'
BY TypeStep, PlacedStep, InTurnStep, RegisteredStep, OnlyTheGoneStep DEF LookupInv

LEMMA LookupInit == Init => LookupInv
<1> SUFFICES ASSUME Init
             PROVE  LookupInv
  OBVIOUS
<1>1. TypeOK
  BY TypeInit
<1>2. Placed /\ Registered
  BY DEF Init, Placed, Registered
<1>3. InTurn
  BY DEF Init, InTurn, Unregistering, Listed
<1>4. OnlyTheGone
  BY DEF Init, OnlyTheGone
<1> QED
  BY <1>1, <1>2, <1>3, <1>4 DEF LookupInv

(* No update is grouped for a client that an instance has no connection to,
   unless it is just unregistering it or failed to: through crashes,
   cleanups, expired keys, failed calls and disconnections in the middle of
   a call. *)
THEOREM LookupIsSound == Spec => []LocalLookupSound
<1>1. ASSUME LookupInv PROVE LocalLookupSound
  <2> SUFFICES ASSUME NEW i \in Instances, NEW pv \in PVs, inst[i] = "up",
                      NEW c \in pvSubs[pv] \cap clientsOf[i]
               PROVE  home[c] = i /\ (conn[c] = "open" \/ Unregistering(c) \/ c \in missed)
    BY DEF LocalLookupSound, get_local_subscribers
  <2>1. c \in Clients /\ home[c] = i
    BY <1>1 DEF LookupInv, Placed, TypeOK
  <2>2. Listed(c) # {}
    BY DEF Listed
  <2> QED
    BY <1>1, <2>1, <2>2 DEF LookupInv, Registered
<1> QED
  BY <1>1, LookupInit, LookupStep, PTL DEF Spec

-----------------------------------------------------------------------------
(* Until a key expires, time does nothing to the lists. *)
LEMMA StillThere ==
  ASSUME [Next]_vars, ~expired'
  PROVE  ~expired /\ (Tick => UNCHANGED <<subs, pvSubs>>)
<1> USE DEF keys, manager, cleanup, failing
<1>1. CASE Tick
  BY <1>1 DEF Tick
<1>2. ASSUME NEW i \in Instances, Start(i) \/ Stop(i) \/ Crash(i) \/ Cleanup(i) \/ CleanupFails(i) PROVE UNCHANGED expired
  BY <1>2 DEF Start, Stop, Crash, Cleanup, BeginCleanup, CleanupRead, CleanupWrite, CleanupEnd, CleanupFails, Forget
<1>3. ASSUME NEW c \in Clients, Registry(c) \/ Fails(c) \/ Disconnect(c) \/ Leave(c) PROVE UNCHANGED expired
  BY <1>3 DEF Registry, register_client, subscribe, unsubscribe, UnregisterRead, UnregisterWrite,
              Fails, RegisterFails, SubscribeFails, UnregisterFails, Forget, Disconnect, Leave
<1>4. ASSUME NEW c \in Clients, NEW S, AskSubscribe(c, S) \/ AskUnsubscribe(c, S)
      PROVE  UNCHANGED expired
  BY <1>4 DEF AskSubscribe, AskUnsubscribe
<1>5. ASSUME NEW i \in Instances, NEW c \in Clients, Connect(i, c) PROVE UNCHANGED expired
  BY <1>5 DEF Connect
<1>6. CASE ~Tick
  BY <1>2, <1>3, <1>4, <1>5, <1>6 DEF Next, vars
<1> QED
  BY <1>1, <1>6

LEMMA InStepStep == LookupInv /\ InStep /\ [Next]_vars /\ ~expired' => InStep'
<1> SUFFICES ASSUME LookupInv, InStep, [Next]_vars, ~expired'
             PROVE  InStep'
  OBVIOUS
<1> USE DEF keys, manager, cleanup, failing
<1>t. TypeOK
  BY DEF LookupInv
<1>0. /\ home \in [Clients -> Instances \cup {NoInstance}]
      /\ conn \in [Clients -> {"new", "open", "lost", "closed", "left"}]
      /\ want \in [Clients -> SUBSET PVs] /\ args \in [Clients -> SUBSET PVs]
      /\ call \in [Clients -> {"none", "register", "subscribe", "unsubscribe"}]
      /\ InTurn /\ Placed
  BY DEF LookupInv, TypeOK
<1>1. ASSUME UNCHANGED <<conn, call, want, args>>,
             \A c \in Clients : conn[c] = "open" => Listed(c)' = Listed(c)
      PROVE  InStep'
  BY <1>1 DEF InStep
<1>2. ASSUME UNCHANGED <<conn, call, want, args, pvSubs>> PROVE InStep'
  BY <1>1, <1>2 DEF Listed
<1>3. ASSUME NEW c \in Clients,
             \A d \in Clients \ {c} : /\ UNCHANGED <<conn[d], call[d], want[d], args[d]>>
                                      /\ Listed(d)' = Listed(d),
             conn'[c] # "new",
             conn'[c] = "open" =>
                 /\ call'[c] \in {"none", "register"} => want'[c] = Listed(c)'
                 /\ call'[c] = "subscribe" => want'[c] = Listed(c)' \cup args'[c]
                 /\ call'[c] = "unsubscribe" => want'[c] = Listed(c)' \ args'[c]
      PROVE  InStep'
  BY <1>3 DEF InStep
<1>4. ASSUME NEW i \in Instances,
             Start(i) \/ Stop(i) \/ BeginCleanup(i) \/ CleanupRead(i) \/ CleanupEnd(i) \/ CleanupFails(i)
      PROVE  InStep'
  BY <1>2, <1>4 DEF Start, Stop, BeginCleanup, CleanupRead, CleanupEnd, CleanupFails
<1>5. ASSUME NEW i \in Instances, Crash(i) PROVE InStep'
  <2>1. \A c \in Clients : Listed(c)' = Listed(c)
    BY <1>5 DEF Crash, Listed
  <2>2. \A c \in Clients : home[c] # i => UNCHANGED <<conn[c], call[c], want[c], args[c]>>
    BY <1>5 DEF Crash
  <2>3. \A c \in Clients : home[c] = i => conn'[c] = "left"
    BY <1>5 DEF Crash
  <2> QED
    BY <2>1, <2>2, <2>3 DEF InStep
<1>6. ASSUME NEW i \in Instances, CleanupWrite(i) PROVE InStep'
  <2>0. PICK c \in Clients : HomeIsGone(c) /\ \E S : Forget(c, S)
    BY <1>6 DEF CleanupWrite, LookupInv, OnlyTheGone
  <2>1. PICK S : Forget(c, S) /\ HomeIsGone(c)
    BY <2>0
  <2>2. conn[c] # "open"
    BY <1>0, <2>1 DEF Placed, HomeIsUp, HomeIsGone
  <2>3. \A d \in Clients : conn[d] = "open" => Listed(d)' = Listed(d)
    BY <1>t, <2>1, <2>2, ForgetLists
  <2> QED
    BY <1>1, <1>6, <2>3 DEF CleanupWrite
<1>7. ASSUME NEW i \in Instances, NEW c \in Clients, Connect(i, c) PROVE InStep'
  <2>1. /\ conn[c] = "new" /\ conn' = [conn EXCEPT ![c] = "open"]
        /\ call' = [call EXCEPT ![c] = "register"] /\ UNCHANGED <<want, args, pvSubs>>
    BY <1>7 DEF Connect
  <2>2. \A d \in Clients : Listed(d)' = Listed(d)
    BY <2>1 DEF Listed
  <2>3. want[c] = {} /\ Listed(c) = {}
    BY <1>0, <2>1 DEF InStep, InTurn
  <2> QED
    BY <1>0, <1>3, <2>1, <2>2, <2>3
<1>8. ASSUME NEW c \in Clients, register_client(c) PROVE InStep'
  <2>1. /\ call[c] = "register" /\ Answered(c) /\ UNCHANGED <<conn, want, pvSubs>>
    BY <1>8 DEF register_client
  <2>2. \A d \in Clients : Listed(d)' = Listed(d)
    BY <2>1 DEF Listed
  <2>3. conn[c] # "new" /\ call'[c] = "none"
        /\ \A d \in Clients \ {c} : call'[d] = call[d] /\ args'[d] = args[d]
    BY <1>0, <2>1 DEF Answered, InTurn
  <2> QED
    BY <1>3, <2>1, <2>2, <2>3 DEF InStep
<1>9. ASSUME NEW c \in Clients, subscribe(c) \/ unsubscribe(c) PROVE InStep'
  <2>1. /\ call[c] # "none" /\ Answered(c) /\ UNCHANGED <<conn, want>>
    BY <1>9 DEF subscribe, unsubscribe
  <2>2. conn[c] # "new" /\ call'[c] = "none"
        /\ \A d \in Clients \ {c} : call'[d] = call[d] /\ args'[d] = args[d]
    BY <1>0, <2>1 DEF Answered, InTurn
  <2>3. \A d \in Clients \ {c} : Listed(d)' = Listed(d)
    BY <1>t, <1>9, SubscribeLists, UnsubscribeLists DEF subscribe, unsubscribe
  <2>4. conn[c] = "open" => want[c] = Listed(c)'
    <3>1. CASE subscribe(c)
      <4>1. call[c] = "subscribe" /\ Listed(c)' = Listed(c) \cup args[c]
        BY <1>t, <3>1, SubscribeLists DEF subscribe
      <4> QED
        BY <4>1 DEF InStep
    <3>2. CASE unsubscribe(c)
      <4>1. call[c] = "unsubscribe" /\ Listed(c)' = Listed(c) \ args[c]
        BY <1>t, <3>2, UnsubscribeLists DEF unsubscribe
      <4> QED
        BY <4>1 DEF InStep
    <3> QED
      BY <1>9, <3>1, <3>2
  <2> QED
    BY <1>3, <2>1, <2>2, <2>3, <2>4
<1>10. ASSUME NEW c \in Clients, NEW k \in Droppers, UnregisterRead(k, c) PROVE InStep'
  BY <1>2, <1>10 DEF UnregisterRead
<1>11. ASSUME NEW c \in Clients, NEW k \in Droppers, UnregisterWrite(k, c) PROVE InStep'
  <2>1. UNCHANGED <<conn, call, want, args>> /\ Unregistering(c)
    BY <1>11 DEF UnregisterWrite, Unregistering
  <2>2. conn[c] # "open"
    BY <1>0, <2>1 DEF InTurn
  <2>3. \A d \in Clients : conn[d] = "open" => Listed(d)' = Listed(d)
    BY <1>t, <1>11, <2>2, ForgetLists DEF UnregisterWrite
  <2> QED
    BY <1>1, <2>1, <2>3
<1>12. ASSUME NEW c \in Clients, Disconnect(c) \/ Leave(c) PROVE InStep'
  <2>1. UNCHANGED <<call, args, pvSubs>> /\ conn'[c] \in {"closed", "left"}
    BY <1>0, <1>12 DEF Disconnect, Leave
  <2>2. \A d \in Clients \ {c} : conn'[d] = conn[d] /\ want'[d] = want[d]
    BY <1>0, <1>12 DEF Disconnect, Leave
  <2> QED
    BY <1>3, <2>1, <2>2 DEF Listed
<1>13. ASSUME NEW c \in Clients, NEW S \in SUBSET PVs, AskSubscribe(c, S) PROVE InStep'
  <2>1. /\ UNCHANGED <<conn, pvSubs>> /\ conn[c] = "open" /\ call[c] = "none"
        /\ want' = [want EXCEPT ![c] = @ \cup S] /\ args' = [args EXCEPT ![c] = S]
        /\ call' = [call EXCEPT ![c] = "subscribe"]
    BY <1>13 DEF AskSubscribe, Receiving
  <2>2. want[c] = Listed(c) /\ \A d \in Clients : Listed(d)' = Listed(d)
    BY <2>1 DEF InStep, Listed
  <2> QED
    BY <1>0, <1>3, <2>1, <2>2
<1>14. ASSUME NEW c \in Clients, NEW S \in SUBSET PVs, AskUnsubscribe(c, S) PROVE InStep'
  <2>1. /\ UNCHANGED <<conn, pvSubs>> /\ conn[c] = "open" /\ call[c] = "none"
        /\ want' = [want EXCEPT ![c] = @ \ S] /\ args' = [args EXCEPT ![c] = S]
        /\ call' = [call EXCEPT ![c] = "unsubscribe"]
    BY <1>14 DEF AskUnsubscribe, Receiving
  <2>2. want[c] = Listed(c) /\ \A d \in Clients : Listed(d)' = Listed(d)
    BY <2>1 DEF InStep, Listed
  <2> QED
    BY <1>0, <1>3, <2>1, <2>2
<1>17. ASSUME NEW c \in Clients, RegisterFails(c) PROVE InStep'
  <2>1. /\ Answered(c) /\ UNCHANGED <<want, pvSubs>>
        /\ conn' = [conn EXCEPT ![c] = IF @ = "open" THEN "lost" ELSE "left"]
    BY <1>17 DEF RegisterFails
  <2>2. \A d \in Clients : Listed(d)' = Listed(d)
    BY <2>1 DEF Listed
  <2>3. /\ conn'[c] \in {"lost", "left"}
        /\ \A d \in Clients \ {c} : conn'[d] = conn[d] /\ call'[d] = call[d] /\ args'[d] = args[d]
    BY <1>0, <2>1 DEF Answered
  <2> QED
    BY <1>3, <2>1, <2>2, <2>3
<1>18. ASSUME NEW c \in Clients, SubscribeFails(c) PROVE InStep'
  <2>1. /\ Answered(c) /\ conn' = [conn EXCEPT ![c] = "left"] /\ want' = [want EXCEPT ![c] = {}]
    BY <1>18 DEF SubscribeFails
  <2>2. /\ conn'[c] = "left"
        /\ \A d \in Clients \ {c} : UNCHANGED <<conn[d], call[d], want[d], args[d]>>
    BY <1>0, <2>1 DEF Answered
  <2>3. \A d \in Clients \ {c} : Listed(d)' = Listed(d)
    BY <1>t, <1>18, FailLists
  <2> QED
    BY <1>3, <2>2, <2>3
<1>19. ASSUME NEW c \in Clients, NEW k \in Droppers, UnregisterFails(k, c) PROVE InStep'
  BY <1>2, <1>19 DEF UnregisterFails
<1>15. CASE Tick
  BY <1>2, <1>15, StillThere DEF Tick
<1>16. CASE UNCHANGED vars
  BY <1>2, <1>16 DEF vars
<1> QED
  BY <1>4, <1>5, <1>6, <1>7, <1>8, <1>9, <1>10, <1>11, <1>12, <1>13, <1>14, <1>15, <1>16,
     <1>17, <1>18, <1>19
  DEF Next, Registry, Cleanup, Fails

LEMMA KnownStep == LookupInv /\ Known /\ [Next]_vars /\ ~expired' => Known'
<1> SUFFICES ASSUME LookupInv, Known, [Next]_vars, ~expired'
             PROVE  Known'
  OBVIOUS
<1> USE DEF keys, manager, cleanup, failing
<1> DEFINE Fine(c) == /\ Listed(c) \subseteq subs[c]
                      /\ \A k \in Droppers :
                           drop[<<k, c>>] = "write" => Listed(c) \subseteq names[<<k, c>>]
                      /\ conn[c] = "left" /\ drop[<<"endpoint", c>>] = "none" /\ c \notin missed => Listed(c) = {}
<1>t. TypeOK
  BY DEF LookupInv
<1>0. /\ inst \in [Instances -> {"new", "up", "stopping", "down"}]
      /\ home \in [Clients -> Instances \cup {NoInstance}]
      /\ conn \in [Clients -> {"new", "open", "lost", "closed", "left"}]
      /\ subs \in [Clients -> SUBSET PVs] /\ args \in [Clients -> SUBSET PVs]
      /\ drop \in [Droppers \X Clients -> {"none", "read", "write"}]
      /\ names \in [Droppers \X Clients -> SUBSET PVs]
      /\ InTurn /\ Placed
  BY DEF LookupInv, TypeOK
<1>1. \A k \in Droppers, c \in Clients : <<k, c>> \in Droppers \X Clients
  OBVIOUS
<1>2. ASSUME \A c \in Clients \ Overlap : HomeIsUp(c)' =>
               /\ HomeIsUp(c)
               /\ UNCHANGED <<conn[c], subs[c]>> /\ Listed(c)' = Listed(c)
               /\ c \in missed => c \in missed'
               /\ \A k \in Droppers : UNCHANGED <<drop[<<k, c>>], names[<<k, c>>]>>
      PROVE  Known'
  <2>1. "endpoint" \in Droppers
    BY DEF Droppers
  <2> QED
    BY <1>2, <2>1 DEF Known
<1>3. ASSUME UNCHANGED <<conn, subs, pvSubs, drop, names, missed>>,
             \A c \in Clients : HomeIsUp(c)' => HomeIsUp(c)
      PROVE  Known'
  BY <1>2, <1>3 DEF Listed
(* Only c is concerned, and all is well with it. *)
<1>4. ASSUME NEW c \in Clients, UNCHANGED <<inst, home>>,
             missed \ {c} \subseteq missed',
             \A d \in Clients \ {c} : /\ UNCHANGED <<conn[d], subs[d]>> /\ Listed(d)' = Listed(d)
                                      /\ \A k \in Droppers : UNCHANGED <<drop[<<k, d>>], names[<<k, d>>]>>,
             c \notin Overlap /\ HomeIsUp(c) => Fine(c)'
      PROVE  Known'
  <2>1. "endpoint" \in Droppers /\ \A d \in Clients : HomeIsUp(d)' = HomeIsUp(d)
    BY <1>4 DEF Droppers, HomeIsUp
  <2>2. ASSUME NEW d \in Clients \ Overlap, HomeIsUp(d), d # c PROVE Fine(d)'
    <3>1. Fine(d)
      BY <2>2 DEF Known
    <3> QED
      BY <1>4, <2>1, <2>2, <3>1
  <2>3. \A d \in Clients \ Overlap : HomeIsUp(d)' => Fine(d)'
    BY <1>4, <2>1, <2>2
  <2> QED
    BY <2>3 DEF Known
<1>5. ASSUME NEW i \in Instances, Start(i) PROVE Known'
  <2>1. \A c \in Clients : HomeIsUp(c)' => HomeIsUp(c)
    BY <1>0, <1>5 DEF Start, Placed, HomeIsUp
  <2> QED
    BY <1>3, <1>5, <2>1 DEF Start
<1>6. ASSUME NEW i \in Instances, Stop(i) \/ BeginCleanup(i) \/ CleanupRead(i) \/ CleanupEnd(i) \/ CleanupFails(i)
      PROVE  Known'
  <2>1. UNCHANGED <<conn, subs, pvSubs, drop, names, missed, home>>
    BY <1>6 DEF Stop, BeginCleanup, CleanupRead, CleanupEnd, CleanupFails
  <2>2. \A j \in Instances : inst'[j] = "up" => inst[j] = "up"
    BY <1>0, <1>6 DEF Stop, BeginCleanup, CleanupRead, CleanupEnd, CleanupFails
  <2> QED
    BY <1>0, <1>3, <2>1, <2>2 DEF HomeIsUp
<1>7. ASSUME NEW i \in Instances, Crash(i) PROVE Known'
  <2>1. missed' = missed /\ \A c \in Clients : Listed(c)' = Listed(c) /\ subs'[c] = subs[c]
    BY <1>7 DEF Crash, Listed
  <2>2. \A c \in Clients : HomeIsUp(c)' => HomeIsUp(c) /\ home[c] # i
    BY <1>0, <1>7 DEF Crash, HomeIsUp
  <2>3. \A c \in Clients : home[c] # i =>
          conn'[c] = conn[c] /\ \A k \in Droppers : UNCHANGED <<drop[<<k, c>>], names[<<k, c>>]>>
    BY <1>0, <1>1, <1>7 DEF Crash
  <2> QED
    BY <1>2, <2>1, <2>2, <2>3
<1>8. ASSUME NEW i \in Instances, CleanupWrite(i) PROVE Known'
  <2>0. PICK c \in Clients : HomeIsGone(c) /\ \E S : Forget(c, S)
    BY <1>8 DEF CleanupWrite, LookupInv, OnlyTheGone
  <2>1. PICK S : Forget(c, S) /\ HomeIsGone(c)
    BY <2>0
  <2>2. UNCHANGED <<inst, home, conn, drop, names, missed>>
    BY <1>8 DEF CleanupWrite
  <2>3. \A d \in Clients \ {c} : Listed(d)' = Listed(d) /\ subs'[d] = subs[d]
    <3>1. \A d \in Clients \ {c} : Listed(d)' = Listed(d)
      BY <1>t, <2>1, ForgetLists
    <3>2. \A d \in Clients \ {c} : subs'[d] = subs[d]
      BY <1>0, <2>1 DEF Forget
    <3> QED
      BY <3>1, <3>2
  <2>4. ~HomeIsUp(c)
    BY <2>1 DEF HomeIsUp, HomeIsGone
  <2> QED
    BY <1>4, <2>2, <2>3, <2>4
<1>9. ASSUME NEW i \in Instances, NEW c \in Clients, Connect(i, c) PROVE Known'
  <2>1. /\ UNCHANGED <<inst, subs, pvSubs, drop, names, missed>> /\ conn[c] = "new"
        /\ home' = [home EXCEPT ![c] = i] /\ conn' = [conn EXCEPT ![c] = "open"]
    BY <1>9 DEF Connect
  <2>2. \A d \in Clients : Listed(d)' = Listed(d)
    BY <2>1 DEF Listed
  <2>3. Listed(c) = {} /\ conn'[c] = "open"
    BY <1>0, <2>1 DEF InTurn
  <2>4. \A d \in Clients \ {c} : conn'[d] = conn[d] /\ HomeIsUp(d)' = HomeIsUp(d)
    BY <1>0, <2>1 DEF HomeIsUp
  <2> QED
    BY <2>1, <2>2, <2>3, <2>4 DEF Known
<1>10. ASSUME NEW c \in Clients, register_client(c) PROVE Known'
  BY <1>3, <1>10 DEF register_client, HomeIsUp
<1>11. ASSUME NEW c \in Clients, subscribe(c) \/ unsubscribe(c) PROVE Known'
  <2>1. UNCHANGED <<inst, home, conn, drop, names, missed>> /\ call[c] # "none"
    BY <1>11 DEF subscribe, unsubscribe
  <2>2. c \notin Overlap => conn[c] = "open" /\ \A k \in Droppers : drop[<<k, c>>] = "none"
    BY <1>0, <2>1 DEF InTurn, Unregistering
  <2>3. \A d \in Clients \ {c} : Listed(d)' = Listed(d)
    BY <1>t, <1>11, SubscribeLists, UnsubscribeLists DEF subscribe, unsubscribe
  <2>4. \A d \in Clients \ {c} : subs'[d] = subs[d]
    BY <1>0, <1>11 DEF subscribe, unsubscribe, Extend, Reduce
  <2>5. Listed(c) \subseteq subs[c] => Listed(c)' \subseteq subs'[c]
    <3>1. CASE subscribe(c)
      <4>1. Listed(c)' = Listed(c) \cup args[c] /\ subs'[c] = subs[c] \cup args[c]
        BY <1>0, <1>t, <3>1, SubscribeLists DEF subscribe, Extend
      <4> QED
        BY <4>1
    <3>2. CASE unsubscribe(c)
      <4>1. Listed(c)' = Listed(c) \ args[c] /\ subs'[c] = subs[c] \ args[c]
        BY <1>0, <1>t, <3>2, UnsubscribeLists DEF unsubscribe, Reduce
      <4> QED
        BY <4>1
    <3> QED
      BY <1>11, <3>1, <3>2
  <2>6. c \notin Overlap /\ HomeIsUp(c) => Fine(c)'
    BY <2>1, <2>2, <2>5 DEF Known
  <2> QED
    BY <1>4, <2>1, <2>3, <2>4, <2>6
<1>12. ASSUME NEW c \in Clients, NEW k \in Droppers, UnregisterRead(k, c) PROVE Known'
  <2>1. /\ UNCHANGED <<inst, home, conn, subs, pvSubs, missed>>
        /\ names' = [names EXCEPT ![<<k, c>>] = subs[c]]
        /\ drop[<<k, c>>] = "read" /\ drop' = [drop EXCEPT ![<<k, c>>] = "write"]
    BY <1>12 DEF UnregisterRead
  <2>2. \A d \in Clients : Listed(d)' = Listed(d)
    BY <2>1 DEF Listed
  <2>3. \A l \in Droppers, d \in Clients : <<l, d>> # <<k, c>> => UNCHANGED <<drop[<<l, d>>], names[<<l, d>>]>>
    BY <1>0, <1>1, <2>1
  <2>4. drop'[<<k, c>>] = "write" /\ names'[<<k, c>>] = subs[c]
    BY <1>0, <1>1, <2>1
  <2>5. c \notin Overlap /\ HomeIsUp(c) => Fine(c)'
    <3> SUFFICES ASSUME c \notin Overlap, HomeIsUp(c) PROVE Fine(c)'
      OBVIOUS
    <3>1. Fine(c)
      BY DEF Known
    <3>2. \A l \in Droppers : drop'[<<l, c>>] = "write" => Listed(c)' \subseteq names'[<<l, c>>]
      BY <2>2, <2>3, <2>4, <3>1
    <3>3. "endpoint" \in Droppers
      BY DEF Droppers
    <3> QED
      BY <2>1, <2>2, <2>3, <2>4, <3>1, <3>2, <3>3
  <2> QED
    BY <1>4, <2>1, <2>2, <2>3, <2>5
<1>13. ASSUME NEW c \in Clients, NEW k \in Droppers, UnregisterWrite(k, c) PROVE Known'
  <2>1. /\ UNCHANGED <<inst, home, conn>> /\ missed' = missed \ {c} /\ drop[<<k, c>>] = "write" /\ Forget(c, names[<<k, c>>])
        /\ names' = [names EXCEPT ![<<k, c>>] = {}] /\ drop' = [drop EXCEPT ![<<k, c>>] = "none"]
    BY <1>13 DEF UnregisterWrite
  <2>2. /\ Listed(c)' = Listed(c) \ names[<<k, c>>]
        /\ \A d \in Clients \ {c} : Listed(d)' = Listed(d) /\ subs'[d] = subs[d]
    <3>1. /\ Listed(c)' = Listed(c) \ names[<<k, c>>]
          /\ \A d \in Clients \ {c} : Listed(d)' = Listed(d)
      BY <1>t, <2>1, ForgetLists
    <3>2. \A d \in Clients \ {c} : subs'[d] = subs[d]
      BY <1>0, <2>1 DEF Forget
    <3> QED
      BY <3>1, <3>2
  <2>3. \A l \in Droppers, d \in Clients \ {c} : UNCHANGED <<drop[<<l, d>>], names[<<l, d>>]>>
    BY <1>0, <1>1, <2>1
  <2>4. c \notin Overlap /\ HomeIsUp(c) => Listed(c)' = {}
    BY <2>1, <2>2 DEF Known
  <2>5. c \notin Overlap /\ HomeIsUp(c) => Fine(c)'
    BY <2>4
  <2> QED
    BY <1>4, <2>1, <2>2, <2>3, <2>5
<1>14. ASSUME NEW c \in Clients, Disconnect(c) \/ Leave(c) PROVE Known'
  <2>1. UNCHANGED <<inst, home, subs, pvSubs, names, missed>>
    BY <1>14 DEF Disconnect, Leave
  <2>2. PICK k \in Droppers : /\ drop' = [drop EXCEPT ![<<k, c>>] = "read"]
                              /\ conn'[c] = "left" => k = "endpoint" \/ c \in missed
    BY <1>0, <1>14 DEF Disconnect, Leave, Droppers, InTurn
  <2>3. \A d \in Clients \ {c} : conn'[d] = conn[d]
    BY <1>0, <1>14 DEF Disconnect, Leave
  <2>4. \A l \in Droppers, d \in Clients : <<l, d>> # <<k, c>> => drop'[<<l, d>>] = drop[<<l, d>>]
    BY <1>0, <1>1, <2>2
  <2>5. drop'[<<k, c>>] = "read"
    BY <1>0, <1>1, <2>2
  <2>6. \A d \in Clients : Listed(d)' = Listed(d)
    BY <2>1 DEF Listed
  <2>7. c \notin Overlap /\ HomeIsUp(c) => Fine(c)'
    <3> SUFFICES ASSUME c \notin Overlap, HomeIsUp(c) PROVE Fine(c)'
      OBVIOUS
    <3>1. Fine(c)
      BY DEF Known
    <3>2. \A l \in Droppers : drop'[<<l, c>>] = "write" => Listed(c)' \subseteq names'[<<l, c>>]
      BY <2>1, <2>4, <2>5, <2>6, <3>1
    <3> QED
      BY <2>1, <2>2, <2>5, <2>6, <3>1, <3>2
  <2> QED
    BY <1>4, <2>1, <2>3, <2>4, <2>6, <2>7
<1>15. ASSUME NEW c \in Clients, NEW S, AskSubscribe(c, S) \/ AskUnsubscribe(c, S) PROVE Known'
  BY <1>3, <1>15 DEF AskSubscribe, AskUnsubscribe, HomeIsUp
<1>18. ASSUME NEW c \in Clients, RegisterFails(c) PROVE Known'
  <2>1. /\ UNCHANGED <<inst, home, subs, pvSubs, drop, names>> /\ missed' = missed \cup {c}
        /\ conn' = [conn EXCEPT ![c] = IF @ = "open" THEN "lost" ELSE "left"]
    BY <1>18 DEF RegisterFails
  <2>2. \A d \in Clients : Listed(d)' = Listed(d)
    BY <2>1 DEF Listed
  <2>3. \A d \in Clients \ {c} : conn'[d] = conn[d]
    BY <1>0, <2>1
  <2>4. c \notin Overlap /\ HomeIsUp(c) => Fine(c)'
    <3> SUFFICES ASSUME c \notin Overlap, HomeIsUp(c) PROVE Fine(c)'
      OBVIOUS
    <3>1. Fine(c)
      BY DEF Known
    <3> QED
      BY <2>1, <2>2, <3>1
  <2> QED
    BY <1>4, <2>1, <2>2, <2>3, <2>4
<1>19. ASSUME NEW c \in Clients, SubscribeFails(c) PROVE Known'
  <2>1. /\ UNCHANGED <<inst, home, names, missed>> /\ call[c] # "none"
        /\ conn' = [conn EXCEPT ![c] = "left"] /\ drop' = [drop EXCEPT ![<<"endpoint", c>>] = "read"]
    BY <1>19 DEF SubscribeFails
  <2>2. c \notin Overlap => \A k \in Droppers : drop'[<<k, c>>] # "write"
    <3>1. c \notin Overlap => \A k \in Droppers : drop[<<k, c>>] = "none"
      BY <1>0, <2>1 DEF InTurn, Unregistering
    <3> QED
      BY <1>0, <1>1, <2>1, <3>1
  <2>3. drop'[<<"endpoint", c>>] = "read" /\ \A k \in Droppers, d \in Clients \ {c} : UNCHANGED drop[<<k, d>>]
    BY <1>0, <1>1, <2>1 DEF Droppers
  <2>4. \A d \in Clients \ {c} : Listed(d)' = Listed(d)
    BY <1>t, <1>19, FailLists
  <2>5. \A d \in Clients \ {c} : subs'[d] = subs[d] /\ conn'[d] = conn[d]
    BY <1>0, <1>19 DEF SubscribeFails, Extend, Reduce
  <2>6. Listed(c) \subseteq subs[c] => Listed(c)' \subseteq subs'[c]
    <3>1. CASE Extend(c)
      <4>1. Listed(c)' = Listed(c) \cup args[c] /\ subs'[c] = subs[c] \cup args[c]
        BY <1>0, <1>t, <3>1, SubscribeLists DEF Extend
      <4> QED
        BY <4>1
    <3>2. CASE Reduce(c)
      <4>1. Listed(c)' = Listed(c) \ args[c] /\ subs'[c] = subs[c] \ args[c]
        BY <1>0, <1>t, <3>2, UnsubscribeLists DEF Reduce
      <4> QED
        BY <4>1
    <3>3. CASE UNCHANGED <<subs, pvSubs>>
      BY <3>3 DEF Listed
    <3> QED
      BY <1>19, <3>1, <3>2, <3>3 DEF SubscribeFails
  <2>7. c \notin Overlap /\ HomeIsUp(c) => Fine(c)'
    BY <2>2, <2>3, <2>6 DEF Known
  <2> QED
    BY <1>4, <2>1, <2>3, <2>4, <2>5, <2>7
<1>20. ASSUME NEW c \in Clients, NEW k \in Droppers, UnregisterFails(k, c) PROVE Known'
  <2>1. /\ UNCHANGED <<inst, home, conn, subs, pvSubs>> /\ missed' = missed \cup {c}
        /\ names' = [names EXCEPT ![<<k, c>>] = {}] /\ drop' = [drop EXCEPT ![<<k, c>>] = "none"]
    BY <1>20 DEF UnregisterFails
  <2>2. \A d \in Clients : Listed(d)' = Listed(d)
    BY <2>1 DEF Listed
  <2>3. \A l \in Droppers, d \in Clients : <<l, d>> # <<k, c>> => UNCHANGED <<drop[<<l, d>>], names[<<l, d>>]>>
    BY <1>0, <1>1, <2>1
  <2>4. drop'[<<k, c>>] = "none"
    BY <1>0, <1>1, <2>1
  <2>5. c \notin Overlap /\ HomeIsUp(c) => Fine(c)'
    <3> SUFFICES ASSUME c \notin Overlap, HomeIsUp(c) PROVE Fine(c)'
      OBVIOUS
    <3>1. Fine(c)
      BY DEF Known
    <3>2. \A l \in Droppers : drop'[<<l, c>>] = "write" => Listed(c)' \subseteq names'[<<l, c>>]
      BY <2>2, <2>3, <2>4, <3>1
    <3> QED
      BY <2>1, <2>2, <3>1, <3>2
  <2>6. \A d \in Clients \ {c} : \A l \in Droppers : UNCHANGED <<drop[<<l, d>>], names[<<l, d>>]>>
    BY <2>3
  <2> QED
    BY <1>4, <2>1, <2>2, <2>5, <2>6
<1>16. CASE Tick
  BY <1>3, <1>16, StillThere DEF Tick, HomeIsUp
<1>17. CASE UNCHANGED vars
  BY <1>3, <1>17 DEF vars, HomeIsUp
<1> QED
  BY <1>5, <1>6, <1>7, <1>8, <1>9, <1>10, <1>11, <1>12, <1>13, <1>14, <1>15, <1>16, <1>17,
     <1>18, <1>19, <1>20
  DEF Next, Registry, Cleanup, Fails

LEMMA ListStep == LookupInv /\ ListInv /\ [Next]_vars => ListInv'
<1> SUFFICES ASSUME LookupInv, ListInv, [Next]_vars, ~expired'
             PROVE  InStep' /\ Known'
  BY DEF ListInv
<1>1. InStep /\ Known
  BY StillThere DEF ListInv
<1> QED
  BY <1>1, InStepStep, KnownStep

LEMMA ListInit == Init => ListInv
BY DEF Init, ListInv, InStep, Known, Listed

(* Until a key expires, a connected client is found under exactly the PVs
   it is subscribed to, whatever becomes of other clients and instances. *)
THEOREM LookupFindsAll == Spec => []LookupComplete
<1>1. ASSUME ListInv PROVE LookupComplete
  BY <1>1 DEF ListInv, LookupComplete, LookupExact, Settled, InStep, Listed
<1> QED
  BY <1>1, LookupInit, LookupStep, ListInit, ListStep, PTL DEF Spec

(* Until a key expires, nothing is left of a client whose endpoint and task
   have unregistered it, in either order, nor of one whose endpoint made good
   what a task failed to do. *)
THEOREM NothingIsLeft == Spec => []UnregisteredIsGone
<1>1. ASSUME LookupInv, ListInv PROVE UnregisteredIsGone
  <2> SUFFICES ASSUME ~expired, NEW c \in Clients \ (Overlap \cup missed), home[c] # NoInstance,
                      conn[c] = "left", Settled(c), inst[home[c]] = "up"
               PROVE  c \notin clientsOf[home[c]] /\ \A pv \in PVs : c \notin pvSubs[pv]
    BY DEF UnregisteredIsGone
  <2>1. home[c] \in Instances
    BY <1>1 DEF LookupInv, TypeOK
  <2>2. c \notin clientsOf[home[c]]
    BY <1>1, <2>1 DEF LookupInv, Registered, Settled
  <2>3. drop[<<"endpoint", c>>] = "none"
    BY DEF Settled, Unregistering, Droppers
  <2>4. Listed(c) = {}
    BY <1>1, <2>3 DEF ListInv, Known, HomeIsUp
  <2> QED
    BY <2>2, <2>4 DEF Listed
<1> QED
  BY <1>1, LookupInit, LookupStep, ListInit, ListStep, PTL DEF Spec

=============================================================================
