------------------------ MODULE MonitorLeaderProofs ------------------------
(***************************************************************************)
(* Theorems of MonitorLeader for any set of instances, any TTL and any     *)
(* bound on faults.  Type correctness, the expiry of the lock and the      *)
(* clean hand-over hold whatever the delays; exclusion needs every         *)
(* instance to be timely.                                                  *)
(***************************************************************************)
EXTENDS MonitorLeader, TLAPS

USE InstancesAssumption, ComponentsAssumption, TimeAssumption

(* Every variable keeps its type: in particular the budget of lost ticks of
   a timely instance is respected by the clock and by renewal errors. *)
THEOREM TypeCorrect == Spec => []TypeOK
<1>1. Init => TypeOK
  BY DEF Init, TypeOK, MainStates, RenewStates
<1>2. TypeOK /\ [Next]_vars => TypeOK'
  <2> SUFFICES ASSUME TypeOK, [Next]_vars
               PROVE  TypeOK'
    OBVIOUS
  <2> USE DEF TypeOK, MainStates, RenewStates, Goto, Exit
  <2>1. ASSUME NEW i \in Instances, MainStep(i)
        PROVE  TypeOK'
    <3>1. CASE Connect(i)        BY <3>1 DEF Connect
    <3>2. CASE Acquire(i)        BY <3>2 DEF Acquire, AcquireLock
    <3>3. CASE AskHolder(i)      BY <3>3 DEF AskHolder
    <3>4. CASE LoadAddresses(i)  BY <3>4 DEF LoadAddresses
    <3>5. ASSUME NEW c \in Components, StartComponent(i, c) PROVE TypeOK'
      BY <3>5 DEF StartComponent
    <3>6. ASSUME NEW c \in Components, StopComponent(i, c) PROVE TypeOK'
      BY <3>6 DEF StopComponent
    <3>7. CASE CancelRenewal(i)  BY <3>7 DEF CancelRenewal
    <3>8. CASE ReleaseGet(i)     BY <3>8 DEF ReleaseGet
    <3>9. CASE ReleaseDelete(i)  BY <3>9 DEF ReleaseDelete
    <3>10. CASE Disconnect(i)    BY <3>10 DEF Disconnect
    <3> QED
      BY <2>1, <3>1, <3>2, <3>3, <3>4, <3>5, <3>6, <3>7, <3>8, <3>9, <3>10 DEF MainStep
  <2>2. ASSUME NEW i \in Instances, RenewStep(i)
        PROVE  TypeOK'
    BY <2>2 DEF RenewStep, RenewGet, RenewExpire
  <2>3. ASSUME NEW i \in Instances, Environment(i)
        PROVE  TypeOK'
    <3>1. CASE Launch(i)         BY <3>1 DEF Launch
    <3>2. CASE Signal(i)         BY <3>2 DEF Signal
    <3>3. CASE LoadFails(i)      BY <3>3 DEF LoadFails
    <3>4. CASE RenewError(i)
      <4>1. (IF i \in Timely THEN late[i] + 1 ELSE late[i]) \in 0..MaxLate
        BY <3>4 DEF RenewError
      <4>2. late' \in [Instances -> 0..MaxLate]
        BY <3>4, <4>1 DEF RenewError
      <4> QED
        BY <3>4, <4>2 DEF RenewError
    <3>5. CASE Crash(i)          BY <3>5 DEF Crash
    <3> QED
      BY <2>3, <3>1, <3>2, <3>3, <3>4, <3>5 DEF Environment
  <2>4. CASE Tick
    <3>1. late' \in [Instances -> 0..MaxLate]
      BY <2>4 DEF Tick
    <3>2. ttl' \in 0..TTL
      BY <2>4 DEF Tick
    <3>3. main' \in [Instances -> MainStates] /\ renew' \in [Instances -> RenewStates]
      BY <2>4 DEF Tick
    <3> QED
      BY <2>4, <3>1, <3>2, <3>3 DEF Tick
  <2>5. CASE UNCHANGED vars
    BY <2>5 DEF vars
  <2> QED
    BY <2>1, <2>2, <2>3, <2>4, <2>5 DEF Next
<1> QED
  BY <1>1, <1>2, PTL DEF Spec

(* The lock key always carries an expiry: neither the GET/EXPIRE nor the
   GET/DELETE race of redis_service.py can leave a lock that lasts. *)
THEOREM LockAlwaysExpires == Spec => []LockExpires
<1>1. Init => LockExpires
  BY DEF Init, LockExpires
<1>2. TypeOK /\ LockExpires /\ [Next]_vars => LockExpires'
  <2> SUFFICES ASSUME TypeOK, LockExpires, [Next]_vars
               PROVE  LockExpires'
    OBVIOUS
  <2> USE DEF TypeOK, LockExpires, Goto, Exit
  <2>1. ASSUME NEW i \in Instances, MainStep(i)
        PROVE  LockExpires'
    <3>1. CASE Acquire(i)        BY <3>1 DEF Acquire, AcquireLock
    <3>2. CASE Disconnect(i)     BY <3>2 DEF Disconnect
    <3>3. CASE ReleaseDelete(i)  BY <3>3 DEF ReleaseDelete
    <3>4. CASE UNCHANGED <<lock, ttl>>  BY <3>4
    <3> QED
      BY <2>1, <3>1, <3>2, <3>3, <3>4 DEF MainStep, Connect, AskHolder, LoadAddresses,
         StartComponent, StopComponent, CancelRenewal, ReleaseGet
  <2>2. ASSUME NEW i \in Instances, RenewStep(i)
        PROVE  LockExpires'
    BY <2>2 DEF RenewStep, RenewGet, RenewExpire
  <2>3. ASSUME NEW i \in Instances, Environment(i)
        PROVE  LockExpires'
    BY <2>3 DEF Environment, Launch, Signal, LoadFails, RenewError, Crash
  <2>4. CASE Tick
    BY <2>4 DEF Tick
  <2>5. CASE UNCHANGED vars
    BY <2>5 DEF vars
  <2> QED
    BY <2>1, <2>2, <2>3, <2>4, <2>5 DEF Next
<1> QED
  BY <1>1, <1>2, TypeCorrect, PTL DEF Spec

-----------------------------------------------------------------------------
(* An ID in the lock is that of an instance still acting as owner. *)
HolderOwns == \A i \in Instances : lock = i => Owning(i)

(* A process that has released the lock, or found that it no longer holds
   it, is not named in it, whatever its renewal task was doing. *)
THEOREM ReleaseHandsOver == Spec => []ReleasedIsFree
<1>1. Init => HolderOwns
  BY DEF Init, HolderOwns
<1>2. TypeOK /\ HolderOwns /\ [Next]_vars => HolderOwns'
  <2> SUFFICES ASSUME TypeOK, HolderOwns, [Next]_vars
               PROVE  HolderOwns'
    OBVIOUS
  <2> USE DEF TypeOK, HolderOwns, Owning, Goto, Exit
  <2>1. ASSUME NEW i \in Instances, MainStep(i)
        PROVE  HolderOwns'
    <3>1. CASE Connect(i)        BY <3>1 DEF Connect
    <3>2. CASE Acquire(i)        BY <3>2 DEF Acquire, AcquireLock
    <3>3. CASE AskHolder(i)      BY <3>3 DEF AskHolder
    <3>4. CASE LoadAddresses(i)  BY <3>4 DEF LoadAddresses
    <3>5. ASSUME NEW c \in Components, StartComponent(i, c) PROVE HolderOwns'
      BY <3>5 DEF StartComponent
    <3>6. ASSUME NEW c \in Components, StopComponent(i, c) PROVE HolderOwns'
      BY <3>6 DEF StopComponent
    <3>7. CASE CancelRenewal(i)  BY <3>7 DEF CancelRenewal
    <3>8. CASE ReleaseGet(i)     BY <3>8 DEF ReleaseGet
    <3>9. CASE ReleaseDelete(i)  BY <3>9 DEF ReleaseDelete
    <3>10. CASE Disconnect(i)    BY <3>10 DEF Disconnect
    <3> QED
      BY <2>1, <3>1, <3>2, <3>3, <3>4, <3>5, <3>6, <3>7, <3>8, <3>9, <3>10 DEF MainStep
  <2>2. ASSUME NEW i \in Instances, RenewStep(i)
        PROVE  HolderOwns'
    BY <2>2 DEF RenewStep, RenewGet, RenewExpire
  <2>3. ASSUME NEW i \in Instances, Environment(i)
        PROVE  HolderOwns'
    BY <2>3 DEF Environment, Launch, Signal, LoadFails, RenewError, Crash
  <2>4. CASE Tick
    BY <2>4 DEF Tick
  <2>5. CASE UNCHANGED vars
    BY <2>5 DEF vars
  <2> QED
    BY <2>1, <2>2, <2>3, <2>4, <2>5 DEF Next
<1>3. HolderOwns => ReleasedIsFree
  BY DEF HolderOwns, ReleasedIsFree, Owning
<1> QED
  BY <1>1, <1>2, <1>3, TypeCorrect, PTL DEF Spec

-----------------------------------------------------------------------------
(* Exclusion.  While all instances are timely, every tick an owner loses is
   counted: what the key has left is at least the TTL less what was lost,
   less the tick it slept if it has woken. *)

Slept(i) == IF renew[i] = "sleep" THEN 0 ELSE 1

OwnerHasTime ==
  \A i \in Instances : Owning(i) => lock = i /\ ttl + late[i] + Slept(i) >= TTL

(* Which states of the renewal task go with which states of main(). *)
TasksMatch ==
  \A i \in Instances :
    /\ main[i] \in {"load", "start", "run", "stop"} => renew[i] # "none"
    /\ running[i] # {} => main[i] \in {"start", "run", "stop", "halt"}

LEMMA TasksMatchHolds == Spec => []TasksMatch
<1>1. Init => TasksMatch
  BY DEF Init, TasksMatch
<1>2. TypeOK /\ TasksMatch /\ [Next]_vars => TasksMatch'
  <2> SUFFICES ASSUME TypeOK, TasksMatch, [Next]_vars
               PROVE  TasksMatch'
    OBVIOUS
  <2> USE DEF TypeOK, TasksMatch, Goto, Exit
  <2>1. ASSUME NEW i \in Instances, MainStep(i)
        PROVE  TasksMatch'
    <3>1. CASE Connect(i)        BY <3>1 DEF Connect
    <3>2. CASE Acquire(i)        BY <3>2 DEF Acquire, AcquireLock
    <3>3. CASE AskHolder(i)      BY <3>3 DEF AskHolder
    <3>4. CASE LoadAddresses(i)  BY <3>4 DEF LoadAddresses
    <3>5. ASSUME NEW c \in Components, StartComponent(i, c) PROVE TasksMatch'
      BY <3>5 DEF StartComponent
    <3>6. ASSUME NEW c \in Components, StopComponent(i, c) PROVE TasksMatch'
      BY <3>6 DEF StopComponent
    <3>7. CASE CancelRenewal(i)  BY <3>7 DEF CancelRenewal
    <3>8. CASE ReleaseGet(i)     BY <3>8 DEF ReleaseGet
    <3>9. CASE ReleaseDelete(i)  BY <3>9 DEF ReleaseDelete
    <3>10. CASE Disconnect(i)    BY <3>10 DEF Disconnect
    <3> QED
      BY <2>1, <3>1, <3>2, <3>3, <3>4, <3>5, <3>6, <3>7, <3>8, <3>9, <3>10 DEF MainStep
  <2>2. ASSUME NEW i \in Instances, RenewStep(i)
        PROVE  TasksMatch'
    BY <2>2 DEF RenewStep, RenewGet, RenewExpire
  <2>3. ASSUME NEW i \in Instances, Environment(i)
        PROVE  TasksMatch'
    BY <2>3 DEF Environment, Launch, Signal, LoadFails, RenewError, Crash
  <2>4. CASE Tick
    BY <2>4 DEF Tick
  <2>5. CASE UNCHANGED vars
    BY <2>5 DEF vars
  <2> QED
    BY <2>1, <2>2, <2>3, <2>4, <2>5 DEF Next
<1> QED
  BY <1>1, <1>2, TypeCorrect, PTL DEF Spec
(* The key of a timely owner outlives its next renewal: the step the
   exclusion of leaders rests on. *)
LEMMA OwnerHasTimeHolds ==
  ASSUME Timely = Instances
  PROVE  Spec => []OwnerHasTime
<1>1. Init => OwnerHasTime
  BY DEF Init, OwnerHasTime, Owning
<1>2. TypeOK /\ TasksMatch /\ OwnerHasTime /\ [Next]_vars => OwnerHasTime'
  <2> SUFFICES ASSUME TypeOK, TasksMatch, OwnerHasTime, [Next]_vars
               PROVE  OwnerHasTime'
    OBVIOUS
  <2> USE DEF TypeOK, OwnerHasTime, Owning, Slept, Goto, Exit
  <2>1. ASSUME NEW i \in Instances, MainStep(i)
        PROVE  OwnerHasTime'
    <3>1. CASE Connect(i)        BY <3>1 DEF Connect
    <3>2. CASE Acquire(i)        BY <3>2 DEF Acquire, AcquireLock
    <3>3. CASE AskHolder(i)      BY <3>3 DEF AskHolder
    <3>4. CASE LoadAddresses(i)  BY <3>4 DEF LoadAddresses
    <3>5. ASSUME NEW c \in Components, StartComponent(i, c) PROVE OwnerHasTime'
      BY <3>5 DEF StartComponent
    <3>6. ASSUME NEW c \in Components, StopComponent(i, c) PROVE OwnerHasTime'
      BY <3>6 DEF StopComponent
    <3>7. CASE CancelRenewal(i)  BY <3>7 DEF CancelRenewal
    <3>8. CASE ReleaseGet(i)     BY <3>8 DEF ReleaseGet
    <3>9. CASE ReleaseDelete(i)  BY <3>9 DEF ReleaseDelete
    <3>10. CASE Disconnect(i)    BY <3>10 DEF Disconnect
    <3> QED
      BY <2>1, <3>1, <3>2, <3>3, <3>4, <3>5, <3>6, <3>7, <3>8, <3>9, <3>10 DEF MainStep
  <2>2. ASSUME NEW i \in Instances, RenewStep(i)
        PROVE  OwnerHasTime'
    BY <2>2 DEF RenewStep, RenewGet, RenewExpire
  <2>3. ASSUME NEW i \in Instances, Environment(i)
        PROVE  OwnerHasTime'
    BY <2>3 DEF Environment, Launch, Signal, LoadFails, RenewError, Crash
  <2>4. CASE Tick
    <3> SUFFICES ASSUME NEW i \in Instances, Owning(i)'
                 PROVE  lock' = i /\ ttl' + late'[i] + Slept(i)' >= TTL
      OBVIOUS
    <3>1. Owning(i) /\ lock = i /\ ttl + late[i] + Slept(i) >= TTL
      BY <2>4 DEF Tick
    <3>2. CASE Overdue(i)
      <4>1. late[i] < MaxLate /\ late'[i] = late[i] + 1
        BY <2>4, <3>2 DEF Tick
      <4>2. ttl > 1
        BY <3>1, <4>1
      <4>3. Slept(i)' = 1
        BY <2>4, <3>2 DEF Tick, Overdue
      <4> QED
        BY <2>4, <3>1, <4>1, <4>2, <4>3 DEF Tick
    <3>3. CASE ~Overdue(i)
      <4>1. renew[i] = "sleep"
        BY <3>1, <3>3 DEF Overdue, TasksMatch, RenewStates
      <4>2. late'[i] = late[i] /\ Slept(i)' = 1
        BY <2>4, <3>3, <4>1 DEF Tick
      <4>3. ttl > 1
        BY <3>1, <4>1
      <4> QED
        BY <2>4, <3>1, <4>1, <4>2, <4>3 DEF Tick
    <3> QED
      BY <3>2, <3>3
  <2>5. CASE UNCHANGED vars
    BY <2>5 DEF vars
  <2> QED
    BY <2>1, <2>2, <2>3, <2>4, <2>5 DEF Next
<1> QED
  BY <1>1, <1>2, TypeCorrect, TasksMatchHolds, PTL DEF Spec

(* Timely instances never act as leader on a lock they have lost. *)
THEOREM LeadersHoldTheLock ==
  ASSUME Timely = Instances
  PROVE  Spec => []LeaderHoldsLock
<1>1. TypeOK /\ OwnerHasTime => LeaderHoldsLock
  <2> SUFFICES ASSUME TypeOK, OwnerHasTime, NEW i \in Instances, Owning(i)
               PROVE  lock = i /\ ttl > 0
    BY DEF LeaderHoldsLock
  <2>1. lock = i /\ ttl + late[i] + Slept(i) >= TTL
    BY DEF OwnerHasTime
  <2>2. late[i] \in 0..MaxLate /\ ttl \in 0..TTL /\ Slept(i) \in 0..1
    BY DEF TypeOK, Slept
  <2> QED
    BY <2>1, <2>2
<1> QED
  BY <1>1, TypeCorrect, OwnerHasTimeHolds, PTL

(* Only one monitor instance runs at a time, for any number of instances
   and any TTL, provided that all of them are timely. *)
THEOREM AtMostOneMonitor ==
  ASSUME Timely = Instances
  PROVE  Spec => []OneMonitor
<1>1. LeaderHoldsLock /\ TasksMatch => OneMonitor
  BY DEF LeaderHoldsLock, TasksMatch, OneMonitor, Monitoring, Owning
<1> QED
  BY <1>1, LeadersHoldTheLock, TasksMatchHolds, PTL

(* A timely instance never deletes a lock that is not its own. *)
THEOREM ReleasesOnlyItsOwn ==
  ASSUME Timely = Instances
  PROVE  Spec => ReleaseOnlyOwn
<1>1. LeaderHoldsLock => [\A i \in Instances : ReleaseDelete(i) => lock = i]_vars
  BY DEF LeaderHoldsLock, ReleaseDelete, Owning
<1> QED
  BY <1>1, LeadersHoldTheLock, PTL DEF ReleaseOnlyOwn

-----------------------------------------------------------------------------
(* The refinement.  An owner is the only owner, because all owners are named
   in the lock, and it finds the lock its own when it comes to release it;
   components run only between the start and the end of the shutdown.  So
   the sets of owners and of monitoring processes change as in Lease. *)

Owners == {i \in Instances : Owning(i)}
Monitors == {i \in Instances : Monitoring(i)}

(* An instance that takes the free lock is the first owner; one that finds
   the lock taken changes nothing that Lease can see. *)
LEMMA AcquireTakes ==
  ASSUME TypeOK, LeaderHoldsLock, NEW i \in Instances, Acquire(i)
  PROVE  \/ Owners = {} /\ Owners' = {i} /\ Monitors' = Monitors
         \/ UNCHANGED <<Owners, Monitors>>
<1> USE DEF TypeOK, Owners, Monitors, Owning, Monitoring, Goto
<1>1. Monitors' = Monitors
  BY DEF Acquire
<1>2. CASE lock = Nobody
  <2>1. \A j \in Instances : ~Owning(j)
    BY <1>2 DEF LeaderHoldsLock
  <2>2. main' = [main EXCEPT ![i] = "load"]
    BY <1>2 DEF Acquire, AcquireLock
  <2>3. Owners = {}
    BY <2>1
  <2>4. \A j \in Instances : Owning(j)' <=> j = i
    BY <2>1, <2>2
  <2> QED
    BY <1>1, <2>3, <2>4
<1>3. CASE lock # Nobody
  <2>1. \A j \in Instances : Owning(j)' <=> Owning(j)
    BY <1>3 DEF Acquire, AcquireLock
  <2> QED
    BY <1>1, <2>1
<1> QED
  BY <1>2, <1>3

(* A process that ends while it owns the right loses it and its components;
   any other end is not visible. *)
LEMMA ExitDies ==
  ASSUME TypeOK, TasksMatch, NEW i \in Instances, Exit(i)
  PROVE  /\ Owners' = Owners \ {i}
         /\ Monitors' = Monitors \ {i}
         /\ i \in Monitors => i \in Owners
<1> USE DEF TypeOK, Owners, Monitors, Owning, Monitoring, Goto, Exit
<1>1. \A j \in Instances : Owning(j)' <=> Owning(j) /\ j # i
  OBVIOUS
<1>2. \A j \in Instances : Monitoring(j)' <=> Monitoring(j) /\ j # i
  OBVIOUS
<1>3. Monitoring(i) => Owning(i)
  BY DEF TasksMatch
<1> QED
  BY <1>1, <1>2, <1>3

(* The two steps that change what is monitored: the first component to start
   and the last to stop. *)
LEMMA ComponentsWorkAndRest ==
  ASSUME TypeOK, TasksMatch, NEW i \in Instances, NEW c \in Components,
         StartComponent(i, c) \/ StopComponent(i, c)
  PROVE  /\ Owners' = Owners
         /\ i \in Owners
         /\ \/ Monitors' = Monitors
            \/ i \notin Monitors /\ Monitors' = Monitors \cup {i}
            \/ i \in Monitors /\ Monitors' = Monitors \ {i}
<1> USE DEF TypeOK, Owners, Monitors, Owning, Monitoring, Goto
<1>1. \A j \in Instances : Owning(j)' <=> Owning(j)
  BY DEF StartComponent, StopComponent
<1>2. Owning(i)
  BY DEF StartComponent, StopComponent
<1>3. \A j \in Instances : j # i => (Monitoring(j)' <=> Monitoring(j))
  BY DEF StartComponent, StopComponent
<1>4. Owners' = Owners /\ i \in Owners
  BY <1>1, <1>2
<1>5. CASE Monitoring(i)' <=> Monitoring(i)
  BY <1>3, <1>4, <1>5
<1>6. CASE Monitoring(i)' /\ ~Monitoring(i)
  BY <1>3, <1>4, <1>6
<1>7. CASE ~Monitoring(i)' /\ Monitoring(i)
  BY <1>3, <1>4, <1>7
<1> QED
  BY <1>5, <1>6, <1>7

(* Timely instances implement the lease, however many there are: "Only one
   monitor instance should run at a time" (monitor_main.py:71) from the first
   component to the last, deaths and failed loads included. *)
THEOREM TimelyElectionIsLease ==
  ASSUME Timely = Instances
  PROVE  Spec => ImplementsLease
<1>1. Init => ElectionIsLease!Init
  BY DEF Init, ElectionIsLease!Init, Owning, Monitoring
<1>2. TypeOK /\ TasksMatch /\ LeaderHoldsLock /\ [Next]_vars
        => [ElectionIsLease!Next]_(ElectionIsLease!vars)
  <2> SUFFICES ASSUME TypeOK, TasksMatch, LeaderHoldsLock, [Next]_vars
               PROVE  \/ \E p \in Instances :
                            \/ Owners = {} /\ Owners' = {p} /\ Monitors' = Monitors
                            \/ p \in Owners \ Monitors /\ Monitors' = Monitors \cup {p} /\ Owners' = Owners
                            \/ p \in Monitors /\ Monitors' = Monitors \ {p} /\ Owners' = Owners
                            \/ p \in Owners \ Monitors /\ Owners' = Owners \ {p} /\ Monitors' = Monitors
                            \/ p \in Owners /\ Owners' = Owners \ {p} /\ Monitors' = Monitors \ {p}
                      \/ Owners' = Owners /\ Monitors' = Monitors
    BY DEF ElectionIsLease!Next, ElectionIsLease!vars, ElectionIsLease!Take, ElectionIsLease!Work,
           ElectionIsLease!Rest, ElectionIsLease!GiveUp, ElectionIsLease!Die, Owners, Monitors
  <2>1. ASSUME NEW i \in Instances, Acquire(i)
        PROVE  \/ Owners = {} /\ Owners' = {i} /\ Monitors' = Monitors
               \/ Owners' = Owners /\ Monitors' = Monitors
    BY <2>1, AcquireTakes
  <2>2. ASSUME NEW i \in Instances, NEW c \in Components,
               StartComponent(i, c) \/ StopComponent(i, c)
        PROVE  /\ Owners' = Owners
               /\ \/ Monitors' = Monitors
                  \/ i \in Owners \ Monitors /\ Monitors' = Monitors \cup {i}
                  \/ i \in Monitors /\ Monitors' = Monitors \ {i}
    BY <2>2, ComponentsWorkAndRest
  <2>3. ASSUME NEW i \in Instances, ReleaseDelete(i)
        PROVE  /\ i \in Owners \ Monitors
               /\ Owners' = Owners \ {i}
               /\ Monitors' = Monitors
    <3> USE DEF TypeOK, Owning, Monitoring, Goto, ReleaseDelete
    <3>1. Owning(i) /\ ~Monitoring(i)
      BY <2>3 DEF TasksMatch
    <3>2. \A j \in Instances : Owning(j)' <=> Owning(j) /\ j # i
      BY <2>3
    <3>3. \A j \in Instances : Monitoring(j)' <=> Monitoring(j)
      BY <2>3
    <3> QED
      BY <3>1, <3>2, <3>3 DEF Owners, Monitors
  <2>4. ASSUME NEW i \in Instances, Disconnect(i) \/ Crash(i)
        PROVE  \/ i \in Owners /\ Owners' = Owners \ {i} /\ Monitors' = Monitors \ {i}
               \/ Owners' = Owners /\ Monitors' = Monitors
    <3>1. Exit(i)
      BY <2>4 DEF Disconnect, Crash
    <3>2. /\ Owners' = Owners \ {i}
          /\ Monitors' = Monitors \ {i}
          /\ i \in Monitors => i \in Owners
      BY <3>1, ExitDies
    <3> QED
      BY <3>2
  <2>5. ASSUME NEW i \in Instances,
               \/ Connect(i) \/ AskHolder(i) \/ LoadAddresses(i) \/ CancelRenewal(i)
               \/ ReleaseGet(i) \/ Launch(i) \/ Signal(i) \/ LoadFails(i)
               \/ RenewStep(i) \/ RenewError(i)
        PROVE  Owners' = Owners /\ Monitors' = Monitors
    <3> USE DEF TypeOK, Owning, Monitoring, Goto
    <3>1. running' = running
      BY <2>5 DEF Connect, AskHolder, LoadAddresses, CancelRenewal, ReleaseGet, Launch,
         Signal, LoadFails, RenewStep, RenewGet, RenewExpire, RenewError
    <3>2. \A j \in Instances : Owning(j)' <=> Owning(j)
      <4>1. CASE ReleaseGet(i)
        BY <4>1 DEF ReleaseGet, LeaderHoldsLock
      <4>2. CASE Connect(i) \/ AskHolder(i) \/ LoadAddresses(i) \/ CancelRenewal(i)
        BY <4>2 DEF Connect, AskHolder, LoadAddresses, CancelRenewal
      <4>3. CASE Launch(i) \/ Signal(i) \/ LoadFails(i)
        BY <4>3 DEF Launch, Signal, LoadFails
      <4>4. CASE RenewStep(i) \/ RenewError(i)
        BY <4>4 DEF RenewStep, RenewGet, RenewExpire, RenewError
      <4> QED
        BY <2>5, <4>1, <4>2, <4>3, <4>4
    <3> QED
      BY <3>1, <3>2 DEF Owners, Monitors
  <2>6. CASE Tick
    <3>1. \A j \in Instances : Owning(j)' <=> Owning(j)
      BY <2>6 DEF Tick, TypeOK, Owning
    <3>2. running' = running
      BY <2>6 DEF Tick
    <3> QED
      BY <3>1, <3>2 DEF Owners, Monitors, Monitoring
  <2>7. CASE UNCHANGED vars
    BY <2>7 DEF vars, Owners, Monitors, Owning, Monitoring
  <2>8. ASSUME NEW i \in Instances, MainStep(i) \/ RenewStep(i) \/ Environment(i)
        PROVE  \/ Acquire(i)
               \/ \E c \in Components : StartComponent(i, c) \/ StopComponent(i, c)
               \/ ReleaseDelete(i)
               \/ Disconnect(i) \/ Crash(i)
               \/ Connect(i) \/ AskHolder(i) \/ LoadAddresses(i) \/ CancelRenewal(i)
               \/ ReleaseGet(i) \/ Launch(i) \/ Signal(i) \/ LoadFails(i)
               \/ RenewStep(i) \/ RenewError(i)
    BY <2>8 DEF MainStep, Environment
  <2> HIDE DEF Owners, Monitors
  <2> QED
    BY <2>1, <2>2, <2>3, <2>4, <2>5, <2>6, <2>7, <2>8 DEF Next
<1> QED
  BY <1>1, <1>2, TypeCorrect, TasksMatchHolds, LeadersHoldTheLock, PTL
     DEF Spec, ImplementsLease, ElectionIsLease!Spec
=============================================================================
