---------------------------- MODULE MonitorLeader ----------------------------
(***************************************************************************)
(* Leader election of the PV monitor processes (app/monitor_main.py) on    *)
(* the lock key of app/services/redis_service.py.                          *)
(*                                                                         *)
(* Every monitor process draws an INSTANCE_ID, takes the Redis lock with   *)
(* SET NX EX, loads the PV addresses, starts its components (the CA        *)
(* monitor, the PVAccess monitor, the watchdog), and keeps the lock alive  *)
(* from a background task until it is told to stop.  The lock is renewed   *)
(* and released by two Redis commands each: a GET that compares the owner, *)
(* then an EXPIRE or a DELETE that does not compare anything.              *)
(*                                                                         *)
(* One Tick is the 10 s that the waiting loop and the renewal loop sleep;  *)
(* TTL is MONITOR_LOCK_TTL in ticks.  A command takes no time or several   *)
(* ticks.  A process restarts under a new INSTANCE_ID, so what a dead      *)
(* process leaves in the lock becomes Gone, an ID that no process has.     *)
(***************************************************************************)
EXTENDS Integers, FiniteSets

CONSTANTS Instances,    \* monitor processes
          Timely,       \* instances whose renewals and shutdown keep pace
          Components,   \* what a leader starts: "ca" and perhaps "pva", "wd"
          TTL,          \* MONITOR_LOCK_TTL / 10 s
          MaxLate,      \* ticks a timely instance may lose per renewal
          MaxFaults,    \* bound on crashes, failed loads, failed renewals
          Nobody,       \* the lock key does not exist
          Gone          \* the lock names a process that has exited

ASSUME InstancesAssumption ==
  /\ Timely \subseteq Instances
  /\ Nobody \notin Instances /\ Gone \notin Instances /\ Nobody # Gone
ASSUME ComponentsAssumption ==
  "ca" \in Components /\ Components \subseteq {"ca", "pva", "wd"}
ASSUME TimeAssumption ==
  /\ TTL \in Nat /\ MaxLate \in Nat /\ MaxLate + 1 < TTL
  /\ MaxFaults \in Nat

VARIABLES main,     \* main[i]: where the main() coroutine of i is
          renew,    \* renew[i]: where the _renew_lock_loop() task of i is
          running,  \* running[i]: the components of i that run
          lock,     \* value of squirrel:monitor:lock
          ttl,      \* ticks until the lock key expires, 0 if it has no expiry
          late,     \* late[i]: ticks the timely i lost since it last had the full TTL
          faults    \* faults so far

vars == <<main, renew, running, lock, ttl, late, faults>>

MainStates == {"off", "connect", "acquire", "wait", "retry", "holder", "load",
               "start", "run", "stop", "halt", "relGet", "relDel", "disconnect"}
RenewStates == {"none", "sleep", "get", "expire"}

(* The instances that took the lock and have not yet tried to give it up. *)
Owning(i) == main[i] \in {"load", "start", "run", "stop", "halt", "relGet", "relDel"}

(* One instance's components are at work on the cache. *)
Monitoring(i) == running[i] # {}

TypeOK ==
  /\ main \in [Instances -> MainStates]
  /\ renew \in [Instances -> RenewStates]
  /\ running \in [Instances -> SUBSET Components]
  /\ lock \in Instances \cup {Nobody, Gone}
  /\ ttl \in 0..TTL
  /\ late \in [Instances -> 0..MaxLate]
  /\ faults \in 0..MaxFaults

Init ==
  /\ main = [i \in Instances |-> "off"]
  /\ renew = [i \in Instances |-> "none"]
  /\ running = [i \in Instances |-> {}]
  /\ lock = Nobody
  /\ ttl = 0
  /\ late = [i \in Instances |-> 0]
  /\ faults = 0

-----------------------------------------------------------------------------
(* Starting and taking the lock *)

Goto(i, pc) == main' = [main EXCEPT ![i] = pc]

(* The process of i ends: its tasks and subscriptions go with it, and its
   INSTANCE_ID, perhaps still in the lock, belongs to nobody alive. *)
Exit(i) ==
  /\ Goto(i, "off")
  /\ renew' = [renew EXCEPT ![i] = "none"]
  /\ running' = [running EXCEPT ![i] = {}]
  /\ lock' = IF lock = i THEN Gone ELSE lock

Launch(i) ==
  /\ main[i] = "off"
  /\ Goto(i, "connect")
  /\ UNCHANGED <<renew, running, lock, ttl, late, faults>>

Connect(i) ==
  /\ main[i] = "connect"
  /\ Goto(i, "acquire")
  /\ UNCHANGED <<renew, running, lock, ttl, late, faults>>

(* As a mutant: SET NX, the expiry left to the first renewal. *)
AcquireWithoutExpiry(i) ==
  /\ lock = Nobody
  /\ lock' = i
  /\ ttl' = 0
  /\ late' = [late EXCEPT ![i] = 0]

(* As a mutant: the time to live is set in seconds, not in ticks of ten. *)
AcquireForTooLong(i) ==
  /\ lock = Nobody
  /\ lock' = i
  /\ ttl' = 10 * TTL
  /\ late' = [late EXCEPT ![i] = 0]

(* SET key id NX EX: succeeds only on a missing key. *)
AcquireLock(i) ==
  /\ lock = Nobody
  /\ lock' = i
  /\ ttl' = TTL
  /\ late' = [late EXCEPT ![i] = 0]

(* The first attempt and every retry: the owner starts its renewal task
   and loads; the others wait, a retry first asking who the holder is. *)
Acquire(i) ==
  /\ main[i] \in {"acquire", "retry"}
  /\ \/ /\ AcquireLock(i)
        /\ Goto(i, "load")
        /\ renew' = [renew EXCEPT ![i] = "sleep"]
     \/ /\ lock # Nobody
        /\ Goto(i, IF main[i] = "acquire" THEN "wait" ELSE "holder")
        /\ UNCHANGED <<renew, lock, ttl, late>>
  /\ UNCHANGED <<running, faults>>

(* get_monitor_lock_holder() is only logged; then the loop sleeps again. *)
AskHolder(i) ==
  /\ main[i] = "holder"
  /\ Goto(i, "wait")
  /\ UNCHANGED <<renew, running, lock, ttl, late, faults>>

-----------------------------------------------------------------------------
(* Loading the addresses and starting the components *)

LoadAddresses(i) ==
  /\ main[i] = "load"
  /\ Goto(i, "start")
  /\ UNCHANGED <<renew, running, lock, ttl, late, faults>>

(* The database fails: the lock is released, with the renewal task still
   scheduled, and the process returns. *)
LoadFails(i) ==
  /\ main[i] = "load"
  /\ faults < MaxFaults
  /\ faults' = faults + 1
  /\ Goto(i, "relGet")
  /\ UNCHANGED <<renew, running, lock, ttl, late>>

StartOrder(c) == CASE c = "ca" -> 1 [] c = "pva" -> 2 [] c = "wd" -> 3

(* The next component in start order; the last one completes the startup. *)
StartComponent(i, c) ==
  /\ main[i] = "start"
  /\ c \notin running[i]
  /\ \A d \in Components \ running[i] : StartOrder(c) <= StartOrder(d)
  /\ running' = [running EXCEPT ![i] = @ \cup {c}]
  /\ Goto(i, IF running[i] \cup {c} = Components THEN "run" ELSE "start")
  /\ UNCHANGED <<renew, lock, ttl, late, faults>>

-----------------------------------------------------------------------------
(* Shutting down *)

Signal(i) ==
  /\ main[i] = "run"
  /\ Goto(i, "stop")
  /\ UNCHANGED <<renew, running, lock, ttl, late, faults>>

CancelRenewal(i) ==
  /\ main[i] = "stop"
  /\ renew' = [renew EXCEPT ![i] = "none"]
  /\ Goto(i, "halt")
  /\ UNCHANGED <<running, lock, ttl, late, faults>>

StopOrder(c) == CASE c = "wd" -> 1 [] c = "ca" -> 2 [] c = "pva" -> 3

(* As a mutant: shutdown gives up the lock after stopping the watchdog. *)
StopWatchdogOnly(i, c) ==
  /\ main[i] = "halt"
  /\ c \in running[i]
  /\ \A d \in running[i] : StopOrder(c) <= StopOrder(d)
  /\ running' = [running EXCEPT ![i] = @ \ {c}]
  /\ Goto(i, "relGet")
  /\ UNCHANGED <<renew, lock, ttl, late, faults>>

StopComponent(i, c) ==
  /\ main[i] = "halt"
  /\ c \in running[i]
  /\ \A d \in running[i] : StopOrder(c) <= StopOrder(d)
  /\ running' = [running EXCEPT ![i] = @ \ {c}]
  /\ Goto(i, IF running[i] = {c} THEN "relGet" ELSE "halt")
  /\ UNCHANGED <<renew, lock, ttl, late, faults>>

(* release_monitor_lock, first command: GET and compare. *)
ReleaseGet(i) ==
  /\ main[i] = "relGet"
  /\ Goto(i, IF lock = i THEN "relDel" ELSE "disconnect")
  /\ UNCHANGED <<renew, running, lock, ttl, late, faults>>

(* release_monitor_lock, second command: DELETE whatever the key holds now. *)
ReleaseDelete(i) ==
  /\ main[i] = "relDel"
  /\ lock' = Nobody
  /\ ttl' = 0
  /\ Goto(i, "disconnect")
  /\ UNCHANGED <<renew, running, late, faults>>

Disconnect(i) ==
  /\ main[i] = "disconnect"
  /\ Exit(i)
  /\ UNCHANGED <<ttl, late, faults>>

-----------------------------------------------------------------------------
(* The renewal task *)

(* As a mutant: the task gives up after the first renewal. *)
RenewOnce(i) ==
  /\ renew[i] = "expire"
  /\ IF lock = Nobody THEN UNCHANGED ttl ELSE ttl' = TTL
  /\ late' = [late EXCEPT ![i] = 0]
  /\ renew' = [renew EXCEPT ![i] = "none"]
  /\ UNCHANGED <<main, running, lock, faults>>

(* As a mutant: the renewal sets the key instead of extending it. *)
RenewBySet(i) ==
  /\ renew[i] = "expire"
  /\ lock' = i
  /\ ttl' = TTL
  /\ late' = [late EXCEPT ![i] = 0]
  /\ renew' = [renew EXCEPT ![i] = "sleep"]
  /\ UNCHANGED <<main, running, faults>>

(* renew_monitor_lock, first command.  A lock that is lost is only logged:
   the task sleeps again and the components keep running. *)
RenewGet(i) ==
  /\ renew[i] = "get"
  /\ renew' = [renew EXCEPT ![i] = IF lock = i THEN "expire" ELSE "sleep"]
  /\ UNCHANGED <<main, running, lock, ttl, late, faults>>

(* renew_monitor_lock, second command: EXPIRE whatever key there is now. *)
RenewExpire(i) ==
  /\ renew[i] = "expire"
  /\ IF lock = Nobody THEN UNCHANGED ttl ELSE ttl' = TTL
  /\ late' = [late EXCEPT ![i] = 0]
  /\ renew' = [renew EXCEPT ![i] = "sleep"]
  /\ UNCHANGED <<main, running, lock, faults>>

(* Redis fails either command: logged, and the loop sleeps again, which
   costs a timely instance one of the ticks it can lose. *)
RenewError(i) ==
  /\ renew[i] \in {"get", "expire"}
  /\ faults < MaxFaults
  /\ i \in Timely => late[i] < MaxLate
  /\ faults' = faults + 1
  /\ renew' = [renew EXCEPT ![i] = "sleep"]
  /\ late' = [late EXCEPT ![i] = IF i \in Timely THEN @ + 1 ELSE @]
  /\ UNCHANGED <<main, running, lock, ttl>>

-----------------------------------------------------------------------------
(* Faults and time *)

(* Kill, an unhandled Redis error in main(), or a signal before the
   handlers are installed: nothing is released. *)
Crash(i) ==
  /\ main[i] # "off"
  /\ faults < MaxFaults
  /\ faults' = faults + 1
  /\ Exit(i)
  /\ UNCHANGED <<ttl, late>>

(* A renewal is due, or i has stopped renewing and is shutting down. *)
Overdue(i) ==
  \/ renew[i] \in {"get", "expire"}
  \/ renew[i] = "none" /\ main[i] \in {"halt", "relGet", "relDel"}

(* Ten seconds pass: sleepers wake and Redis expires the key.  This is
   where the timing assumption sits: a timely instance is overdue for at
   most MaxLate ticks from one full TTL to the next. *)
Tick ==
  /\ \A i \in Timely : Overdue(i) => late[i] < MaxLate
  /\ main' = [i \in Instances |-> IF main[i] = "wait" THEN "retry" ELSE main[i]]
  /\ renew' = [i \in Instances |-> IF renew[i] = "sleep" THEN "get" ELSE renew[i]]
  /\ late' = [i \in Instances |-> IF i \in Timely /\ Overdue(i) THEN late[i] + 1 ELSE late[i]]
  /\ ttl' = IF ttl > 0 THEN ttl - 1 ELSE 0
  /\ lock' = IF ttl = 1 THEN Nobody ELSE lock
  /\ UNCHANGED <<running, faults>>

MainStep(i) ==
  \/ Connect(i) \/ Acquire(i) \/ AskHolder(i) \/ LoadAddresses(i)
  \/ \E c \in Components : StartComponent(i, c) \/ StopComponent(i, c)
  \/ CancelRenewal(i) \/ ReleaseGet(i) \/ ReleaseDelete(i) \/ Disconnect(i)

RenewStep(i) == RenewGet(i) \/ RenewExpire(i)

Environment(i) == Launch(i) \/ Signal(i) \/ LoadFails(i) \/ RenewError(i) \/ Crash(i)

Next ==
  \/ \E i \in Instances : MainStep(i) \/ RenewStep(i) \/ Environment(i)
  \/ Tick

Spec == Init /\ [][Next]_vars

(* The event loop of a live process runs every ready coroutine, Redis
   answers, and time passes; nothing forces a launch, a signal or a fault. *)
FairSpec ==
  /\ Spec
  /\ WF_vars(Tick)
  /\ \A i \in Instances : WF_vars(MainStep(i)) /\ WF_vars(RenewStep(i))

-----------------------------------------------------------------------------
(* Properties *)

(* "Only one monitor instance should run at a time" (monitor_main.py:71):
   no two processes run components that write the same cache keys. *)
OneMonitor == \A i, j \in Instances : Monitoring(i) /\ Monitoring(j) => i = j

(* Whoever still acts as leader, including during shutdown and after a
   failed load, is the owner named in the lock, and the key is not about to
   be gone: nobody acts on a lock it has lost. *)
LeaderHoldsLock == \A i \in Instances : Owning(i) => lock = i /\ ttl > 0

(* The lock has an expiry as long as it exists, whatever command touched it
   last: no lock of a dead process can block the election for ever. *)
LockExpires == (lock # Nobody) <=> (ttl > 0)

(* A process that has gone through release_monitor_lock does not leave its
   ID behind, even if its renewal task was between GET and EXPIRE: a
   planned stop hands over at once instead of after the TTL. *)
ReleasedIsFree == \A i \in Instances : main[i] = "disconnect" => lock # i

(* "Release the monitor lock if we own it" (redis_service.py:536): the
   DELETE of an instance never hits a lock that is not its own. *)
ReleaseOnlyOwn == [][\A i \in Instances : ReleaseDelete(i) => lock = i]_vars

(* The election is a lease: whoever acquires, loads, monitors, shuts down or
   dies does what the abstract specification lets its counterpart do, and
   what the lock key and the renewals do in between cannot be seen. *)
ElectionIsLease ==
  INSTANCE Lease WITH Processes <- Instances,
                      holders <- {i \in Instances : Owning(i)},
                      working <- {i \in Instances : Monitoring(i)}
ImplementsLease == ElectionIsLease!Spec

(* "Auto-recovers if leader dies" (ARCHITECTURE.md:194): an instance that
   waits for the lock eventually sees some instance monitor, unless it has
   itself exited. *)
Recovery ==
  \A i \in Instances :
    main[i] \in {"wait", "retry", "holder"} ~>
      (main[i] = "off" \/ \E j \in Instances : Monitoring(j))

=============================================================================
