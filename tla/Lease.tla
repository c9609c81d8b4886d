------------------------------- MODULE Lease -------------------------------
(***************************************************************************)
(* What the monitor processes are promised by their election, without      *)
(* the lock key, its time to live and the renewals: the right to monitor   *)
(* is held by one process at a time, a process monitors only while it      *)
(* holds the right, and it stops monitoring before it gives the right up.  *)
(* MonitorLeader implements this as long as its instances are timely.      *)
(***************************************************************************)
CONSTANT Processes      \* processes that want to monitor

VARIABLES holders,      \* processes that may monitor
          working       \* processes that monitor

vars == <<holders, working>>

Init ==
  /\ holders = {}
  /\ working = {}

(* "Try to acquire leader lock" (monitor_main.py:70). *)
Take(p) ==
  /\ holders = {}
  /\ holders' = {p}
  /\ UNCHANGED working

(* "Start PV monitor" (monitor_main.py:133). *)
Work(p) ==
  /\ p \in holders \ working
  /\ working' = working \cup {p}
  /\ UNCHANGED holders

(* The last component has stopped (monitor_main.py:197-203). *)
Rest(p) ==
  /\ p \in working
  /\ working' = working \ {p}
  /\ UNCHANGED holders

(* "Release leader lock" (monitor_main.py:206). *)
GiveUp(p) ==
  /\ p \in holders \ working
  /\ holders' = holders \ {p}
  /\ UNCHANGED working

(* The process is killed: neither monitors nor comes back to the lock. *)
Die(p) ==
  /\ p \in holders
  /\ holders' = holders \ {p}
  /\ working' = working \ {p}

Next == \E p \in Processes : Take(p) \/ Work(p) \/ Rest(p) \/ GiveUp(p) \/ Die(p)

Spec == Init /\ [][Next]_vars
=============================================================================
