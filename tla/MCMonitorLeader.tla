-------------------------- MODULE MCMonitorLeader --------------------------
(***************************************************************************)
(* MonitorLeader for TLC: instances are interchangeable in the runs that   *)
(* check only safety, as long as all or none of them are timely.           *)
(***************************************************************************)
EXTENDS MonitorLeader, TLC

Interchangeable == Permutations(Instances)
=============================================================================
