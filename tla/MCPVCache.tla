------------------------------ MODULE MCPVCache ------------------------------
(***************************************************************************)
(* PVCache for TLC, and the deployments of its runs.                       *)
(***************************************************************************)
EXTENDS PVCache, TLC

InterchangeablePVs == Permutations(PVs)

Deployment(dogs, stamped, values, maxFlips) ==
  [dogs |-> dogs, stamped |-> stamped, values |-> values, flips |-> maxFlips]

\* The monitor without its watchdog, and with it: readings have timestamps.
Alone == {Deployment({}, PVs, MaxVal, MaxFlips)}
Watched == {Deployment({"monitor"}, PVs, MaxVal, MaxFlips)}

\* The watchdog of PVAccess structures without a timestamp.
Unstamped == {Deployment({"monitor"}, {}, MaxVal, MaxFlips)}

\* Both, no watchdog, and checks requested from the API process.
AlsoRequested ==
  Watched \cup {Deployment({"monitor"}, {}, 1, MaxFlips), Deployment({}, PVs, 1, MaxFlips),
                Deployment(Dogs, PVs, 1, 1)}
=============================================================================
