------------------------------ MODULE MCRestore ------------------------------
(***************************************************************************)
(* Restore for TLC.  Jobs are interchangeable in safety runs.              *)
(***************************************************************************)
EXTENDS Restore, TLC

InterchangeableJobs == Permutations(Jobs)

\* Bound: not both restores are of the whole snapshot.
OneOfAll == \A i, j \in Jobs : i # j /\ {request[i], request[j]} \cap {"new"} = {} => {asked[i], asked[j]} # {All}
=============================================================================
