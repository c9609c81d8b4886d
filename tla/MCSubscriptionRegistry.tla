------------------------ MODULE MCSubscriptionRegistry ------------------------
(***************************************************************************)
(* SubscriptionRegistry for TLC.  Instances are interchangeable in         *)
(* safety runs.                                                            *)
(***************************************************************************)
EXTENDS SubscriptionRegistry, TLC

InterchangeableInstances == Permutations(Instances)
=============================================================================
