----------------------------- MODULE MCBindings -----------------------------
(***************************************************************************)
(* An instance of Bindings: two BoundEndpoints, each with its own Target   *)
(* Service; the set of replicas of the forwarder is chosen by the cfg.     *)
(***************************************************************************)
EXTENDS Bindings, TLC

CONSTANTS n1, n2, r1, r2

MCNames == {n1, n2}
MCTargetOf == [n \in Names |-> n]
NameSymmetry == Permutations(Names)
=============================================================================
