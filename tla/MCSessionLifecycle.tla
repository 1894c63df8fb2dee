------------------------- MODULE MCSessionLifecycle -------------------------
(***************************************************************************)
(* Instances of SessionLifecycle for TLC.                                  *)
(***************************************************************************)
EXTENDS SessionLifecycle, TLC

LifecycleSymmetry == Permutations(CLIs) \cup Permutations(Containers)

=============================================================================
