--------------------------- MODULE MCControlPlane ---------------------------
(***************************************************************************)
(* Instances of ControlPlane for TLC.  Callers run the same code and sizes *)
(* are only compared, so both may be permuted where no liveness is checked. *)
(***************************************************************************)
EXTENDS ControlPlane, TLC

PlaneSymmetry == Permutations(Callers) \cup Permutations(Sizes)

=============================================================================
