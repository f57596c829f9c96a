------------------------------ MODULE MCMemSim ------------------------------
(* Model-checking instances of MemSim. *)
EXTENDS MemSim, TLC

(* Pages are only compared for equality.                                   *)
PageSymmetry == Permutations(Pages)
=============================================================================
