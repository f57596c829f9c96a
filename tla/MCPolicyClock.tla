---------------------------- MODULE MCPolicyClock ----------------------------
(* Model-checking instances of PolicyClock. *)
EXTENDS PolicyClock, TLC

PageSymmetry == Permutations(Pages)
=============================================================================
