---------------------------- MODULE MCPolicyS2Q ----------------------------
(* Model-checking instances of PolicyS2Q. *)
EXTENDS PolicyS2Q, TLC

PageSymmetry == Permutations(Pages)
=============================================================================
