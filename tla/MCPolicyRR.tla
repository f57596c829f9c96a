----------------------------- MODULE MCPolicyRR -----------------------------
(* Model-checking instances of PolicyRR. *)
EXTENDS PolicyRR
=============================================================================
