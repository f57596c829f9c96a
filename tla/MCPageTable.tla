---------------------------- MODULE MCPageTable ----------------------------
(* Model-checking instances of PageTable: the bytes of a block only have   *)
(* to differ from kind to kind.                                            *)
EXTENDS PageTable

MCSizeof == [kind \in BlockKinds |->
               CASE kind = "table" -> 1 [] kind = "ptes" -> 2 [] OTHER -> 4]
=============================================================================
