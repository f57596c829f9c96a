------------------------------ MODULE MCProgram ------------------------------
(* Model-checking instances of Program: traces of up to three lines over   *)
(* three pages, one kind of line longer than the buffer.  KMALLOC_MAX has  *)
(* room for the entries of pages 0 and 1, which share their tables, and    *)
(* for those of page 5, but not for all three.                             *)
EXTENDS Program

MCSizeof == [kind \in BlockKinds |->
               CASE kind = "table" -> 1 [] kind = "ptes" -> 2 [] OTHER -> 4]
MCLines == {<<Access(0)>>, <<Access(1)>>, <<Access(5)>>, <<Comment>>, <<Invalid>>,
            <<Comment, Access(5)>>}
MCFiles == [lines : UNION {[1 .. n -> MCLines] : n \in 0 .. 3}, terminated : BOOLEAN]
=============================================================================
