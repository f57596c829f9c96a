------------------------------ MODULE Kmalloc ------------------------------
(***************************************************************************)
(* The allocator of csc369_kmalloc.c, with its accounting.  The table of   *)
(* pointers it keeps is the map that KHash is shown to implement.          *)
(*                                                                         *)
(* A block is named by its kind and by the indices that lead to it, and    *)
(* the name stands for its address: memsim allocates nothing after its     *)
(* first CSC369_free, so malloc never returns an address again.            *)
(***************************************************************************)
EXTENDS Integers, FiniteSets, Sequences, SequencesExt

CONSTANTS
  KMALLOC_MAX,  \* CSC369_KMALLOC_MAX (2 GB)
  SIZEOF        \* bytes of a block of each kind

BlockKinds == {"mm", "table", "ptes", "pte"}

ASSUME MaxAssumption == KMALLOC_MAX \in Nat
ASSUME SizeofAssumption == SIZEOF \in [BlockKinds -> Nat \ {0}]

VARIABLE km     \* the allocator

Block(kind, path) == [kind |-> kind, path |-> path]

(* CSC369_MallocInit.  "ok" turns FALSE when an assertion of kmalloc, or   *)
(* the abort of free, kills the program, and when freed memory is read.    *)
CSC369_MallocInit ==
  [num_mallocs |-> 0, num_frees |-> 0, bytes_malloced |-> 0, bytes_freed |-> 0,
   malloc_map |-> [b \in {} |-> "size"], ok |-> TRUE]

(* Blocks handed out and not freed.                                        *)
LiveBlocks(k) == {b \in DOMAIN k.malloc_map : k.malloc_map[b] = "size"}

CSC369_MallocCurrentBytes(k) == k.bytes_malloced - k.bytes_freed
CSC369_MallocCurrentCount(k) == k.num_mallocs - k.num_frees
CSC369_MallocIsLeakFree(k, mallocs, bytes) ==
  CSC369_MallocCurrentBytes(k) <= bytes /\ CSC369_MallocCurrentCount(k) <= mallocs

(* Bytes of count[kind] blocks of each kind, and of a sequence of blocks.  *)
Total(count) ==
  count["mm"] * SIZEOF["mm"] + count["table"] * SIZEOF["table"]
    + count["ptes"] * SIZEOF["ptes"] + count["pte"] * SIZEOF["pte"]

Bytes(blocks) ==
  Total([kind \in BlockKinds |->
           Cardinality({n \in DOMAIN blocks : blocks[n].kind = kind})])

(* The two conditions under which CSC369_malloc asks malloc at all, for    *)
(* blocks that are allocated one after the other.  What is capped is the   *)
(* number of bytes ever handed out.                                        *)
WithinMax(k, blocks) ==
  /\ \A n \in DOMAIN blocks : SIZEOF[blocks[n].kind] < KMALLOC_MAX
  /\ k.bytes_malloced + Bytes(blocks) <= KMALLOC_MAX

(* CSC369_malloc of these blocks when each of them succeeds.               *)
CSC369_malloc(k, blocks) ==
  [k EXCEPT !.num_mallocs = @ + Len(blocks),
            !.bytes_malloced = @ + Bytes(blocks),
            !.malloc_map = [b \in DOMAIN @ \cup ToSet(blocks) |->
                              IF b \in ToSet(blocks) THEN "size" ELSE @[b]]]

Fault(k) == [k EXCEPT !.ok = FALSE]

(* CSC369_malloc of block b when the table of pointers cannot grow: the    *)
(* counters already count b, the map does not have it, and the assertion   *)
(* on what kh_put returned fails.                                          *)
Unrecorded(k, b) ==
  Fault([k EXCEPT !.num_mallocs = @ + 1, !.bytes_malloced = @ + SIZEOF[b.kind]])

(* Faulty variant: the bytes that are freed are not counted.               *)
FreeForgetsBytes(k, blocks) ==
  [k EXCEPT !.num_frees = @ + Len(blocks),
            !.malloc_map = [b \in DOMAIN @ |-> IF b \in ToSet(blocks) THEN "freed" ELSE @[b]]]

(* CSC369_free of one block after the other.  Of a block that is unknown   *)
(* or freed, free itself aborts; the assertions compare the counters with  *)
(* what is freed.                                                          *)
CSC369_free(k, blocks) ==
  IF \/ ~(ToSet(blocks) \subseteq LiveBlocks(k)) \/ ~IsInjective(blocks)
     \/ CSC369_MallocCurrentCount(k) < Len(blocks)
     \/ CSC369_MallocCurrentBytes(k) < Bytes(blocks)
    THEN Fault(k)
    ELSE [k EXCEPT !.num_frees = @ + Len(blocks),
                   !.bytes_freed = @ + Bytes(blocks),
                   !.malloc_map = [b \in DOMAIN @ |->
                                     IF b \in ToSet(blocks) THEN "freed" ELSE @[b]]]

-----------------------------------------------------------------------------
(* Unless an assertion of kmalloc itself failed, the counters tell the     *)
(* truth, after any mixture of allocations, failed allocations and frees:  *)
(* what they say is in use is what the live blocks add up to, and the      *)
(* bytes ever handed out stay within the cap.  The leak check of main      *)
(* rests on it.                                                            *)
AccountingExact ==
  km.ok =>
    /\ CSC369_MallocCurrentCount(km) = Cardinality(LiveBlocks(km))
    /\ CSC369_MallocCurrentBytes(km) =
         Total([kind \in BlockKinds |->
                  Cardinality({b \in LiveBlocks(km) : b.kind = kind})])
    /\ km.bytes_malloced <= KMALLOC_MAX
=============================================================================
