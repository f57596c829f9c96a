----------------------------- MODULE PointerMap -----------------------------
(***************************************************************************)
(* What csc369_kmalloc.c asks of its khash table: a finite map from        *)
(* pointers to what is known of them, in which an entry is found until it  *)
(* is deleted, and an insertion that fails changes nothing.                *)
(***************************************************************************)
EXTENDS Integers

CONSTANT Keys

VARIABLES
  map,          \* "size" for a block in use, "freed" for one that was, else "absent"
  ret           \* last insertion: 1 a new key, 0 a known one, -1 it failed

PMInit == map = [key \in Keys |-> "absent"] /\ ret = 0

PMPut(key) ==
  /\ ret' = IF map[key] = "absent" THEN 1 ELSE 0
  /\ map' = [map EXCEPT ![key] = "size"]

PMPutFails == ret' = -1 /\ UNCHANGED map

PMSetFreed(key) ==
  /\ UNCHANGED ret
  /\ map[key] # "absent"
  /\ map' = [map EXCEPT ![key] = "freed"]

PMDel(key) ==
  /\ UNCHANGED ret
  /\ map' = [map EXCEPT ![key] = "absent"]

PMClear == map' = [key \in Keys |-> "absent"] /\ UNCHANGED ret

PMNext ==
  \/ \E key \in Keys : PMPut(key) \/ PMSetFreed(key) \/ PMDel(key)
  \/ PMPutFails \/ PMClear

PMSpec == PMInit /\ [][PMNext]_<<map, ret>>
=============================================================================
