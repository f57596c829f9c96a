---------------------------- MODULE SlotAllocator ----------------------------
(***************************************************************************)
(* What the swap asks of its bitmap: an allocator that hands out each of   *)
(* the indices 0 .. size - 1 once, the smallest first, and refuses only    *)
(* when none is left.  Swap!CSC369_BitmapAlloc is this allocator.          *)
(***************************************************************************)
EXTENDS Integers

VARIABLES
  size,         \* number of slots
  used,         \* slots handed out
  result        \* what the last call returned: a slot, or -1

SAInit == used = {} /\ result = -1

SAAlloc(s) ==
  /\ s \in (0 .. size - 1) \ used
  /\ \A t \in (0 .. size - 1) \ used : s <= t
  /\ used' = used \cup {s}
  /\ result' = s
  /\ UNCHANGED size

SARefuse ==
  /\ used = 0 .. size - 1
  /\ result' = -1
  /\ UNCHANGED <<size, used>>

SANext == SARefuse \/ \E s \in 0 .. size - 1 : SAAlloc(s)

SASpec == SAInit /\ [][SANext]_<<size, used, result>>
=============================================================================
