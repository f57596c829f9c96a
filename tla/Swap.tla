-------------------------------- MODULE Swap --------------------------------
(***************************************************************************)
(* The swap space (csc369_swap.c): a bitmap of used slots and the swap     *)
(* file.  One slot holds one simulated frame.  PTEs name a slot by its     *)
(* byte position in the file, never by its index.                          *)
(*                                                                         *)
(* The bitmap is taken here as the set of used indices.  A transfer by     *)
(* read(2) or write(2) always starts at a slot's first byte and is at most *)
(* FRAME_SIZE bytes long, so the file is a function from slot positions to *)
(* page contents; bytes never written read as 0, as in a sparse file.      *)
(***************************************************************************)
EXTENDS Integers

CONSTANTS
  SWAPSIZE,     \* number of slots: memsim's -s argument
  FRAME_SIZE,   \* CSC369_SIMULATED_FRAME_SIZE (16 in the code)
  Values,       \* what a byte may hold (uint8_t), 0 included
  Transfers     \* byte counts one read() or write() of a page may return

(* memsim refuses a swap of size 0 (memsim.c:127).                         *)
ASSUME SwapSizeAssumption == SWAPSIZE \in Nat \ {0}
ASSUME FrameSizeAssumption == FRAME_SIZE \in Nat \ {0}
ASSUME ValuesAssumption == 0 \in Values
ASSUME TransfersAssumption ==
  Transfers \subseteq 0 .. FRAME_SIZE /\ FRAME_SIZE \in Transfers

VARIABLES
  swapmap,      \* indices whose bit is set in the swap bitmap
  swapfile      \* contents of the swap file, by slot position

swapVars == <<swapmap, swapfile>>

CSC369_INVALID_SWAP == -1

Slots == 0 .. SWAPSIZE - 1
Offsets == 0 .. FRAME_SIZE - 1
Contents == [Offsets -> Values]
ZeroFrame == [o \in Offsets |-> 0]

(* The byte position of the slot with index idx.                           *)
SlotOffset(idx) == idx * FRAME_SIZE
SwapOffsets == {SlotOffset(idx) : idx \in Slots}

SwapTypeOK ==
  /\ swapmap \in SUBSET Slots
  /\ swapfile \in [SwapOffsets -> Contents]

SwapCreate ==
  /\ swapmap = {}
  /\ swapfile = [off \in SwapOffsets |-> ZeroFrame]

(* dst after the first n bytes of src have been copied over it.            *)
Copy(src, dst, n) == [o \in Offsets |-> IF o < n THEN src[o] ELSE dst[o]]

(* Faulty variants: each changes the definition after it the way a slip in *)
(* the code would; a property must tell it from the original.              *)
BitmapAllocIgnoresUsed(idx) == idx \in Slots /\ \A i \in Slots : idx <= i

(* CSC369_BitmapAlloc sets the first clear bit, idx.                       *)
CSC369_BitmapAlloc(idx) ==
  /\ idx \in Slots \ swapmap
  /\ \A i \in Slots \ swapmap : idx <= i

(* CSC369_SwapPageOut of a frame holding content, for a PTE whose          *)
(* swap_offset is offset; result is the returned offset.  A slot is        *)
(* allocated only when the page has none.  The call fails when the bitmap  *)
(* is full, and when the write is short: the slot then stays allocated.    *)
CSC369_SwapPageOut(content, offset, result) ==
  \/ /\ offset = CSC369_INVALID_SWAP
     /\ swapmap = Slots
     /\ result = CSC369_INVALID_SWAP
     /\ UNCHANGED swapVars
  \/ \E idx \in Slots, n \in Transfers :
     /\ IF offset = CSC369_INVALID_SWAP
          THEN CSC369_BitmapAlloc(idx)
          ELSE offset = SlotOffset(idx)
     /\ swapmap' = IF offset = CSC369_INVALID_SWAP
                     THEN swapmap \cup {idx} ELSE swapmap
     /\ swapfile' = [swapfile EXCEPT
                       ![SlotOffset(idx)] = Copy(content, @, n)]
     /\ result = IF n = FRAME_SIZE THEN SlotOffset(idx)
                                   ELSE CSC369_INVALID_SWAP

(* Faulty variant: the page is not read back.                              *)
PageInSkipped(file, content, offset) == {content}

(* What a frame holding content may hold after CSC369_SwapPageIn from      *)
(* offset, given the file's present contents: a failed lseek or a short    *)
(* read leaves the rest of the frame as it was.                            *)
CSC369_SwapPageIn(file, content, offset) ==
  {Copy(file[offset], content, n) : n \in Transfers}
=============================================================================
