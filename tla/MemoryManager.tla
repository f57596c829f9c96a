---------------------------- MODULE MemoryManager ----------------------------
(***************************************************************************)
(* The memory manager (csc369_mm.c) and the coremap (csc369_coremap.c),    *)
(* which call each other, on top of the swap space.                        *)
(*                                                                         *)
(* pte is the page table seen through CSC369_PageTableAllocate: every page *)
(* has an entry, which until its first use is the one CSC369_PTECreate     *)
(* makes.  The walk that finds the entry is module PageTable's subject.    *)
(* The entry's reference bit belongs to the replacement policies: the      *)
(* memory manager must not touch it (csc369_mm.h:67), and no definition of *)
(* this module mentions it.  A frame embeds its pte pointer and a list     *)
(* entry (csc369_coremap.h:47-52): both may be FrameList's NULL, and the   *)
(* list operations are the policies' to use.                               *)
(***************************************************************************)
EXTENDS Swap, FrameList

CONSTANTS
  Pages,        \* the virtual pages of the trace
  MEMSIZE,      \* CSC369_GLOBAL_MEMSIZE, number of frames: -m argument
  COUNTER_MOD   \* number of values of a uint32_t counter (2^32 in the code)

(* memsim refuses a memory of size 0 (memsim.c:127).                       *)
ASSUME MemSizeAssumption == MEMSIZE \in Nat \ {0}
ASSUME NullAssumption == NULL \notin Pages
ASSUME CounterAssumption == COUNTER_MOD \in Nat \ {0}

VARIABLES
  pte,          \* page table entry of each page
  frames,       \* coremap: the page whose pte a frame points to; NULL = free
  physmem,      \* contents of each frame of simulated physical memory
  stats         \* CSC369_GLOBAL_STATS

mmVars == <<swapmap, swapfile, pte, frames, physmem, stats>>

Frames == 0 .. MEMSIZE - 1

PTE == [frame_number : Frames, swap_offset : SwapOffsets \cup {CSC369_INVALID_SWAP},
        valid : BOOLEAN, dirty : BOOLEAN, on_swap : BOOLEAN]

CSC369_MMStats ==
  [{"ref", "hit", "miss", "evict_clean", "evict_dirty"} -> 0 .. COUNTER_MOD - 1]

MMTypeOK ==
  /\ SwapTypeOK
  /\ pte \in [Pages -> PTE]
  /\ frames \in [Frames -> Pages \cup {NULL}]
  /\ physmem \in [Frames -> Contents]
  /\ stats \in CSC369_MMStats

CSC369_PTECreate ==
  [frame_number |-> 0, swap_offset |-> CSC369_INVALID_SWAP,
   valid |-> FALSE, dirty |-> FALSE, on_swap |-> FALSE]

(* Every frame is free.                                                    *)
CSC369_CoremapCreate == frames = [f \in Frames |-> NULL]

(* What CSC369_SimulationCreate makes of the swap, the coremap, the memory *)
(* manager with its page table, physical memory and the counters.          *)
MMCreate ==
  /\ SwapCreate
  /\ CSC369_CoremapCreate
  /\ pte = [p \in Pages |-> CSC369_PTECreate]
  /\ physmem = [f \in Frames |-> ZeroFrame]
  /\ stats = [c \in {"ref", "hit", "miss", "evict_clean", "evict_dirty"} |-> 0]

(* The counters in C wrap around; each handler adds one to those in C.     *)
Count(C) == [c \in DOMAIN stats |->
              IF c \in C THEN (stats[c] + 1) % COUNTER_MOD ELSE stats[c]]

-----------------------------------------------------------------------------
(* Coremap *)

FreeFrames == {f \in Frames : frames[f] = NULL}

(* Faulty variant: the frame found need not be free.                       *)
FindAnyFrame(f) == f \in Frames /\ FreeFrames # {}

(* FindFreeFrame returns the first free frame.                             *)
FindFreeFrame(f) == f \in FreeFrames /\ \A g \in FreeFrames : f <= g

(* Faulty variant: the entry takes the slot's index, not its position.     *)
EvictedStoresIndex(v, offset) ==
  [pte EXCEPT ![v].dirty = FALSE, ![v].valid = FALSE, ![v].on_swap = TRUE,
              ![v].swap_offset = IF offset = CSC369_INVALID_SWAP
                                   THEN offset ELSE offset \div FRAME_SIZE]

(* Faulty variants: one field of the victim's entry is not updated.        *)
EvictedStaysValid(v, offset) ==
  [pte EXCEPT ![v].dirty = FALSE, ![v].on_swap = TRUE, ![v].swap_offset = offset]
EvictedNotOnSwap(v, offset) ==
  [pte EXCEPT ![v].dirty = FALSE, ![v].valid = FALSE, ![v].swap_offset = offset]
EvictedOffsetLost(v, offset) ==
  [pte EXCEPT ![v].dirty = FALSE, ![v].valid = FALSE, ![v].on_swap = TRUE]

(* CSC369_MMHandleEviction of page v: the page table after it, when the    *)
(* page-out has returned offset.  The entry is updated whatever that is.   *)
EvictedTable(v, offset) ==
  [pte EXCEPT ![v].dirty = FALSE, ![v].valid = FALSE, ![v].on_swap = TRUE,
              ![v].swap_offset = offset]

(* Faulty variant: every eviction asks for a new slot.                     *)
HandleEvictionNewSlot(v, offset) ==
  CSC369_SwapPageOut(physmem[pte[v].frame_number], CSC369_INVALID_SWAP, offset)

CSC369_MMHandleEviction(v, offset) ==
  CSC369_SwapPageOut(physmem[pte[v].frame_number], pte[v].swap_offset, offset)

EvictCounter(v) == IF pte[v].dirty THEN "evict_dirty" ELSE "evict_clean"
-----------------------------------------------------------------------------
(* CSC369_MMGetFrameNumber, by the case it takes.  p is the page accessed, *)
(* write tells whether the access is a Store or a Modify.                  *)

(* Faulty variants: a hit does not mark the page dirty, or is not counted  *)
(* as a reference.                                                         *)
HitLeavesClean(p, write) ==
  /\ pte[p].valid
  /\ stats' = Count({"hit", "ref"})
  /\ UNCHANGED <<swapmap, swapfile, pte, frames>>
HitNoReference(p, write) ==
  /\ pte[p].valid
  /\ pte' = [pte EXCEPT ![p].dirty = @ \/ write]
  /\ stats' = Count({"hit"})
  /\ UNCHANGED <<swapmap, swapfile, frames>>

(* The entry is valid.                                                     *)
MMHit(p, write) ==
  /\ pte[p].valid
  /\ pte' = [pte EXCEPT ![p].dirty = @ \/ write]
  /\ stats' = Count({"hit", "ref"})
  /\ UNCHANGED <<swapmap, swapfile, frames>>

(* CSC369_CoremapAllocateFrame gives the page a frame: the first free one, *)
(* or the frame of the victim the policy names once it has been paged out. *)
(* table is the page table after the eviction, counters what it counted.   *)
AllocateFree(f) == FindFreeFrame(f) /\ UNCHANGED swapVars

AllocateEvict(f, offset) ==
  FreeFrames = {} /\ CSC369_MMHandleEviction(frames[f], offset)

(* Faulty variant: a new page is dirty only if it is written.              *)
ZeroFillClean(p, f, table, counters) ==
  /\ ~table[p].on_swap
  /\ pte' = [table EXCEPT ![p].frame_number = f, ![p].valid = TRUE]
  /\ frames' = [frames EXCEPT ![f] = p]
  /\ stats' = Count(counters \cup {"miss", "ref"})

(* First reference: the frame is zero-filled, the page marked dirty.       *)
MMZeroFill(p, f, table, counters) ==
  /\ ~table[p].on_swap
  /\ pte' = [table EXCEPT ![p].frame_number = f, ![p].dirty = TRUE,
                          ![p].valid = TRUE]
  /\ frames' = [frames EXCEPT ![f] = p]
  /\ stats' = Count(counters \cup {"miss", "ref"})

(* The page is on swap: it is read back; failures are only logged.         *)
MMPageIn(p, f, table, counters, write) ==
  /\ table[p].on_swap
  /\ table[p].swap_offset # CSC369_INVALID_SWAP
  /\ pte' = [table EXCEPT ![p].frame_number = f, ![p].on_swap = FALSE,
                          ![p].valid = TRUE, ![p].dirty = @ \/ write]
  /\ frames' = [frames EXCEPT ![f] = p]
  /\ stats' = Count(counters \cup {"miss", "ref"})

(* The page is marked on swap but its page-out failed: SwapPageIn's        *)
(* assertion fails before the entry is made valid.                         *)
MMPageInAborts(p, f, table, counters) ==
  /\ table[p].on_swap
  /\ table[p].swap_offset = CSC369_INVALID_SWAP
  /\ pte' = [table EXCEPT ![p].frame_number = f]
  /\ frames' = [frames EXCEPT ![f] = p]
  /\ stats' = Count(counters \cup {"miss"})
  /\ UNCHANGED physmem
=============================================================================
