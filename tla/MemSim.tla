------------------------------- MODULE MemSim -------------------------------
(***************************************************************************)
(* The simulation loop (csc369_simulation.c) driving the memory manager    *)
(* with a trace, under the Rand policy: any frame may be the victim, and   *)
(* OnRef does nothing.  The other policies choose among the same victims;  *)
(* their modules conjoin their own state to the actions defined here.      *)
(*                                                                         *)
(* The trace is the environment.  It is well formed: a read carries the    *)
(* value most recently written to its address, 0 if none (HANDOUT.md,      *)
(* "Traces").  Page offsets run from 0 to MAX_OFFSET.                      *)
(***************************************************************************)
EXTENDS MemoryManager, FiniteSets

CONSTANTS
  MAX_OFFSET,   \* largest page offset in the trace
  AccessTypes   \* the access types that occur in the trace

(* CSC369_TraceRead lets no larger offset through (csc369_trace.c:103).    *)
ASSUME MaxOffsetAssumption == MAX_OFFSET \in 0 .. FRAME_SIZE
ASSUME AccessTypesAssumption == AccessTypes \subseteq {"S", "M", "L", "I"}

VARIABLES
  written,      \* trace: the value last written to each page and offset
  error,        \* "Data at address ... should have been ..." was logged
  status        \* "running", "done" (trace over) or "aborted" (assertion)

simVars == <<written, error, status>>
vars == <<mmVars, simVars>>

TraceOffsets == 0 .. MAX_OFFSET

Accesses == [type : AccessTypes, page : Pages,
             offset : TraceOffsets, value : Values]

IsWrite(a) == a.type \in {"S", "M"}

WellFormed(a) == IsWrite(a) \/ a.value = written[a.page][a.offset]

TypeOK ==
  /\ MMTypeOK
  /\ written \in [Pages -> [TraceOffsets -> Values]]
  /\ error \in BOOLEAN
  /\ status \in {"running", "done", "aborted"}

Init ==
  /\ MMCreate
  /\ written = [p \in Pages |-> [o \in TraceOffsets |-> 0]]
  /\ error = FALSE
  /\ status = "running"

-----------------------------------------------------------------------------
(* The byte at an offset of frame f.  Offset FRAME_SIZE is the first byte  *)
(* of the next frame, or, after the last frame, outside physical memory.   *)
ByteFrame(f, o) == IF o < FRAME_SIZE THEN f ELSE f + 1
ByteOffset(o) == IF o < FRAME_SIZE THEN o ELSE 0

(* The rest of ExecuteMemInstruction once frame f is known and physical    *)
(* memory is mem.  Outside mem a write is lost and a read yields anything. *)
Touch(a, f, mem) ==
  LET g == ByteFrame(f, a.offset)
      b == ByteOffset(a.offset)
  IN  IF IsWrite(a)
        THEN /\ physmem' = IF g \in Frames THEN [mem EXCEPT ![g][b] = a.value]
                                           ELSE mem
             /\ written' = [written EXCEPT ![a.page][a.offset] = a.value]
             /\ UNCHANGED error
        ELSE /\ physmem' = mem
             /\ \E actual \in IF g \in Frames THEN {mem[g][b]} ELSE Values :
                  error' = (error \/ actual # a.value)
             /\ UNCHANGED written

(* An access to a resident page.                                           *)
Hit(a) ==
  /\ MMHit(a.page, IsWrite(a))
  /\ Touch(a, pte[a.page].frame_number, physmem)
  /\ UNCHANGED status

(* An access to a page that is not resident, once it has frame f.          *)
Fill(a, f, table, counters) ==
  \/ /\ MMZeroFill(a.page, f, table, counters)
     /\ Touch(a, f, [physmem EXCEPT ![f] = ZeroFrame])
     /\ UNCHANGED status
  \/ /\ MMPageIn(a.page, f, table, counters, IsWrite(a))
     /\ \E content \in CSC369_SwapPageIn(swapfile', physmem[f],
                                         table[a.page].swap_offset) :
          Touch(a, f, [physmem EXCEPT ![f] = content])
     /\ UNCHANGED status
  \/ /\ MMPageInAborts(a.page, f, table, counters)
     /\ status' = "aborted"
     /\ UNCHANGED <<written, error>>

MissFree(a) ==
  /\ ~pte[a.page].valid
  /\ \E f \in Frames : AllocateFree(f) /\ Fill(a, f, pte, {})

MissEvict(a, f) ==
  /\ ~pte[a.page].valid
  /\ \E offset \in SwapOffsets \cup {CSC369_INVALID_SWAP} :
       /\ AllocateEvict(f, offset)
       /\ Fill(a, f, EvictedTable(frames[f], offset), {EvictCounter(frames[f])})

(* The frames CSC369_PolicyRandEvict may return: any.                      *)
CSC369_PolicyRandEvict == Frames

(* The trace is at its end.                                                *)
TraceEnd ==
  /\ status = "running"
  /\ status' = "done"
  /\ UNCHANGED <<mmVars, written, error>>

Terminated == status # "running" /\ UNCHANGED vars

Next ==
  \/ \E a \in Accesses :
       /\ status = "running"
       /\ WellFormed(a)
       /\ \/ Hit(a)
          \/ MissFree(a)
          \/ \E f \in CSC369_PolicyRandEvict : MissEvict(a, f)
  \/ TraceEnd
  \/ Terminated

Spec == Init /\ [][Next]_vars

-----------------------------------------------------------------------------
(* Environments under which the stronger properties are claimed.           *)

(* Every offset of the trace lies inside a simulated frame, as HANDOUT.md  *)
(* promises of the traces.                                                 *)
TraceInsideFrame == MAX_OFFSET < FRAME_SIZE

(* Reads and writes of the swap file always transfer a whole page.         *)
ReliableDisk == Transfers = {FRAME_SIZE}

(* The swap is as large as HANDOUT.md asks for: one slot per unique page.  *)
SwapLargeEnough == IsFiniteSet(Pages) /\ SWAPSIZE >= Cardinality(Pages)
-----------------------------------------------------------------------------
(* Properties *)

(* The coremap and the page table agree: a valid entry names the frame     *)
(* that points back to it, and a frame in use points to a valid entry that *)
(* names it.  Evict, MMHandleEviction and every translation rely on it.    *)
CoremapConsistent ==
  status # "aborted" =>
    /\ \A p \in Pages : pte[p].valid => frames[pte[p].frame_number] = p
    /\ \A f \in Frames : frames[f] # NULL =>
         pte[frames[f]].valid /\ pte[frames[f]].frame_number = f

(* A swap slot belongs to at most one page, and its bit is set, whatever   *)
(* the disk does: pages never overwrite each other's copy.                 *)
SlotsExclusive ==
  \A p \in Pages : pte[p].swap_offset # CSC369_INVALID_SWAP =>
    /\ \E idx \in swapmap : pte[p].swap_offset = SlotOffset(idx)
    /\ \A q \in Pages : pte[q].swap_offset = pte[p].swap_offset => q = p

(* The two possibilities of HANDOUT.md when a page is evicted: it is dirty *)
(* and must be written, or it is clean and the swap holds the same bytes.  *)
CleanHasCopy ==
  \A p \in Pages : pte[p].valid /\ ~pte[p].dirty =>
    /\ pte[p].swap_offset # CSC369_INVALID_SWAP
    /\ swapfile[pte[p].swap_offset] = physmem[pte[p].frame_number]

(* Every read sees the value most recently written to its address, even    *)
(* when the swap is too small: a lost page is never read.                  *)
NoMismatch == ~error

(* Frames are accounted for by misses: each miss took a free frame or      *)
(* evicted a page; each completed access was a hit or a miss.  Counters    *)
(* wrap, so the sums are compared modulo COUNTER_MOD.                      *)
StatsBalance ==
  /\ stats["miss"] = (Cardinality(Frames \ FreeFrames) + stats["evict_clean"]
                       + stats["evict_dirty"]) % COUNTER_MOD
  /\ status # "aborted" =>
       stats["ref"] = (stats["hit"] + stats["miss"]) % COUNTER_MOD

(* With a swap as large as HANDOUT.md asks for, no page-out ever fails and *)
(* the assertion in SwapPageIn never fires.                                *)
NeverAborts == status # "aborted"

(* A page keeps the swap slot it was given first: swap space is consumed   *)
(* once per page, however often the page is evicted.                       *)
SlotsStable ==
  [][\A p \in Pages : pte[p].swap_offset # CSC369_INVALID_SWAP =>
       pte'[p].swap_offset = pte[p].swap_offset]_vars

(* HANDOUT.md: when the swap is full and a page must be evicted "there is  *)
(* nothing you can do in this scenario but exit".                          *)
ExitsWhenSwapFull ==
  status = "running" =>
    \A p \in Pages : pte[p].on_swap => pte[p].swap_offset # CSC369_INVALID_SWAP

(* csc369_mm.h: a page on swap is given a frame "filled by reading the     *)
(* page data from swap".  HANDOUT.md: the page offsets of a trace "fit in  *)
(* the reduced simulated physical page frames", so an access touches no    *)
(* other page.  A resident page therefore holds what was written to it.    *)
ResidentHoldsData ==
  \A p \in Pages : pte[p].valid =>
    \A o \in TraceOffsets \cap Offsets :
      physmem[pte[p].frame_number][o] = written[p][o]
-----------------------------------------------------------------------------
(* Refinement.  The virtual memory that the page table, physical memory    *)
(* and the swap file together represent.                                   *)
VirtualMemory ==
  [p \in Pages |-> IF pte[p].valid THEN physmem[pte[p].frame_number]
                   ELSE IF pte[p].on_swap THEN swapfile[pte[p].swap_offset]
                   ELSE ZeroFrame]

Flat == INSTANCE FlatMemory WITH mem <- VirtualMemory

(* Demand paging is invisible: virtual memory changes only by the byte a   *)
(* store of the trace asks for, never by a fault, an eviction, a page-out  *)
(* or a page-in.                                                           *)
ImplementsFlatMemory == Flat!FlatSpec
=============================================================================
