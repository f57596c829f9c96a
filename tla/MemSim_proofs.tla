--------------------------- MODULE MemSim_proofs ---------------------------
(***************************************************************************)
(* Proofs about MemSim for every memory size, swap size, frame size, set   *)
(* of pages and set of byte values; that it loses no page when the         *)
(* swap is as large as HANDOUT.md asks for, and then implements            *)
(* FlatMemory.  At the end the lemmas about lists that Clock and S2Q use.  *)
(***************************************************************************)
EXTENDS MemSim, FiniteSetTheorems, FunctionTheorems, WellFoundedInduction, TLAPS

(* Every constant assumption of the model.                                 *)
LEMMA Constants ==
  /\ SWAPSIZE \in Nat \ {0} /\ FRAME_SIZE \in Nat \ {0} /\ 0 \in Values
  /\ Transfers \subseteq 0 .. FRAME_SIZE /\ FRAME_SIZE \in Transfers
  /\ MEMSIZE \in Nat \ {0} /\ NULL \notin Pages /\ COUNTER_MOD \in Nat \ {0}
  /\ MAX_OFFSET \in 0 .. FRAME_SIZE
BY SwapSizeAssumption, FrameSizeAssumption, ValuesAssumption,
   TransfersAssumption, MemSizeAssumption, NullAssumption, CounterAssumption,
   MaxOffsetAssumption

-----------------------------------------------------------------------------
(* Swap space *)

(* Copying bytes between frames yields a frame.                            *)
LEMMA CopyType ==
  ASSUME NEW src \in Contents, NEW dst \in Contents, NEW n
  PROVE  Copy(src, dst, n) \in Contents
BY DEF Copy, Contents

(* Copying a whole frame yields that frame.                                *)
LEMMA CopyWhole ==
  ASSUME NEW src \in Contents, NEW dst \in Contents
  PROVE  Copy(src, dst, FRAME_SIZE) = src
BY Constants DEF Copy, Contents, Offsets

LEMMA ZeroFrameType == ZeroFrame \in Contents
BY Constants DEF ZeroFrame, Contents

(* The position of a slot is a natural number, so never the invalid mark.  *)
LEMMA SlotOffsetType ==
  ASSUME NEW idx \in Slots
  PROVE  /\ SlotOffset(idx) \in Nat
         /\ SlotOffset(idx) # CSC369_INVALID_SWAP
         /\ SlotOffset(idx) \in SwapOffsets
<1>1. idx \in Nat /\ FRAME_SIZE \in Nat
  BY Constants DEF Slots
<1>2. idx * FRAME_SIZE \in Nat
  BY <1>1
<1> QED
  BY <1>2 DEF SlotOffset, SwapOffsets, CSC369_INVALID_SWAP

(* Two slots never have the same position.                                 *)
LEMMA SlotOffsetInjective ==
  ASSUME NEW i \in Slots, NEW j \in Slots, SlotOffset(i) = SlotOffset(j)
  PROVE  i = j
<1>1. i \in Nat /\ j \in Nat /\ FRAME_SIZE \in Nat /\ FRAME_SIZE > 0
  BY Constants DEF Slots
<1>2. ASSUME NEW x \in Nat, NEW y \in Nat, x < y
      PROVE  x * FRAME_SIZE < y * FRAME_SIZE
  <2>1. y = x + (y - x) /\ y - x \in Nat /\ y - x >= 1
    BY <1>2
  <2>2. y * FRAME_SIZE = x * FRAME_SIZE + (y - x) * FRAME_SIZE
    BY <2>1, <1>1
  <2>3. (y - x) * FRAME_SIZE >= FRAME_SIZE
    BY <2>1, <1>1
  <2>4. x * FRAME_SIZE \in Nat /\ y * FRAME_SIZE \in Nat
        /\ (y - x) * FRAME_SIZE \in Nat
    BY <2>1, <1>1
  <2> QED
    BY <2>2, <2>3, <2>4, <1>1
<1>3. i * FRAME_SIZE = j * FRAME_SIZE
  BY DEF SlotOffset
<1>4. i * FRAME_SIZE \in Nat /\ j * FRAME_SIZE \in Nat
  BY <1>1
<1>5. ~(i < j) /\ ~(j < i)
  BY <1>1, <1>2, <1>3, <1>4
<1> QED
  BY <1>1, <1>5

(* A page-out keeps the swap space well typed.                             *)
LEMMA SwapPageOutType ==
  ASSUME SwapTypeOK, NEW content \in Contents, NEW offset, NEW result,
         CSC369_SwapPageOut(content, offset, result)
  PROVE  SwapTypeOK'
<1>1. CASE UNCHANGED swapVars
  BY <1>1 DEF SwapTypeOK, swapVars
<1>2. ASSUME NEW idx \in Slots, NEW n \in Transfers,
             swapmap' = IF offset = CSC369_INVALID_SWAP
                          THEN swapmap \cup {idx} ELSE swapmap,
             swapfile' = [swapfile EXCEPT
                            ![SlotOffset(idx)] = Copy(content, @, n)]
      PROVE  SwapTypeOK'
  <2>1. swapmap' \in SUBSET Slots
    BY <1>2 DEF SwapTypeOK
  <2>2. SlotOffset(idx) \in SwapOffsets
    BY SlotOffsetType
  <2>3. Copy(content, swapfile[SlotOffset(idx)], n) \in Contents
    BY <2>2, CopyType DEF SwapTypeOK
  <2>4. swapfile' \in [SwapOffsets -> Contents]
    BY <1>2, <2>2, <2>3 DEF SwapTypeOK
  <2> QED
    BY <2>1, <2>4 DEF SwapTypeOK
<1> QED
  BY <1>1, <1>2 DEF CSC369_SwapPageOut

-----------------------------------------------------------------------------
(* Type correctness *)

(* Counting keeps every counter within its range.                          *)
LEMMA CountType ==
  ASSUME stats \in CSC369_MMStats, NEW C
  PROVE  Count(C) \in CSC369_MMStats
<1>1. ASSUME NEW n \in 0 .. COUNTER_MOD - 1
      PROVE  (n + 1) % COUNTER_MOD \in 0 .. COUNTER_MOD - 1
  BY Constants
<1> QED
  BY <1>1 DEF Count, CSC369_MMStats

(* The byte an access touches lies within a frame.                         *)
LEMMA ByteOffsetType ==
  ASSUME NEW o \in TraceOffsets
  PROVE  ByteOffset(o) \in Offsets
BY Constants DEF ByteOffset, TraceOffsets, Offsets

(* The access itself, once the frame is known and mem is well typed.       *)
LEMMA TouchType ==
  ASSUME TypeOK, NEW a \in Accesses, NEW f \in Frames,
         NEW mem \in [Frames -> Contents], Touch(a, f, mem)
  PROVE  /\ physmem' \in [Frames -> Contents]
         /\ written' \in [Pages -> [TraceOffsets -> Values]]
         /\ error' \in BOOLEAN
<1>1. /\ a.page \in Pages /\ a.offset \in TraceOffsets /\ a.value \in Values
  BY DEF Accesses
<1>2. ByteOffset(a.offset) \in Offsets
  BY <1>1, ByteOffsetType
<1>3. CASE IsWrite(a)
  <2>1. physmem' \in [Frames -> Contents]
    BY <1>1, <1>2, <1>3 DEF Touch, Contents
  <2>2. written' \in [Pages -> [TraceOffsets -> Values]]
    BY <1>1, <1>3 DEF Touch, TypeOK
  <2> QED
    BY <2>1, <2>2, <1>3 DEF Touch, TypeOK
<1>4. CASE ~IsWrite(a)
  BY <1>4 DEF Touch, TypeOK
<1> QED
  BY <1>3, <1>4

(* Serving a miss in frame f keeps the state well typed.                   *)
LEMMA FillType ==
  ASSUME TypeOK, SwapTypeOK', status = "running", NEW a \in Accesses,
         NEW f \in Frames, NEW table \in [Pages -> PTE], NEW counters,
         Fill(a, f, table, counters)
  PROVE  TypeOK'
<1>1. a.page \in Pages
  BY DEF Accesses
<1>2. frames' = [frames EXCEPT ![f] = a.page]
  BY DEF Fill, MMZeroFill, MMPageIn, MMPageInAborts
<1>3. frames' \in [Frames -> Pages \cup {NULL}]
  BY <1>1, <1>2 DEF TypeOK, MMTypeOK
<1>4. stats' \in CSC369_MMStats
  BY CountType DEF Fill, MMZeroFill, MMPageIn, MMPageInAborts, TypeOK, MMTypeOK
<1>5. table[a.page] \in PTE
  BY <1>1
<1>6. pte' \in [Pages -> PTE]
  <2>1. CASE MMZeroFill(a.page, f, table, counters)
    BY <2>1, <1>1, <1>5 DEF MMZeroFill, PTE
  <2>2. CASE MMPageIn(a.page, f, table, counters, IsWrite(a))
    <3>1. IsWrite(a) \in BOOLEAN
      BY DEF IsWrite
    <3> QED
      BY <2>2, <3>1, <1>1, <1>5 DEF MMPageIn, PTE
  <2>3. CASE MMPageInAborts(a.page, f, table, counters)
    BY <2>3, <1>1, <1>5 DEF MMPageInAborts, PTE
  <2> QED
    BY <2>1, <2>2, <2>3 DEF Fill
<1>7. /\ physmem' \in [Frames -> Contents]
      /\ written' \in [Pages -> [TraceOffsets -> Values]]
      /\ error' \in BOOLEAN
      /\ status' \in {"running", "done", "aborted"}
  <2>1. physmem \in [Frames -> Contents]
    BY DEF TypeOK, MMTypeOK
  <2>2. CASE /\ Touch(a, f, [physmem EXCEPT ![f] = ZeroFrame])
             /\ UNCHANGED status
    <3>1. [physmem EXCEPT ![f] = ZeroFrame] \in [Frames -> Contents]
      BY <2>1, ZeroFrameType
    <3> QED
      BY <2>2, <3>1, TouchType DEF TypeOK
  <2>3. CASE /\ MMPageIn(a.page, f, table, counters, IsWrite(a))
             /\ \E content \in CSC369_SwapPageIn(swapfile', physmem[f],
                                                 table[a.page].swap_offset) :
                  Touch(a, f, [physmem EXCEPT ![f] = content])
             /\ UNCHANGED status
    <3>1. PICK content \in CSC369_SwapPageIn(swapfile', physmem[f],
                                             table[a.page].swap_offset) :
            Touch(a, f, [physmem EXCEPT ![f] = content])
      BY <2>3
    <3>2. table[a.page].swap_offset \in SwapOffsets
      BY <2>3, <1>5 DEF MMPageIn, PTE
    <3>3. swapfile'[table[a.page].swap_offset] \in Contents
      BY <3>2 DEF SwapTypeOK
    <3>4. content \in Contents
      BY <3>1, <3>3, <2>1, CopyType DEF CSC369_SwapPageIn
    <3>5. [physmem EXCEPT ![f] = content] \in [Frames -> Contents]
      BY <2>1, <3>4
    <3> QED
      BY <2>3, <3>1, <3>5, TouchType DEF TypeOK
  <2>4. CASE /\ MMPageInAborts(a.page, f, table, counters)
             /\ status' = "aborted"
             /\ UNCHANGED <<written, error>>
    BY <2>4, <2>1 DEF MMPageInAborts, TypeOK
  <2> QED
    BY <2>2, <2>3, <2>4 DEF Fill
<1> QED
  BY <1>3, <1>4, <1>6, <1>7 DEF TypeOK, MMTypeOK

(* The victim's entry is well typed after its eviction.                    *)
LEMMA EvictedTableType ==
  ASSUME TypeOK, NEW v \in Pages,
         NEW offset \in SwapOffsets \cup {CSC369_INVALID_SWAP}
  PROVE  EvictedTable(v, offset) \in [Pages -> PTE]
<1>1. pte[v] \in PTE
  BY DEF TypeOK, MMTypeOK
<1> QED
  BY <1>1 DEF TypeOK, MMTypeOK, EvictedTable, PTE

(* When no frame is free, every frame holds a page.                        *)
LEMMA FullMemory ==
  ASSUME TypeOK, FreeFrames = {}, NEW f \in Frames
  PROVE  frames[f] \in Pages
BY DEF TypeOK, MMTypeOK, FreeFrames

(* A miss that does not abort leaves the page resident in its frame.       *)
LEMMA FillPlaces ==
  ASSUME NEW a \in Accesses, NEW f \in Frames, NEW table \in [Pages -> PTE],
         NEW counters, Fill(a, f, table, counters), status' # "aborted"
  PROVE  /\ pte'[a.page].valid /\ pte'[a.page].frame_number = f
         /\ frames' = [frames EXCEPT ![f] = a.page]
<1>1. a.page \in Pages /\ table[a.page] \in PTE
  BY DEF Accesses
<1>2. MMZeroFill(a.page, f, table, counters)
      \/ MMPageIn(a.page, f, table, counters, IsWrite(a))
  BY DEF Fill
<1> QED
  BY <1>1, <1>2 DEF MMZeroFill, MMPageIn, PTE

(* The steps of an access, as the invariants are proved for them.          *)
AccessStep ==
  \E a \in Accesses :
    /\ status = "running"
    /\ WellFormed(a)
    /\ Hit(a) \/ MissFree(a) \/ \E f \in Frames : MissEvict(a, f)

(* A step is an access, the end of the trace, or leaves all as it is.      *)
LEMMA NextCases ==
  ASSUME [Next]_vars
  PROVE  \/ AccessStep
         \/ /\ status = "running" /\ status' = "done"
            /\ UNCHANGED <<mmVars, written, error>>
         \/ UNCHANGED <<mmVars, written, error, status>>
BY DEF Next, AccessStep, CSC369_PolicyRandEvict, TraceEnd, Terminated, vars,
       simVars

(* Every step keeps the state well typed.                                  *)
LEMMA TypeStep ==
  ASSUME TypeOK, [Next]_vars
  PROVE  TypeOK'
<1>1. CASE AccessStep
  <2>1. PICK a \in Accesses :
          /\ status = "running"
          /\ Hit(a) \/ MissFree(a) \/ \E f \in Frames : MissEvict(a, f)
    BY <1>1 DEF AccessStep
  <2>2. a.page \in Pages /\ pte[a.page] \in PTE /\ physmem \in [Frames -> Contents]
    BY DEF Accesses, TypeOK, MMTypeOK
  <2>3. CASE Hit(a)
    <3>1. pte[a.page].frame_number \in Frames
      BY <2>2 DEF PTE
    <3>2. /\ physmem' \in [Frames -> Contents]
          /\ written' \in [Pages -> [TraceOffsets -> Values]]
          /\ error' \in BOOLEAN
      BY <2>2, <2>3, <3>1, TouchType DEF Hit
    <3>3. stats' \in CSC369_MMStats
      BY <2>3, CountType DEF Hit, MMHit, TypeOK, MMTypeOK
    <3>4. IsWrite(a) \in BOOLEAN
      BY DEF IsWrite
    <3>5. pte' \in [Pages -> PTE]
      BY <2>2, <2>3, <3>4 DEF Hit, MMHit, TypeOK, MMTypeOK, PTE
    <3> QED
      BY <2>3, <3>2, <3>3, <3>5 DEF Hit, MMHit, TypeOK, MMTypeOK, SwapTypeOK
  <2>4. CASE MissFree(a)
    <3>1. PICK f \in Frames : AllocateFree(f) /\ Fill(a, f, pte, {})
      BY <2>4 DEF MissFree
    <3>2. SwapTypeOK' /\ pte \in [Pages -> PTE]
      BY <3>1 DEF AllocateFree, TypeOK, MMTypeOK, SwapTypeOK, swapVars
    <3> QED
      BY <2>1, <3>1, <3>2, FillType
  <2>5. ASSUME NEW f \in Frames, MissEvict(a, f)
        PROVE  TypeOK'
    <3>1. PICK offset \in SwapOffsets \cup {CSC369_INVALID_SWAP} :
            /\ AllocateEvict(f, offset)
            /\ Fill(a, f, EvictedTable(frames[f], offset),
                    {EvictCounter(frames[f])})
      BY <2>5 DEF MissEvict
    <3>2. frames[f] \in Pages
      BY <3>1, FullMemory DEF AllocateEvict
    <3>3. EvictedTable(frames[f], offset) \in [Pages -> PTE]
      BY <3>2, EvictedTableType
    <3>4. physmem[pte[frames[f]].frame_number] \in Contents
      BY <3>2 DEF TypeOK, MMTypeOK, PTE
    <3>5. SwapTypeOK'
      BY <3>1, <3>4, SwapPageOutType
      DEF AllocateEvict, CSC369_MMHandleEviction, TypeOK, MMTypeOK
    <3> QED
      BY <2>1, <3>1, <3>3, <3>5, FillType
  <2> QED
    BY <2>1, <2>3, <2>4, <2>5
<1>2. CASE UNCHANGED <<mmVars, written, error>> /\ status' = "done"
  BY <1>2 DEF TypeOK, MMTypeOK, SwapTypeOK, mmVars
<1>3. CASE UNCHANGED <<mmVars, written, error, status>>
  BY <1>3 DEF TypeOK, MMTypeOK, SwapTypeOK, mmVars
<1> QED
  BY <1>1, <1>2, <1>3, NextCases

LEMMA TypeInit == Init => TypeOK
<1> SUFFICES ASSUME Init PROVE TypeOK
  OBVIOUS
<1>1. SwapTypeOK
  BY ZeroFrameType DEF Init, MMCreate, SwapCreate, SwapTypeOK
<1>2. pte \in [Pages -> PTE]
  BY Constants DEF Init, MMCreate, CSC369_PTECreate, PTE, Frames
<1>3. stats \in CSC369_MMStats
  BY Constants DEF Init, MMCreate, CSC369_MMStats
<1> QED
  BY <1>1, <1>2, <1>3, ZeroFrameType, Constants
  DEF Init, MMCreate, CSC369_CoremapCreate, TypeOK, MMTypeOK

(* The state of the simulator is always well typed, whatever the disk does *)
(* and however small the swap is: no counter leaves its width, no entry    *)
(* names a frame or a slot that does not exist.                            *)
THEOREM TypeCorrect == Spec => []TypeOK
<1>1. TypeOK /\ [Next]_vars => TypeOK'
  BY TypeStep
<1> QED
  BY TypeInit, <1>1, PTL DEF Spec

-----------------------------------------------------------------------------
(* The coremap and the page table agree *)

(* Frame f is at no page's disposal in table, and off f coremap and table  *)
(* agree: the state in which CSC369_CoremapAllocateFrame hands out f.      *)
FrameAvailable(f, table) ==
  /\ \A q \in Pages : table[q].valid =>
       frames[table[q].frame_number] = q /\ table[q].frame_number # f
  /\ \A g \in Frames \ {f} : frames[g] # NULL =>
       table[frames[g]].valid /\ table[frames[g]].frame_number = g

(* A free frame is available.                                              *)
LEMMA FreeFrameAvailable ==
  ASSUME TypeOK, CoremapConsistent, status = "running", NEW f \in Frames,
         AllocateFree(f)
  PROVE  FrameAvailable(f, pte)
BY Constants
DEF CoremapConsistent, FrameAvailable, AllocateFree, FindFreeFrame, FreeFrames,
    TypeOK, MMTypeOK

(* The frame of an evicted page is available.                              *)
LEMMA EvictedFrameAvailable ==
  ASSUME TypeOK, CoremapConsistent, status = "running", NEW f \in Frames,
         FreeFrames = {}, NEW offset
  PROVE  FrameAvailable(f, EvictedTable(frames[f], offset))
<1>1. /\ frames[f] \in Pages /\ frames[f] # NULL
      /\ pte[frames[f]].valid /\ pte[frames[f]].frame_number = f
  BY Constants, FullMemory DEF CoremapConsistent
<1> DEFINE T == EvictedTable(frames[f], offset)
<1>2. ~T[frames[f]].valid
  BY <1>1 DEF EvictedTable, TypeOK, MMTypeOK, PTE
<1>3. \A q \in Pages : q # frames[f] => T[q] = pte[q]
  BY <1>1 DEF EvictedTable, TypeOK, MMTypeOK
<1>4. ASSUME NEW q \in Pages, T[q].valid
      PROVE  frames[T[q].frame_number] = q /\ T[q].frame_number # f
  BY <1>1, <1>2, <1>3, <1>4 DEF CoremapConsistent
<1>5. ASSUME NEW g \in Frames \ {f}, frames[g] # NULL
      PROVE  T[frames[g]].valid /\ T[frames[g]].frame_number = g
  <2>1. frames[g] \in Pages /\ pte[frames[g]].valid
        /\ pte[frames[g]].frame_number = g
    BY <1>5 DEF CoremapConsistent, TypeOK, MMTypeOK
  <2>2. frames[g] # frames[f]
    BY <2>1, <1>1
  <2> QED
    BY <2>1, <2>2, <1>3
<1> QED
  BY <1>4, <1>5 DEF FrameAvailable

(* Handing out an available frame keeps coremap and table in agreement.    *)
LEMMA FillConsistent ==
  ASSUME TypeOK, status = "running", NEW a \in Accesses, NEW f \in Frames,
         NEW table \in [Pages -> PTE], NEW counters, ~table[a.page].valid,
         FrameAvailable(f, table), Fill(a, f, table, counters)
  PROVE  CoremapConsistent'
<1>1. a.page \in Pages /\ table[a.page] \in PTE
      /\ frames \in [Frames -> Pages \cup {NULL}]
  BY DEF Accesses, TypeOK, MMTypeOK
<1>2. CASE status' = "aborted"
  BY <1>2 DEF CoremapConsistent
<1>3. CASE status' # "aborted"
  <2>1. /\ frames' = [frames EXCEPT ![f] = a.page]
        /\ pte'[a.page].valid /\ pte'[a.page].frame_number = f
        /\ \A q \in Pages : q # a.page => pte'[q] = table[q]
    BY <1>1, <1>3 DEF Fill, MMZeroFill, MMPageIn, PTE
  <2>2. ASSUME NEW q \in Pages, pte'[q].valid
        PROVE  frames'[pte'[q].frame_number] = q
    <3>1. CASE q = a.page
      BY <3>1, <2>1, <1>1
    <3>2. CASE q # a.page
      BY <3>2, <2>1, <2>2, <1>1 DEF FrameAvailable, PTE
    <3> QED
      BY <3>1, <3>2
  <2>3. ASSUME NEW g \in Frames, frames'[g] # NULL
        PROVE  pte'[frames'[g]].valid /\ pte'[frames'[g]].frame_number = g
    <3>1. CASE g = f
      BY <3>1, <2>1, <1>1
    <3>2. CASE g # f
      <4>1. frames'[g] = frames[g] /\ frames[g] \in Pages
        BY <3>2, <2>1, <2>3, <1>1
      <4>2. table[frames[g]].valid /\ table[frames[g]].frame_number = g
        BY <3>2, <4>1, <2>3 DEF FrameAvailable
      <4> QED
        BY <4>1, <4>2, <2>1
    <3> QED
      BY <3>1, <3>2
  <2> QED
    BY <2>2, <2>3 DEF CoremapConsistent
<1> QED
  BY <1>2, <1>3

(* An access keeps coremap and page table in agreement.                    *)
LEMMA ConsistentStep ==
  ASSUME TypeOK, CoremapConsistent, [Next]_vars
  PROVE  CoremapConsistent'
<1>1. CASE AccessStep
  <2>1. PICK a \in Accesses :
          /\ status = "running"
          /\ Hit(a) \/ MissFree(a) \/ \E f \in Frames : MissEvict(a, f)
    BY <1>1 DEF AccessStep
  <2>2. a.page \in Pages /\ pte \in [Pages -> PTE]
    BY DEF Accesses, TypeOK, MMTypeOK
  <2>3. CASE Hit(a)
    <3>1. /\ frames' = frames /\ status' = status
          /\ \A q \in Pages : /\ pte'[q].valid = pte[q].valid
                              /\ pte'[q].frame_number = pte[q].frame_number
      BY <2>2, <2>3 DEF Hit, MMHit, PTE
    <3> QED
      BY <3>1, <2>1 DEF CoremapConsistent, TypeOK, MMTypeOK
  <2>4. CASE MissFree(a)
    <3>1. PICK f \in Frames : AllocateFree(f) /\ Fill(a, f, pte, {})
      BY <2>4 DEF MissFree
    <3>2. ~pte[a.page].valid
      BY <2>4 DEF MissFree
    <3> QED
      BY <3>1, <3>2, <2>1, <2>2, FreeFrameAvailable, FillConsistent
  <2>5. ASSUME NEW f \in Frames, MissEvict(a, f)
        PROVE  CoremapConsistent'
    <3>1. PICK offset \in SwapOffsets \cup {CSC369_INVALID_SWAP} :
            /\ AllocateEvict(f, offset)
            /\ Fill(a, f, EvictedTable(frames[f], offset),
                    {EvictCounter(frames[f])})
      BY <2>5 DEF MissEvict
    <3>2. frames[f] \in Pages /\ FreeFrames = {}
      BY <3>1, FullMemory DEF AllocateEvict
    <3>3. ~EvictedTable(frames[f], offset)[a.page].valid
      BY <2>5, <2>2, <3>2 DEF MissEvict, EvictedTable, PTE
    <3> QED
      BY <3>1, <3>2, <3>3, <2>1, EvictedTableType, EvictedFrameAvailable,
         FillConsistent
  <2> QED
    BY <2>1, <2>3, <2>4, <2>5
<1>2. CASE UNCHANGED <<mmVars, written, error>>
           /\ status = "running" /\ status' = "done"
  BY <1>2 DEF CoremapConsistent, mmVars
<1>3. CASE UNCHANGED <<mmVars, written, error, status>>
  BY <1>3 DEF CoremapConsistent, mmVars
<1> QED
  BY <1>1, <1>2, <1>3, NextCases

(* A valid entry and the frame it names always point to each other: no     *)
(* two resident pages share a frame, whatever victims the policy picks and *)
(* whatever page-outs and page-ins fail.                                   *)
THEOREM CoremapCorrect == Spec => []CoremapConsistent
<1>1. Init => CoremapConsistent
  BY DEF Init, MMCreate, CSC369_CoremapCreate, CSC369_PTECreate,
         CoremapConsistent
<1>2. TypeOK /\ CoremapConsistent /\ [Next]_vars => CoremapConsistent'
  BY ConsistentStep
<1> QED
  BY <1>1, <1>2, TypeCorrect, PTL DEF Spec

-----------------------------------------------------------------------------
(* Swap slots have one owner *)

(* Every slot named in table is marked used in map and named only once.    *)
SlotsOwned(table, map) ==
  \A p \in Pages : table[p].swap_offset # CSC369_INVALID_SWAP =>
    /\ \E idx \in map : table[p].swap_offset = SlotOffset(idx)
    /\ \A q \in Pages : table[q].swap_offset = table[p].swap_offset => q = p

(* After the page-out of v to result, slots still have one owner.          *)
LEMMA EvictedSlotsOwned ==
  ASSUME TypeOK, SlotsExclusive, NEW v \in Pages, NEW content, NEW result,
         CSC369_SwapPageOut(content, pte[v].swap_offset, result)
  PROVE  SlotsOwned(EvictedTable(v, result), swapmap')
<1> DEFINE T == EvictedTable(v, result)
<1>1. /\ T[v].swap_offset = result
      /\ \A q \in Pages : q # v => T[q].swap_offset = pte[q].swap_offset
  BY DEF EvictedTable, TypeOK, MMTypeOK, PTE
<1>2. swapmap \subseteq swapmap' /\ swapmap \subseteq Slots
  BY DEF CSC369_SwapPageOut, swapVars, TypeOK, MMTypeOK, SwapTypeOK
<1>3. ASSUME result # CSC369_INVALID_SWAP
      PROVE  /\ \E idx \in swapmap' : result = SlotOffset(idx)
             /\ \A q \in Pages : q # v => pte[q].swap_offset # result
  <2>1. PICK idx \in Slots, n \in Transfers :
          /\ IF pte[v].swap_offset = CSC369_INVALID_SWAP
               THEN CSC369_BitmapAlloc(idx)
               ELSE pte[v].swap_offset = SlotOffset(idx)
          /\ swapmap' = IF pte[v].swap_offset = CSC369_INVALID_SWAP
                          THEN swapmap \cup {idx} ELSE swapmap
          /\ result = SlotOffset(idx)
    BY <1>3 DEF CSC369_SwapPageOut
  <2>2. CASE pte[v].swap_offset = CSC369_INVALID_SWAP
    <3>1. idx \notin swapmap /\ idx \in swapmap'
      BY <2>1, <2>2 DEF CSC369_BitmapAlloc
    <3>2. ASSUME NEW q \in Pages, pte[q].swap_offset = result
          PROVE  FALSE
      <4>1. PICK j \in swapmap : pte[q].swap_offset = SlotOffset(j)
        BY <3>2, <1>3 DEF SlotsExclusive
      <4>2. j = idx
        BY <4>1, <3>2, <2>1, <1>2, SlotOffsetInjective
      <4> QED
        BY <4>1, <4>2, <3>1
    <3> QED
      BY <2>1, <3>1, <3>2
  <2>3. CASE pte[v].swap_offset # CSC369_INVALID_SWAP
    BY <2>1, <2>3, <1>2 DEF SlotsExclusive
  <2> QED
    BY <2>2, <2>3
<1>4. ASSUME NEW p \in Pages, T[p].swap_offset # CSC369_INVALID_SWAP
      PROVE  /\ \E idx \in swapmap' : T[p].swap_offset = SlotOffset(idx)
             /\ \A q \in Pages : T[q].swap_offset = T[p].swap_offset => q = p
  <2>1. CASE p = v
    BY <2>1, <1>1, <1>3, <1>4
  <2>2. CASE p # v
    <3>1. pte[p].swap_offset = T[p].swap_offset
      BY <2>2, <1>1
    <3>2. \E idx \in swapmap' : T[p].swap_offset = SlotOffset(idx)
      BY <3>1, <1>2, <1>4 DEF SlotsExclusive
    <3>3. ASSUME NEW q \in Pages, T[q].swap_offset = T[p].swap_offset
          PROVE  q = p
      <4>1. CASE q = v
        BY <4>1, <3>1, <3>3, <2>2, <1>1, <1>3, <1>4
      <4>2. CASE q # v
        BY <4>2, <3>1, <3>3, <1>1, <1>4 DEF SlotsExclusive
      <4> QED
        BY <4>1, <4>2
    <3> QED
      BY <3>2, <3>3
  <2> QED
    BY <2>1, <2>2
<1> QED
  BY <1>4 DEF SlotsOwned

(* Serving a miss changes no swap offset.                                  *)
LEMMA FillKeepsOffsets ==
  ASSUME NEW a \in Accesses, NEW f \in Frames, NEW table \in [Pages -> PTE],
         NEW counters, Fill(a, f, table, counters)
  PROVE  \A q \in Pages : pte'[q].swap_offset = table[q].swap_offset
<1>1. a.page \in Pages /\ table[a.page] \in PTE
  BY DEF Accesses
<1> QED
  BY <1>1 DEF Fill, MMZeroFill, MMPageIn, MMPageInAborts, PTE

(* Every step leaves slots with one owner.                                 *)
LEMMA SlotsStep ==
  ASSUME TypeOK, SlotsExclusive, [Next]_vars
  PROVE  SlotsExclusive'
<1>0. ASSUME SlotsOwned(pte', swapmap') PROVE SlotsExclusive'
  BY <1>0 DEF SlotsOwned, SlotsExclusive
<1>1. CASE AccessStep
  <2>1. PICK a \in Accesses :
          Hit(a) \/ MissFree(a) \/ \E f \in Frames : MissEvict(a, f)
    BY <1>1 DEF AccessStep
  <2>2. a.page \in Pages /\ pte \in [Pages -> PTE]
    BY DEF Accesses, TypeOK, MMTypeOK
  <2>3. CASE Hit(a)
    <3>1. swapmap' = swapmap
          /\ \A q \in Pages : pte'[q].swap_offset = pte[q].swap_offset
      BY <2>2, <2>3 DEF Hit, MMHit, PTE
    <3> QED
      BY <3>1 DEF SlotsExclusive
  <2>4. CASE MissFree(a)
    <3>1. PICK f \in Frames : AllocateFree(f) /\ Fill(a, f, pte, {})
      BY <2>4 DEF MissFree
    <3>2. swapmap' = swapmap
          /\ \A q \in Pages : pte'[q].swap_offset = pte[q].swap_offset
      BY <3>1, <2>2, FillKeepsOffsets DEF AllocateFree, swapVars
    <3> QED
      BY <3>2 DEF SlotsExclusive
  <2>5. ASSUME NEW f \in Frames, MissEvict(a, f)
        PROVE  SlotsExclusive'
    <3>1. PICK offset \in SwapOffsets \cup {CSC369_INVALID_SWAP} :
            /\ AllocateEvict(f, offset)
            /\ Fill(a, f, EvictedTable(frames[f], offset),
                    {EvictCounter(frames[f])})
      BY <2>5 DEF MissEvict
    <3>2. frames[f] \in Pages
      BY <3>1, FullMemory DEF AllocateEvict
    <3>3. SlotsOwned(EvictedTable(frames[f], offset), swapmap')
      BY <3>1, <3>2, EvictedSlotsOwned DEF AllocateEvict, CSC369_MMHandleEviction
    <3>4. \A q \in Pages :
            pte'[q].swap_offset = EvictedTable(frames[f], offset)[q].swap_offset
      BY <3>1, <3>2, EvictedTableType, FillKeepsOffsets
    <3>5. SlotsOwned(pte', swapmap')
      BY <3>3, <3>4 DEF SlotsOwned
    <3> QED
      BY <3>5, <1>0
  <2> QED
    BY <2>1, <2>3, <2>4, <2>5
<1>2. CASE UNCHANGED mmVars
  BY <1>2 DEF SlotsExclusive, mmVars
<1> QED
  BY <1>1, <1>2, NextCases

(* No two pages ever share a swap slot and every slot in use is marked in  *)
(* the bitmap, whatever reads and writes of the swap file fail.            *)
THEOREM SlotsCorrect == Spec => []SlotsExclusive
<1>1. Init => SlotsExclusive
  BY DEF Init, MMCreate, CSC369_PTECreate, SlotsExclusive
<1>2. TypeOK /\ SlotsExclusive /\ [Next]_vars => SlotsExclusive'
  BY SlotsStep
<1> QED
  BY <1>1, <1>2, TypeCorrect, PTL DEF Spec

-----------------------------------------------------------------------------
(* Contents.  The disk is reliable and the trace stays inside its frames.  *)

(* What the trace wrote to each page is where table says the page is: in   *)
(* its frame, in its slot of file, or nowhere if it was never resident.    *)
(* A page whose page-out failed is in none of the three.                   *)
Backed(table, file) ==
  \A q \in Pages : \A o \in TraceOffsets :
    /\ table[q].valid => physmem[table[q].frame_number][o] = written[q][o]
    /\ ~table[q].valid /\ table[q].on_swap
         /\ table[q].swap_offset # CSC369_INVALID_SWAP =>
           file[table[q].swap_offset][o] = written[q][o]
    /\ ~table[q].valid /\ ~table[q].on_swap => written[q][o] = 0

(* A resident page that is clean has the same bytes in its slot of file.   *)
CleanCopies(table, file) ==
  \A q \in Pages : table[q].valid /\ ~table[q].dirty =>
    /\ table[q].swap_offset # CSC369_INVALID_SWAP
    /\ file[table[q].swap_offset] = physmem[table[q].frame_number]

(* The inductive invariant on contents.                                    *)
DataInv ==
  /\ status # "aborted" => Backed(pte, swapfile)
  /\ CleanHasCopy
  /\ ~error

(* An access inside frame f, which holds the page's data: a write changes  *)
(* one byte of that frame only, a read sees the value last written.        *)
LEMMA TouchServes ==
  ASSUME TraceInsideFrame, TypeOK, NEW a \in Accesses, WellFormed(a),
         NEW f \in Frames, NEW mem \in [Frames -> Contents], Touch(a, f, mem),
         \A o \in TraceOffsets : mem[f][o] = written[a.page][o]
  PROVE  /\ \A o \in TraceOffsets : physmem'[f][o] = written'[a.page][o]
         /\ \A g \in Frames : g # f => physmem'[g] = mem[g]
         /\ \A q \in Pages : q # a.page => written'[q] = written[q]
         /\ ~IsWrite(a) => physmem' = mem
         /\ ~error => ~error'
<1>1. /\ a.page \in Pages /\ a.offset \in TraceOffsets /\ a.value \in Values
  BY DEF Accesses
<1>2. a.offset < FRAME_SIZE /\ TraceOffsets \subseteq Offsets
  BY <1>1, Constants DEF TraceInsideFrame, TraceOffsets, Offsets
<1>3. ByteFrame(f, a.offset) = f /\ ByteOffset(a.offset) = a.offset
  BY <1>2 DEF ByteFrame, ByteOffset
<1>4. written \in [Pages -> [TraceOffsets -> Values]]
  BY DEF TypeOK
<1>5. CASE IsWrite(a)
  <2>1. /\ physmem' = [mem EXCEPT ![f][a.offset] = a.value]
        /\ written' = [written EXCEPT ![a.page][a.offset] = a.value]
        /\ error' = error
    BY <1>3, <1>5 DEF Touch
  <2>2. ASSUME NEW o \in TraceOffsets
        PROVE  physmem'[f][o] = written'[a.page][o]
    BY <2>1, <1>1, <1>2, <1>4 DEF Contents
  <2> QED
    BY <2>1, <2>2, <1>1, <1>4, <1>5
<1>6. CASE ~IsWrite(a)
  <2>1. /\ physmem' = mem /\ written' = written
        /\ error' = (error \/ mem[f][a.offset] # a.value)
    BY <1>3, <1>6 DEF Touch
  <2>2. a.value = mem[f][a.offset]
    BY <1>1, <1>6 DEF WellFormed
  <2> QED
    BY <2>1, <2>2
<1> QED
  BY <1>5, <1>6

(* A page-out to a reliable disk stores the frame in the slot it returns   *)
(* and touches no other page's slot.                                       *)
LEMMA PageOutStores ==
  ASSUME ReliableDisk, TypeOK, SlotsExclusive, NEW v \in Pages,
         NEW content \in Contents, NEW result,
         CSC369_SwapPageOut(content, pte[v].swap_offset, result)
  PROVE  /\ result # CSC369_INVALID_SWAP => swapfile'[result] = content
         /\ \A q \in Pages :
              q # v /\ pte[q].swap_offset # CSC369_INVALID_SWAP =>
                swapfile'[pte[q].swap_offset] = swapfile[pte[q].swap_offset]
<1>1. CASE result = CSC369_INVALID_SWAP /\ UNCHANGED swapVars
  BY <1>1 DEF swapVars
<1>2. ASSUME NEW idx \in Slots, NEW n \in Transfers,
             swapfile' = [swapfile EXCEPT
                            ![SlotOffset(idx)] = Copy(content, @, n)],
             result = IF n = FRAME_SIZE THEN SlotOffset(idx)
                                        ELSE CSC369_INVALID_SWAP
      PROVE  /\ result # CSC369_INVALID_SWAP => swapfile'[result] = content
             /\ \A q \in Pages :
                  q # v /\ pte[q].swap_offset # CSC369_INVALID_SWAP =>
                    swapfile'[pte[q].swap_offset] = swapfile[pte[q].swap_offset]
  <2>1. n = FRAME_SIZE
    BY DEF ReliableDisk
  <2>2. result = SlotOffset(idx) /\ result \in SwapOffsets
        /\ result # CSC369_INVALID_SWAP
    BY <1>2, <2>1, SlotOffsetType
  <2>3. swapfile \in [SwapOffsets -> Contents]
    BY DEF TypeOK, MMTypeOK, SwapTypeOK
  <2>4. swapfile' = [swapfile EXCEPT ![result] = content]
    BY <1>2, <2>1, <2>2, <2>3, CopyWhole
  <2>5. ASSUME NEW q \in Pages, q # v PROVE pte[q].swap_offset # result
    <3>1. SlotsOwned(EvictedTable(v, result), swapmap')
      BY EvictedSlotsOwned
    <3>2. /\ EvictedTable(v, result)[v].swap_offset = result
          /\ EvictedTable(v, result)[q] = pte[q]
      BY <2>5 DEF EvictedTable, TypeOK, MMTypeOK, PTE
    <3> QED
      BY <3>1, <3>2, <2>2, <2>5 DEF SlotsOwned
  <2> QED
    BY <2>2, <2>3, <2>4, <2>5 DEF TypeOK, MMTypeOK, PTE
<1> QED
  BY <1>1, <1>2 DEF CSC369_SwapPageOut

(* Evicting the page of frame f loses no data.                             *)
LEMMA EvictedBacked ==
  ASSUME ReliableDisk, TypeOK, CoremapConsistent, SlotsExclusive, DataInv,
         status = "running", NEW f \in Frames,
         NEW offset \in SwapOffsets \cup {CSC369_INVALID_SWAP},
         AllocateEvict(f, offset)
  PROVE  /\ Backed(EvictedTable(frames[f], offset), swapfile')
         /\ CleanCopies(EvictedTable(frames[f], offset), swapfile')
<1> DEFINE v == frames[f]
           T == EvictedTable(v, offset)
<1>1. /\ v \in Pages /\ pte[v].valid /\ pte[v].frame_number = f
  BY Constants, FullMemory DEF AllocateEvict, CoremapConsistent
<1>2. /\ ~T[v].valid /\ T[v].on_swap /\ T[v].swap_offset = offset
      /\ \A q \in Pages : q # v => T[q] = pte[q]
  BY <1>1 DEF EvictedTable, TypeOK, MMTypeOK, PTE
<1>3. physmem[f] \in Contents
  BY DEF TypeOK, MMTypeOK
<1>4. /\ offset # CSC369_INVALID_SWAP => swapfile'[offset] = physmem[f]
      /\ \A q \in Pages :
           q # v /\ pte[q].swap_offset # CSC369_INVALID_SWAP =>
             swapfile'[pte[q].swap_offset] = swapfile[pte[q].swap_offset]
  <2>1. CSC369_SwapPageOut(physmem[f], pte[v].swap_offset, offset)
    BY <1>1 DEF AllocateEvict, CSC369_MMHandleEviction
  <2> HIDE DEF v
  <2> QED
    BY <1>1, <1>3, <2>1, PageOutStores
<1>5. Backed(pte, swapfile) /\ CleanHasCopy
  BY DEF DataInv
<1> HIDE DEF v, T
<1>6. ASSUME NEW q \in Pages, NEW o \in TraceOffsets
      PROVE  /\ T[q].valid => physmem[T[q].frame_number][o] = written[q][o]
             /\ ~T[q].valid /\ T[q].on_swap
                  /\ T[q].swap_offset # CSC369_INVALID_SWAP =>
                    swapfile'[T[q].swap_offset][o] = written[q][o]
             /\ ~T[q].valid /\ ~T[q].on_swap => written[q][o] = 0
  <2>1. CASE q = v
    BY <2>1, <1>1, <1>2, <1>4, <1>5 DEF Backed
  <2>2. CASE q # v
    BY <2>2, <1>2, <1>4, <1>5 DEF Backed
  <2> QED
    BY <2>1, <2>2
<1>7. ASSUME NEW q \in Pages, T[q].valid /\ ~T[q].dirty
      PROVE  /\ T[q].swap_offset # CSC369_INVALID_SWAP
             /\ swapfile'[T[q].swap_offset] = physmem[T[q].frame_number]
  BY <1>7, <1>2, <1>4, <1>5 DEF CleanHasCopy
<1>8. Backed(T, swapfile') /\ CleanCopies(T, swapfile')
  BY <1>6, <1>7 DEF Backed, CleanCopies
<1> QED
  BY <1>8 DEF T, v

(* Serving a miss in an available frame keeps every page's data and gives  *)
(* the access what was last written.                                       *)
LEMMA FillData ==
  ASSUME TraceInsideFrame, ReliableDisk, TypeOK, SwapTypeOK', ~error,
         status = "running", NEW a \in Accesses, WellFormed(a),
         NEW f \in Frames, NEW table \in [Pages -> PTE], NEW counters,
         FrameAvailable(f, table), ~table[a.page].valid,
         Backed(table, swapfile'), CleanCopies(table, swapfile'),
         Fill(a, f, table, counters)
  PROVE  DataInv'
<1>1. /\ a.page \in Pages /\ table[a.page] \in PTE
      /\ physmem \in [Frames -> Contents]
      /\ TraceOffsets \subseteq Offsets
  BY Constants
  DEF Accesses, TypeOK, MMTypeOK, TraceInsideFrame, TraceOffsets, Offsets
<1>2. CASE /\ MMPageInAborts(a.page, f, table, counters)
           /\ status' = "aborted" /\ UNCHANGED <<written, error>>
  <2>1. /\ physmem' = physmem
        /\ \A q \in Pages : /\ pte'[q].valid = table[q].valid
                            /\ pte'[q].dirty = table[q].dirty
                            /\ pte'[q].swap_offset = table[q].swap_offset
                            /\ q # a.page => pte'[q] = table[q]
    BY <1>1, <1>2 DEF MMPageInAborts, PTE
  <2>2. CleanHasCopy'
    BY <2>1, <1>1 DEF CleanHasCopy, CleanCopies
  <2> QED
    BY <1>2, <2>2 DEF DataInv
<1>3. ASSUME NEW mem \in [Frames -> Contents], Touch(a, f, mem),
             status' = "running",
             \A g \in Frames : g # f => mem[g] = physmem[g],
             \A o \in TraceOffsets : mem[f][o] = written[a.page][o],
             pte'[a.page].valid, pte'[a.page].frame_number = f,
             \A q \in Pages : q # a.page => pte'[q] = table[q],
             ~IsWrite(a) /\ ~pte'[a.page].dirty =>
               /\ pte'[a.page].swap_offset # CSC369_INVALID_SWAP
               /\ swapfile'[pte'[a.page].swap_offset] = mem[f],
             IsWrite(a) => pte'[a.page].dirty
      PROVE  DataInv'
  <2>1. /\ \A o \in TraceOffsets : physmem'[f][o] = written'[a.page][o]
        /\ \A g \in Frames : g # f => physmem'[g] = mem[g]
        /\ \A q \in Pages : q # a.page => written'[q] = written[q]
        /\ ~IsWrite(a) => physmem' = mem
        /\ ~error'
    BY <1>3, TouchServes
  <2>2. \A q \in Pages : q # a.page /\ table[q].valid =>
          physmem'[table[q].frame_number] = physmem[table[q].frame_number]
    BY <1>3, <2>1 DEF FrameAvailable, PTE
  <2>3. ASSUME NEW q \in Pages, NEW o \in TraceOffsets
        PROVE  /\ pte'[q].valid =>
                    physmem'[pte'[q].frame_number][o] = written'[q][o]
               /\ ~pte'[q].valid /\ pte'[q].on_swap
                    /\ pte'[q].swap_offset # CSC369_INVALID_SWAP =>
                      swapfile'[pte'[q].swap_offset][o] = written'[q][o]
               /\ ~pte'[q].valid /\ ~pte'[q].on_swap => written'[q][o] = 0
    <3>1. CASE q = a.page
      BY <3>1, <1>3, <2>1
    <3>2. CASE q # a.page
      <4>1. pte'[q] = table[q] /\ written'[q] = written[q]
        BY <3>2, <1>3, <2>1
      <4>2. /\ table[q].valid =>
                 physmem'[table[q].frame_number][o] = written[q][o]
            /\ ~table[q].valid /\ table[q].on_swap
                 /\ table[q].swap_offset # CSC369_INVALID_SWAP =>
                   swapfile'[table[q].swap_offset][o] = written[q][o]
            /\ ~table[q].valid /\ ~table[q].on_swap => written[q][o] = 0
        BY <3>2, <2>2 DEF Backed
      <4> QED
        BY <4>1, <4>2
    <3> QED
      BY <3>1, <3>2
  <2>4. ASSUME NEW q \in Pages, pte'[q].valid /\ ~pte'[q].dirty
        PROVE  /\ pte'[q].swap_offset # CSC369_INVALID_SWAP
               /\ swapfile'[pte'[q].swap_offset] = physmem'[pte'[q].frame_number]
    <3>1. CASE q = a.page
      BY <3>1, <1>3, <2>1, <2>4
    <3>2. CASE q # a.page
      <4>1. pte'[q] = table[q] /\ table[q].valid /\ ~table[q].dirty
        BY <3>2, <1>3, <2>4
      <4>2. /\ table[q].swap_offset # CSC369_INVALID_SWAP
            /\ swapfile'[table[q].swap_offset] = physmem'[table[q].frame_number]
        BY <3>2, <4>1, <2>2 DEF CleanCopies
      <4> QED
        BY <4>1, <4>2
    <3> QED
      BY <3>1, <3>2
  <2>5. Backed(pte, swapfile)'
    BY <2>3 DEF Backed
  <2>6. CleanHasCopy'
    BY <2>4 DEF CleanHasCopy
  <2> QED
    BY <2>1, <2>5, <2>6 DEF DataInv
<1>4. CASE /\ MMZeroFill(a.page, f, table, counters)
           /\ Touch(a, f, [physmem EXCEPT ![f] = ZeroFrame])
           /\ UNCHANGED status
  <2> DEFINE mem == [physmem EXCEPT ![f] = ZeroFrame]
  <2>1. mem \in [Frames -> Contents] /\ mem[f] = ZeroFrame
        /\ \A g \in Frames : g # f => mem[g] = physmem[g]
    BY <1>1, ZeroFrameType
  <2>2. \A o \in TraceOffsets : mem[f][o] = written[a.page][o]
    BY <1>1, <1>4, <2>1 DEF Backed, MMZeroFill, ZeroFrame
  <2>3. /\ pte'[a.page].valid /\ pte'[a.page].frame_number = f
        /\ pte'[a.page].dirty
        /\ \A q \in Pages : q # a.page => pte'[q] = table[q]
    BY <1>1, <1>4 DEF MMZeroFill, PTE
  <2>4. Touch(a, f, mem) /\ status' = "running"
    BY <1>4
  <2> HIDE DEF mem
  <2> QED
    BY <1>3, <2>1, <2>2, <2>3, <2>4
<1>5. CASE /\ MMPageIn(a.page, f, table, counters, IsWrite(a))
           /\ \E content \in CSC369_SwapPageIn(swapfile', physmem[f],
                                               table[a.page].swap_offset) :
                Touch(a, f, [physmem EXCEPT ![f] = content])
           /\ UNCHANGED status
  <2>1. PICK content \in CSC369_SwapPageIn(swapfile', physmem[f],
                                           table[a.page].swap_offset) :
          Touch(a, f, [physmem EXCEPT ![f] = content])
    BY <1>5
  <2>2. /\ table[a.page].on_swap
        /\ table[a.page].swap_offset # CSC369_INVALID_SWAP
        /\ table[a.page].swap_offset \in SwapOffsets
    BY <1>1, <1>5 DEF MMPageIn, PTE
  <2>3. swapfile'[table[a.page].swap_offset] \in Contents
    BY <2>2 DEF SwapTypeOK
  <2>4. content = swapfile'[table[a.page].swap_offset]
    BY <2>1, <2>3, <1>1, CopyWhole DEF CSC369_SwapPageIn, ReliableDisk
  <2> DEFINE mem == [physmem EXCEPT ![f] = content]
  <2>5. mem \in [Frames -> Contents] /\ mem[f] = content
        /\ \A g \in Frames : g # f => mem[g] = physmem[g]
    BY <1>1, <2>3, <2>4
  <2>6. \A o \in TraceOffsets : mem[f][o] = written[a.page][o]
    BY <1>1, <2>2, <2>4, <2>5 DEF Backed
  <2>7. /\ pte'[a.page].valid /\ pte'[a.page].frame_number = f
        /\ pte'[a.page].swap_offset = table[a.page].swap_offset
        /\ \A q \in Pages : q # a.page => pte'[q] = table[q]
    BY <1>1, <1>5 DEF MMPageIn, PTE
  <2>8. IsWrite(a) => pte'[a.page].dirty
    BY <1>1, <1>5 DEF MMPageIn, PTE
  <2>9. Touch(a, f, mem) /\ status' = "running"
    BY <1>5, <2>1
  <2> HIDE DEF mem
  <2> QED
    BY <1>3, <2>2, <2>4, <2>5, <2>6, <2>7, <2>8, <2>9
<1> QED
  BY <1>2, <1>4, <1>5 DEF Fill

(* A hit changes at most one byte of the page's own frame, and marks the   *)
(* page dirty when it does.                                                *)
LEMMA HitData ==
  ASSUME TraceInsideFrame, TypeOK, CoremapConsistent, DataInv,
         status = "running", NEW a \in Accesses, WellFormed(a), Hit(a)
  PROVE  DataInv'
<1> DEFINE f == pte[a.page].frame_number
<1>1. /\ a.page \in Pages /\ pte[a.page].valid /\ f \in Frames
      /\ physmem \in [Frames -> Contents]
  BY DEF Accesses, Hit, MMHit, TypeOK, MMTypeOK, PTE
<1>2. /\ pte'[a.page].dirty = (pte[a.page].dirty \/ IsWrite(a))
      /\ \A q \in Pages : q # a.page => pte'[q] = pte[q]
      /\ \A q \in Pages : /\ pte'[q].valid = pte[q].valid
                          /\ pte'[q].frame_number = pte[q].frame_number
                          /\ pte'[q].on_swap = pte[q].on_swap
                          /\ pte'[q].swap_offset = pte[q].swap_offset
  BY <1>1 DEF Hit, MMHit, TypeOK, MMTypeOK, PTE
<1>3. swapfile' = swapfile /\ status' = status
  BY DEF Hit, MMHit
<1>4. Backed(pte, swapfile) /\ CleanHasCopy /\ ~error
  BY DEF DataInv
<1>5. \A o \in TraceOffsets : physmem[f][o] = written[a.page][o]
  BY <1>1, <1>4 DEF Backed
<1>6. /\ \A o \in TraceOffsets : physmem'[f][o] = written'[a.page][o]
      /\ \A g \in Frames : g # f => physmem'[g] = physmem[g]
      /\ \A q \in Pages : q # a.page => written'[q] = written[q]
      /\ ~IsWrite(a) => physmem' = physmem
      /\ ~error'
  <2>1. Touch(a, f, physmem)
    BY DEF Hit
  <2> HIDE DEF f
  <2> QED
    BY <1>1, <1>4, <1>5, <2>1, TouchServes
<1>7. \A q \in Pages : q # a.page /\ pte[q].valid =>
        physmem'[pte[q].frame_number] = physmem[pte[q].frame_number]
  BY <1>1, <1>6 DEF CoremapConsistent, TypeOK, MMTypeOK, PTE
<1>8. ASSUME NEW q \in Pages, NEW o \in TraceOffsets
      PROVE  /\ pte'[q].valid =>
                  physmem'[pte'[q].frame_number][o] = written'[q][o]
             /\ ~pte'[q].valid /\ pte'[q].on_swap
                  /\ pte'[q].swap_offset # CSC369_INVALID_SWAP =>
                    swapfile'[pte'[q].swap_offset][o] = written'[q][o]
             /\ ~pte'[q].valid /\ ~pte'[q].on_swap => written'[q][o] = 0
  <2>1. CASE q = a.page
    BY <2>1, <1>1, <1>2, <1>6
  <2>2. CASE q # a.page
    BY <2>2, <1>2, <1>3, <1>4, <1>6, <1>7 DEF Backed
  <2> QED
    BY <2>1, <2>2
<1>9. ASSUME NEW q \in Pages, pte'[q].valid /\ ~pte'[q].dirty
      PROVE  /\ pte'[q].swap_offset # CSC369_INVALID_SWAP
             /\ swapfile'[pte'[q].swap_offset] = physmem'[pte'[q].frame_number]
  <2>1. CASE q = a.page
    <3>1. ~IsWrite(a) /\ ~pte[q].dirty
      BY <2>1, <1>2, <1>9
    <3> QED
      BY <2>1, <3>1, <1>1, <1>2, <1>3, <1>4, <1>6 DEF CleanHasCopy
  <2>2. CASE q # a.page
    BY <2>2, <1>2, <1>3, <1>4, <1>7, <1>9 DEF CleanHasCopy
  <2> QED
    BY <2>1, <2>2
<1>10. Backed(pte, swapfile)' /\ CleanHasCopy'
  BY <1>8, <1>9 DEF Backed, CleanHasCopy
<1> QED
  BY <1>6, <1>10 DEF DataInv

(* Every step keeps the contents where the page table says they are.       *)
LEMMA DataStep ==
  ASSUME TraceInsideFrame, ReliableDisk, TypeOK, TypeOK', CoremapConsistent,
         SlotsExclusive, DataInv, [Next]_vars
  PROVE  DataInv'
<1>1. CASE AccessStep
  <2>1. PICK a \in Accesses :
          /\ status = "running" /\ WellFormed(a)
          /\ Hit(a) \/ MissFree(a) \/ \E f \in Frames : MissEvict(a, f)
    BY <1>1 DEF AccessStep
  <2>2. /\ a.page \in Pages /\ pte \in [Pages -> PTE] /\ SwapTypeOK'
        /\ ~error /\ Backed(pte, swapfile) /\ CleanHasCopy
    BY <2>1 DEF Accesses, TypeOK, MMTypeOK, DataInv
  <2>3. CASE Hit(a)
    BY <2>1, <2>3, HitData
  <2>4. CASE MissFree(a)
    <3>1. PICK f \in Frames : AllocateFree(f) /\ Fill(a, f, pte, {})
      BY <2>4 DEF MissFree
    <3>2. ~pte[a.page].valid /\ swapfile' = swapfile
      BY <2>4, <3>1 DEF MissFree, AllocateFree, swapVars
    <3>3. Backed(pte, swapfile') /\ CleanCopies(pte, swapfile')
      BY <2>2, <3>2 DEF CleanCopies, CleanHasCopy
    <3> QED
      BY <3>1, <3>2, <3>3, <2>1, <2>2, FreeFrameAvailable, FillData
  <2>5. ASSUME NEW f \in Frames, MissEvict(a, f)
        PROVE  DataInv'
    <3>1. PICK offset \in SwapOffsets \cup {CSC369_INVALID_SWAP} :
            /\ AllocateEvict(f, offset)
            /\ Fill(a, f, EvictedTable(frames[f], offset),
                    {EvictCounter(frames[f])})
      BY <2>5 DEF MissEvict
    <3>2. frames[f] \in Pages /\ FreeFrames = {}
      BY <3>1, FullMemory DEF AllocateEvict
    <3>3. ~EvictedTable(frames[f], offset)[a.page].valid
      BY <2>5, <2>2, <3>2 DEF MissEvict, EvictedTable, PTE
    <3>4. FrameAvailable(f, EvictedTable(frames[f], offset))
      BY <2>1, <3>2, EvictedFrameAvailable
    <3>5. /\ Backed(EvictedTable(frames[f], offset), swapfile')
          /\ CleanCopies(EvictedTable(frames[f], offset), swapfile')
      BY <2>1, <3>1, EvictedBacked
    <3>6. EvictedTable(frames[f], offset) \in [Pages -> PTE]
      BY <3>2, EvictedTableType
    <3> QED
      BY <3>1, <3>3, <3>4, <3>5, <3>6, <2>1, <2>2, FillData
  <2> QED
    BY <2>1, <2>3, <2>4, <2>5
<1>2. CASE UNCHANGED <<mmVars, written, error>>
           /\ status = "running" /\ status' = "done"
  BY <1>2 DEF DataInv, CleanHasCopy, Backed, mmVars
<1>3. CASE UNCHANGED <<mmVars, written, error, status>>
  BY <1>3 DEF DataInv, CleanHasCopy, Backed, mmVars
<1> QED
  BY <1>1, <1>2, <1>3, NextCases

(* With a reliable disk and a trace inside its frames, contents are always *)
(* where the page table says they are, however small the swap is.          *)
THEOREM DataCorrect ==
  ASSUME TraceInsideFrame, ReliableDisk
  PROVE  Spec => []DataInv
<1>1. Init => DataInv
  BY DEF Init, MMCreate, CSC369_PTECreate, DataInv, Backed, CleanHasCopy
<1>2. /\ TypeOK /\ TypeOK' /\ CoremapConsistent /\ SlotsExclusive /\ DataInv
      /\ [Next]_vars
      => DataInv'
  BY DataStep
<1> QED
  BY <1>1, <1>2, TypeCorrect, CoremapCorrect, SlotsCorrect, PTL DEF Spec

(* Every read of the trace sees the value most recently written to its     *)
(* address: memsim never logs a mismatch, under any replacement policy     *)
(* that names existing frames and with any memory and swap size.           *)
THEOREM ReadsCorrect ==
  ASSUME TraceInsideFrame, ReliableDisk
  PROVE  Spec => []NoMismatch
<1>1. DataInv => NoMismatch
  BY DEF DataInv, NoMismatch
<1> QED
  BY <1>1, DataCorrect, PTL

(* A clean resident page always has an identical copy in its swap slot.    *)
THEOREM CleanPagesCorrect ==
  ASSUME TraceInsideFrame, ReliableDisk
  PROVE  Spec => []CleanHasCopy
<1>1. DataInv => CleanHasCopy
  BY DEF DataInv
<1> QED
  BY <1>1, DataCorrect, PTL

-----------------------------------------------------------------------------
(* Slots are allocated once *)

(* A step to or from a reliable disk takes no page's slot away.            *)
LEMMA StableStep ==
  ASSUME ReliableDisk, TypeOK, [Next]_vars, NEW p \in Pages,
         pte[p].swap_offset # CSC369_INVALID_SWAP
  PROVE  pte'[p].swap_offset = pte[p].swap_offset
<1>1. CASE AccessStep
  <2>1. PICK a \in Accesses :
          Hit(a) \/ MissFree(a) \/ \E f \in Frames : MissEvict(a, f)
    BY <1>1 DEF AccessStep
  <2>2. a.page \in Pages /\ pte \in [Pages -> PTE]
    BY DEF Accesses, TypeOK, MMTypeOK
  <2>3. CASE Hit(a)
    BY <2>2, <2>3 DEF Hit, MMHit, PTE
  <2>4. CASE MissFree(a)
    BY <2>2, <2>4, FillKeepsOffsets DEF MissFree
  <2>5. ASSUME NEW f \in Frames, MissEvict(a, f)
        PROVE  pte'[p].swap_offset = pte[p].swap_offset
    <3>1. PICK offset \in SwapOffsets \cup {CSC369_INVALID_SWAP} :
            /\ AllocateEvict(f, offset)
            /\ Fill(a, f, EvictedTable(frames[f], offset),
                    {EvictCounter(frames[f])})
      BY <2>5 DEF MissEvict
    <3>2. frames[f] \in Pages
      BY <3>1, FullMemory DEF AllocateEvict
    <3>3. pte'[p].swap_offset = EvictedTable(frames[f], offset)[p].swap_offset
      BY <3>1, <3>2, EvictedTableType, FillKeepsOffsets
    <3>4. frames[f] = p => offset = pte[p].swap_offset
      BY <3>1 DEF AllocateEvict, CSC369_MMHandleEviction, CSC369_SwapPageOut,
                  ReliableDisk
    <3>5. EvictedTable(frames[f], offset)[p].swap_offset =
            IF frames[f] = p THEN offset ELSE pte[p].swap_offset
      BY <2>2, <3>2 DEF EvictedTable, PTE
    <3> QED
      BY <3>3, <3>4, <3>5
  <2> QED
    BY <2>1, <2>3, <2>4, <2>5
<1>2. CASE UNCHANGED mmVars
  BY <1>2 DEF mmVars
<1> QED
  BY <1>1, <1>2, NextCases

(* With a reliable disk a page keeps the slot it was given first, however  *)
(* often it is evicted and however full the swap is.                       *)
THEOREM SlotsStableCorrect ==
  ASSUME ReliableDisk
  PROVE  Spec => SlotsStable
<1>1. TypeOK /\ [Next]_vars =>
        [\A p \in Pages : pte[p].swap_offset # CSC369_INVALID_SWAP =>
           pte'[p].swap_offset = pte[p].swap_offset]_vars
  BY StableStep
<1> QED
  BY <1>1, TypeCorrect, PTL DEF Spec, SlotsStable
-----------------------------------------------------------------------------
(* Statistics *)

(* A natural number is its quotient times the divisor plus its remainder.  *)
LEMMA ModDivision ==
  ASSUME NEW m \in Nat \ {0}, NEW x \in Nat
  PROVE  /\ x \div m \in Nat /\ x % m \in 0 .. m - 1
         /\ x = m * (x \div m) + (x % m)
OBVIOUS

LEMMA ModUnique ==
  ASSUME NEW m \in Nat \ {0}, NEW q \in Nat, NEW r \in 0 .. m - 1
  PROVE  (m * q + r) % m = r
<1>1. m * q + r \in Nat
  OBVIOUS
<1> QED
  BY <1>1

(* A counter that wraps before an addition ends where it would have ended  *)
(* by wrapping after it.                                                   *)
LEMMA ModAbsorbs ==
  ASSUME NEW m \in Nat \ {0}, NEW x \in Nat, NEW y \in Nat
  PROVE  ((x % m) + y) % m = (x + y) % m
<1> DEFINE q == x \div m
           r == x % m
           p == (r + y) \div m
           s == (r + y) % m
<1>1. q \in Nat /\ r \in Nat /\ x = m * q + r
  BY ModDivision
<1>2. p \in Nat /\ s \in 0 .. m - 1 /\ r + y = m * p + s
  <2>1. r + y \in Nat
    BY <1>1
  <2> HIDE DEF r
  <2> QED
    BY <2>1, ModDivision
<1> HIDE DEF q, r, p, s
<1>3. x + y = m * (q + p) + s /\ q + p \in Nat
  <2>1. m * (q + p) = m * q + m * p
    BY <1>1, <1>2
  <2>2. m * q \in Nat /\ m * p \in Nat /\ m * (q + p) \in Nat
    BY <1>1, <1>2
  <2> QED
    BY <1>1, <1>2, <2>1, <2>2
<1>4. (x + y) % m = s
  BY <1>2, <1>3, ModUnique
<1> QED
  BY <1>4 DEF s, r

(* The two sides of a balance n = x (mod COUNTER_MOD) counted up together, *)
(* x by one of its two summands wrapping.                                  *)
LEMMA BothCounted ==
  ASSUME NEW x \in Nat, NEW y \in Nat, NEW n, n = (x + y) % COUNTER_MOD
  PROVE  /\ (n + 1) % COUNTER_MOD = (x + 1 + y) % COUNTER_MOD
         /\ (n + 1) % COUNTER_MOD = (((x + 1) % COUNTER_MOD) + y) % COUNTER_MOD
<1> COUNTER_MOD \in Nat \ {0} /\ x + y \in Nat /\ x + 1 \in Nat /\ 1 \in Nat
  BY Constants
<1>1. (n + 1) % COUNTER_MOD = (x + y + 1) % COUNTER_MOD
  <2>1. (((x + y) % COUNTER_MOD) + 1) % COUNTER_MOD = (x + y + 1) % COUNTER_MOD
    BY ONLY COUNTER_MOD \in Nat \ {0}, x + y \in Nat, 1 \in Nat, ModAbsorbs
  <2> QED
    BY <2>1
<1>2. (((x + 1) % COUNTER_MOD) + y) % COUNTER_MOD = (x + 1 + y) % COUNTER_MOD
  BY ONLY COUNTER_MOD \in Nat \ {0}, x + 1 \in Nat, y \in Nat, ModAbsorbs
<1>3. x + 1 + y = x + y + 1
  OBVIOUS
<1> QED
  BY <1>1, <1>2, <1>3

UsedFrames == Frames \ FreeFrames

(* Frames are finitely many.                                               *)
LEMMA FramesFinite ==
  /\ IsFiniteSet(Frames) /\ Cardinality(Frames) = MEMSIZE
  /\ \A T \in SUBSET Frames :
       IsFiniteSet(T) /\ Cardinality(T) \in Nat /\ Cardinality(T) <= MEMSIZE
<1>1. IsFiniteSet(0 .. MEMSIZE - 1) /\ Cardinality(0 .. MEMSIZE - 1) = MEMSIZE
  <2>1. 0 \in Int /\ MEMSIZE - 1 \in Int /\ ~(0 > MEMSIZE - 1)
    BY Constants
  <2>2. /\ IsFiniteSet(0 .. MEMSIZE - 1)
        /\ Cardinality(0 .. MEMSIZE - 1) = IF 0 > MEMSIZE - 1 THEN 0 ELSE MEMSIZE - 1 - 0 + 1
    BY <2>1, FS_Interval
  <2> QED
    BY <2>1, <2>2, Constants
<1>2. IsFiniteSet(Frames) /\ Cardinality(Frames) = MEMSIZE
  BY ONLY <1>1 DEF Frames
<1>3. ASSUME NEW T \in SUBSET Frames
      PROVE  IsFiniteSet(T) /\ Cardinality(T) \in Nat /\ Cardinality(T) <= MEMSIZE
  <2>1. IsFiniteSet(T) /\ Cardinality(T) <= Cardinality(Frames)
    BY ONLY <1>2, FS_Subset, T \in SUBSET Frames
  <2>2. Cardinality(T) \in Nat
    BY ONLY <2>1, FS_CardinalityType
  <2> QED
    BY ONLY <1>2, <2>1, <2>2
<1> QED
  BY ONLY <1>2, <1>3

(* The number of frames in use is a natural number.                        *)
LEMMA UsedFinite == IsFiniteSet(UsedFrames) /\ Cardinality(UsedFrames) \in Nat
<1>1. IsFiniteSet(0 .. MEMSIZE - 1)
  BY Constants, FS_Interval
<1> QED
  BY <1>1, FS_Subset, FS_CardinalityType DEF UsedFrames, Frames

(* What serving a miss counts, beside the counters of the eviction.        *)
LEMMA FillCounts ==
  ASSUME TypeOK, NEW a \in Accesses, NEW f \in Frames, NEW table, NEW counters,
         counters \in {{}, {"evict_clean"}, {"evict_dirty"}},
         Fill(a, f, table, counters)
  PROVE  /\ frames' = [frames EXCEPT ![f] = a.page]
         /\ stats'["hit"] = stats["hit"]
         /\ stats'["miss"] = (stats["miss"] + 1) % COUNTER_MOD
         /\ status' # "aborted" =>
              stats'["ref"] = (stats["ref"] + 1) % COUNTER_MOD
         /\ \A c \in {"evict_clean", "evict_dirty"} :
              stats'[c] = IF c \in counters THEN (stats[c] + 1) % COUNTER_MOD
                                            ELSE stats[c]
<1>1. /\ frames' = [frames EXCEPT ![f] = a.page]
      /\ \/ stats' = Count(counters \cup {"miss", "ref"})
         \/ stats' = Count(counters \cup {"miss"}) /\ status' = "aborted"
  BY DEF Fill, MMZeroFill, MMPageIn, MMPageInAborts
<1>2. DOMAIN stats = {"ref", "hit", "miss", "evict_clean", "evict_dirty"}
  BY DEF TypeOK, MMTypeOK, CSC369_MMStats
<1> QED
  BY <1>1, <1>2 DEF Count

(* Every step keeps the books balanced.                                    *)
LEMMA BalanceStep ==
  ASSUME TypeOK, StatsBalance, [Next]_vars
  PROVE  StatsBalance'
<1> DEFINE hit == stats["hit"]
           miss == stats["miss"]
           clean == stats["evict_clean"]
           dirty == stats["evict_dirty"]
           U == Cardinality(UsedFrames)
<1>1. /\ hit \in Nat /\ miss \in Nat /\ clean \in Nat /\ dirty \in Nat
      /\ stats["ref"] \in Nat /\ U \in Nat
  BY UsedFinite, Constants DEF TypeOK, MMTypeOK, CSC369_MMStats
<1>2. miss = (U + clean + dirty) % COUNTER_MOD
  BY DEF StatsBalance, UsedFrames
<1>3. CASE AccessStep
  <2>1. PICK a \in Accesses :
          /\ status = "running"
          /\ Hit(a) \/ MissFree(a) \/ \E f \in Frames : MissEvict(a, f)
    BY <1>3 DEF AccessStep
  <2>2. a.page \in Pages /\ a.page # NULL
        /\ stats["ref"] = (hit + miss) % COUNTER_MOD
    BY <2>1, Constants DEF Accesses, StatsBalance
  <2>3. ASSUME stats'["hit"] = hit, stats'["miss"] = (miss + 1) % COUNTER_MOD,
               stats'["ref"] = (stats["ref"] + 1) % COUNTER_MOD
        PROVE  stats'["ref"] = (stats'["hit"] + stats'["miss"]) % COUNTER_MOD
    <3>1. stats["ref"] = (miss + hit) % COUNTER_MOD
      BY <2>2, <1>1
    <3> HIDE DEF hit, miss
    <3>2. stats'["ref"] = (((miss + 1) % COUNTER_MOD) + hit) % COUNTER_MOD
      BY <1>1, <2>3, <3>1, BothCounted
    <3>3. (miss + 1) % COUNTER_MOD \in Nat
      BY <1>1, Constants, ModDivision
    <3>4. stats'["ref"] = (hit + ((miss + 1) % COUNTER_MOD)) % COUNTER_MOD
      BY <1>1, <3>2, <3>3
    <3> QED
      BY <2>3, <3>4
  <2>4. CASE Hit(a)
    <3>1. /\ frames' = frames /\ status' = status
          /\ stats'["hit"] = (hit + 1) % COUNTER_MOD
          /\ stats'["ref"] = (stats["ref"] + 1) % COUNTER_MOD
          /\ stats'["miss"] = miss /\ stats'["evict_clean"] = clean
          /\ stats'["evict_dirty"] = dirty
      BY <2>4 DEF Hit, MMHit, Count, TypeOK, MMTypeOK, CSC369_MMStats
    <3>2. stats'["ref"] = (stats'["hit"] + stats'["miss"]) % COUNTER_MOD
      <4> HIDE DEF hit, miss
      <4> QED
        BY <1>1, <2>2, <3>1, BothCounted
    <3> QED
      BY <1>2, <3>1, <3>2 DEF StatsBalance, UsedFrames, FreeFrames
  <2>5. CASE MissFree(a)
    <3>1. PICK f \in Frames : AllocateFree(f) /\ Fill(a, f, pte, {})
      BY <2>5 DEF MissFree
    <3>2. /\ frames' = [frames EXCEPT ![f] = a.page]
          /\ stats'["hit"] = hit
          /\ stats'["miss"] = (miss + 1) % COUNTER_MOD
          /\ status' # "aborted" =>
               stats'["ref"] = (stats["ref"] + 1) % COUNTER_MOD
          /\ stats'["evict_clean"] = clean /\ stats'["evict_dirty"] = dirty
      BY <3>1, FillCounts
    <3>3. UsedFrames' = UsedFrames \cup {f} /\ f \notin UsedFrames
      BY <2>2, <3>1, <3>2
      DEF UsedFrames, AllocateFree, FindFreeFrame, FreeFrames, TypeOK, MMTypeOK
    <3>4. Cardinality(UsedFrames') = U + 1
      BY <3>3, UsedFinite, FS_AddElement
    <3>5. miss = (U + (clean + dirty)) % COUNTER_MOD
      BY <1>1, <1>2
    <3>6. stats'["miss"] = (Cardinality(UsedFrames') + stats'["evict_clean"]
                              + stats'["evict_dirty"]) % COUNTER_MOD
      <4>1. stats'["miss"] = (U + 1 + (clean + dirty)) % COUNTER_MOD
        <5> DEFINE e == clean + dirty
        <5>1. e \in Nat /\ miss = (U + e) % COUNTER_MOD
          BY <1>1, <3>5
        <5> HIDE DEF U, e, miss
        <5>2. U \in Nat
          BY <1>1
        <5>3. (miss + 1) % COUNTER_MOD = (U + 1 + e) % COUNTER_MOD
          BY ONLY <5>1, <5>2, BothCounted
        <5> QED
          BY <3>2, <5>3 DEF e
      <4>2. U + 1 + (clean + dirty) = U + 1 + clean + dirty
        BY <1>1
      <4> QED
        BY <3>2, <3>4, <4>1, <4>2
    <3> QED
      BY <2>3, <3>2, <3>6 DEF StatsBalance, UsedFrames
  <2>6. ASSUME NEW f \in Frames, MissEvict(a, f)
        PROVE  StatsBalance'
    <3>1. PICK offset \in SwapOffsets \cup {CSC369_INVALID_SWAP} :
            /\ AllocateEvict(f, offset)
            /\ Fill(a, f, EvictedTable(frames[f], offset),
                    {EvictCounter(frames[f])})
      BY <2>6 DEF MissEvict
    <3> DEFINE c == EvictCounter(frames[f])
    <3>2. c \in {"evict_clean", "evict_dirty"}
      BY DEF EvictCounter
    <3>3. {c} \in {{}, {"evict_clean"}, {"evict_dirty"}}
      BY <3>2
    <3>4. /\ frames' = [frames EXCEPT ![f] = a.page]
          /\ stats'["hit"] = hit
          /\ stats'["miss"] = (miss + 1) % COUNTER_MOD
          /\ status' # "aborted" =>
               stats'["ref"] = (stats["ref"] + 1) % COUNTER_MOD
          /\ \A d \in {"evict_clean", "evict_dirty"} :
               stats'[d] = IF d \in {c} THEN (stats[d] + 1) % COUNTER_MOD
                                        ELSE stats[d]
      BY <3>1, <3>3, FillCounts
    <3> HIDE DEF c
    <3>5. UsedFrames' = UsedFrames
      BY <2>2, <3>1, <3>4
      DEF UsedFrames, AllocateEvict, FreeFrames, TypeOK, MMTypeOK
    <3>6. CASE c = "evict_clean"
      <4>1. /\ stats'["evict_clean"] = (clean + 1) % COUNTER_MOD
            /\ stats'["evict_dirty"] = dirty
        BY <3>4, <3>6
      <4>2. miss = (clean + (U + dirty)) % COUNTER_MOD
        BY <1>1, <1>2
      <4>3. stats'["miss"] =
              (((clean + 1) % COUNTER_MOD) + (U + dirty)) % COUNTER_MOD
        <5> HIDE DEF U, clean, dirty, miss
        <5> QED
          BY <1>1, <3>4, <4>2, BothCounted
      <4>4. (clean + 1) % COUNTER_MOD \in Nat
        BY <1>1, Constants, ModDivision
      <4>5. stats'["miss"] = (Cardinality(UsedFrames') + stats'["evict_clean"]
                                + stats'["evict_dirty"]) % COUNTER_MOD
        BY <1>1, <3>5, <4>1, <4>3, <4>4
      <4> QED
        BY <2>3, <3>4, <4>5 DEF StatsBalance, UsedFrames
    <3>7. CASE c = "evict_dirty"
      <4>1. /\ stats'["evict_dirty"] = (dirty + 1) % COUNTER_MOD
            /\ stats'["evict_clean"] = clean
        BY <3>4, <3>7
      <4>2. miss = (dirty + (U + clean)) % COUNTER_MOD
        BY <1>1, <1>2
      <4>3. stats'["miss"] =
              (((dirty + 1) % COUNTER_MOD) + (U + clean)) % COUNTER_MOD
        <5> HIDE DEF U, clean, dirty, miss
        <5> QED
          BY <1>1, <3>4, <4>2, BothCounted
      <4>4. (dirty + 1) % COUNTER_MOD \in Nat
        <5>1. dirty + 1 \in Nat /\ COUNTER_MOD \in Nat \ {0}
          BY <1>1, Constants
        <5> HIDE DEF dirty
        <5>2. (dirty + 1) % COUNTER_MOD \in 0 .. COUNTER_MOD - 1
          BY ONLY <5>1, ModDivision
        <5> QED
          BY ONLY <5>1, <5>2
      <4>5. stats'["miss"] = (Cardinality(UsedFrames') + stats'["evict_clean"]
                                + stats'["evict_dirty"]) % COUNTER_MOD
        BY <1>1, <3>5, <4>1, <4>3, <4>4
      <4> QED
        BY <2>3, <3>4, <4>5 DEF StatsBalance, UsedFrames
    <3> QED
      BY <3>2, <3>6, <3>7
  <2> QED
    BY <2>1, <2>4, <2>5, <2>6
<1>4. CASE /\ UNCHANGED mmVars
           /\ \/ status' = "done" /\ status = "running"
              \/ status' = status
  BY <1>4 DEF StatsBalance, FreeFrames, mmVars
<1> QED
  BY <1>3, <1>4, NextCases

(* Each miss of the run took a free frame or evicted a page, and each      *)
(* completed access counted once as a hit or a miss: the statistics that   *)
(* memsim prints add up, modulo the width of its counters, whatever the    *)
(* policy, the disk and the length of the trace.                           *)
THEOREM StatsCorrect == Spec => []StatsBalance
<1>1. Init => StatsBalance
  <2> SUFFICES ASSUME Init PROVE StatsBalance
    OBVIOUS
  <2>1. /\ Frames \ FreeFrames = {} /\ Cardinality({}) = 0
        /\ \A c \in {"ref", "hit", "miss", "evict_clean", "evict_dirty"} :
             stats[c] = 0
    BY FS_EmptySet DEF Init, MMCreate, CSC369_CoremapCreate, FreeFrames
  <2>2. 0 % COUNTER_MOD = 0
    BY Constants
  <2> QED
    BY <2>1, <2>2 DEF StatsBalance
<1>2. TypeOK /\ StatsBalance /\ [Next]_vars => StatsBalance'
  BY BalanceStep
<1> QED
  BY <1>1, <1>2, TypeCorrect, PTL DEF Spec

-----------------------------------------------------------------------------
(* No page is lost *)

(* Every page table entry of a page on swap names a slot.                  *)
SwappedHaveSlots(table) ==
  \A p \in Pages : table[p].on_swap => table[p].swap_offset # CSC369_INVALID_SWAP

(* Every slot marked used in map belongs to a page.                        *)
SlotsNamed(table, map) ==
  \A idx \in map : \E p \in Pages : table[p].swap_offset = SlotOffset(idx)

(* The inductive invariant: no slot is wasted, so that none is missing     *)
(* when a page is evicted for the first time.                              *)
KeepInv ==
  /\ status # "aborted"
  /\ SwappedHaveSlots(pte)
  /\ SlotsNamed(pte, swapmap)

(* There are as many slots as the swap is large.                           *)
LEMMA SlotsCardinality == IsFiniteSet(Slots) /\ Cardinality(Slots) = SWAPSIZE
<1>1. SWAPSIZE \in Nat \ {0} /\ 0 \in Int /\ SWAPSIZE - 1 \in Int
  BY Constants
<1>2. /\ IsFiniteSet(0 .. SWAPSIZE - 1)
      /\ Cardinality(0 .. SWAPSIZE - 1) =
           IF 0 > SWAPSIZE - 1 THEN 0 ELSE SWAPSIZE - 1 - 0 + 1
  BY <1>1, FS_Interval
<1> QED
  BY <1>1, <1>2 DEF Slots

(* While a page has no slot the bitmap is not full: the used slots are     *)
(* owned by the other pages, one each, and those are fewer than the slots. *)
LEMMA SlotLeft ==
  ASSUME SwapLargeEnough, TypeOK, SlotsNamed(pte, swapmap), NEW v \in Pages,
         pte[v].swap_offset = CSC369_INVALID_SWAP
  PROVE  swapmap # Slots
<1> SUFFICES ASSUME swapmap = Slots PROVE FALSE
  OBVIOUS
<1> DEFINE owner == [idx \in Slots |->
                       CHOOSE p \in Pages : pte[p].swap_offset = SlotOffset(idx)]
<1>1. ASSUME NEW idx \in Slots
      PROVE  /\ owner[idx] \in Pages \ {v}
             /\ pte[owner[idx]].swap_offset = SlotOffset(idx)
  <2>1. \E p \in Pages : pte[p].swap_offset = SlotOffset(idx)
    BY DEF SlotsNamed
  <2>2. owner[idx] \in Pages /\ pte[owner[idx]].swap_offset = SlotOffset(idx)
    BY <2>1
  <2> QED
    BY <2>2, SlotOffsetType
<1>2. \A i, j \in Slots : owner[i] = owner[j] => i = j
  BY <1>1, SlotOffsetInjective
<1>3. owner \in [Slots -> Pages \ {v}]
  BY <1>1
<1> HIDE DEF owner
<1>4. owner \in Injection(Slots, Pages \ {v})
  BY <1>2, <1>3, Fun_IsInj
<1>5. /\ IsFiniteSet(Pages \ {v})
      /\ Cardinality(Pages \ {v}) = Cardinality(Pages) - 1
      /\ Cardinality(Pages) \in Nat
  BY FS_RemoveElement, FS_CardinalityType DEF SwapLargeEnough
<1>6. Cardinality(Slots) <= Cardinality(Pages \ {v})
  BY <1>4, <1>5, FS_Injection
<1> QED
  BY <1>5, <1>6, SlotsCardinality, Constants DEF SwapLargeEnough

(* An eviction finds or allocates a slot for its page, and wastes none.    *)
LEMMA EvictedKept ==
  ASSUME SwapLargeEnough, ReliableDisk, TypeOK, KeepInv, NEW v \in Pages,
         NEW content, NEW result,
         CSC369_SwapPageOut(content, pte[v].swap_offset, result)
  PROVE  /\ SwappedHaveSlots(EvictedTable(v, result))
         /\ SlotsNamed(EvictedTable(v, result), swapmap')
<1> DEFINE T == EvictedTable(v, result)
<1>1. /\ T[v].swap_offset = result
      /\ \A q \in Pages : q # v => T[q] = pte[q]
  BY DEF EvictedTable, TypeOK, MMTypeOK, PTE
<1>2. PICK idx \in Slots, n \in Transfers :
        /\ IF pte[v].swap_offset = CSC369_INVALID_SWAP
             THEN CSC369_BitmapAlloc(idx)
             ELSE pte[v].swap_offset = SlotOffset(idx)
        /\ swapmap' = IF pte[v].swap_offset = CSC369_INVALID_SWAP
                        THEN swapmap \cup {idx} ELSE swapmap
        /\ result = IF n = FRAME_SIZE THEN SlotOffset(idx)
                                      ELSE CSC369_INVALID_SWAP
  BY SlotLeft DEF CSC369_SwapPageOut, KeepInv
<1>3. result = SlotOffset(idx) /\ result # CSC369_INVALID_SWAP
  BY <1>2, SlotOffsetType DEF ReliableDisk
<1> HIDE DEF T
<1>4. ASSUME NEW q \in Pages, T[q].on_swap
      PROVE  T[q].swap_offset # CSC369_INVALID_SWAP
  BY <1>1, <1>3, <1>4 DEF KeepInv, SwappedHaveSlots
<1>5. ASSUME NEW j \in swapmap'
      PROVE  \E p \in Pages : T[p].swap_offset = SlotOffset(j)
  <2>1. CASE j = idx
    BY <2>1, <1>1, <1>3
  <2>2. CASE j # idx
    <3>1. PICK p \in Pages : pte[p].swap_offset = SlotOffset(j)
      BY <2>2, <1>2, <1>5 DEF KeepInv, SlotsNamed
    <3>2. j \in Slots
      BY <2>2, <1>2, <1>5 DEF TypeOK, MMTypeOK, SwapTypeOK
    <3>3. p # v
      BY <3>1, <3>2, <2>2, <1>2, SlotOffsetInjective, SlotOffsetType
    <3> QED
      BY <3>1, <3>3, <1>1
  <2> QED
    BY <2>1, <2>2
<1> QED
  BY <1>4, <1>5 DEF T, SwappedHaveSlots, SlotsNamed

(* Serving a miss does not abort, and keeps every page in its place.       *)
LEMMA FillKeeps ==
  ASSUME status = "running", NEW a \in Accesses, NEW f \in Frames,
         NEW table \in [Pages -> PTE], NEW counters,
         SwappedHaveSlots(table), SlotsNamed(table, swapmap'),
         Fill(a, f, table, counters)
  PROVE  KeepInv'
<1>1. a.page \in Pages /\ table[a.page] \in PTE
  BY DEF Accesses
<1>2. ~MMPageInAborts(a.page, f, table, counters)
  BY <1>1 DEF MMPageInAborts, SwappedHaveSlots
<1>3. \A q \in Pages : pte'[q].swap_offset = table[q].swap_offset
  BY FillKeepsOffsets
<1>4. status' = "running"
  BY <1>2 DEF Fill
<1>5. \A q \in Pages : pte'[q].on_swap => table[q].on_swap
  BY <1>1, <1>2 DEF Fill, MMZeroFill, MMPageIn, PTE
<1> QED
  BY <1>3, <1>4, <1>5 DEF KeepInv, SwappedHaveSlots, SlotsNamed

(* Every step keeps every page.                                            *)
LEMMA KeepStep ==
  ASSUME SwapLargeEnough, ReliableDisk, TypeOK, KeepInv, [Next]_vars
  PROVE  KeepInv'
<1>1. CASE AccessStep
  <2>1. PICK a \in Accesses :
          /\ status = "running"
          /\ Hit(a) \/ MissFree(a) \/ \E f \in Frames : MissEvict(a, f)
    BY <1>1 DEF AccessStep
  <2>2. /\ a.page \in Pages /\ pte \in [Pages -> PTE]
        /\ SwappedHaveSlots(pte) /\ SlotsNamed(pte, swapmap)
    BY DEF Accesses, TypeOK, MMTypeOK, KeepInv
  <2>3. CASE Hit(a)
    <3>1. /\ swapmap' = swapmap /\ status' = status
          /\ \A q \in Pages : /\ pte'[q].swap_offset = pte[q].swap_offset
                              /\ pte'[q].on_swap = pte[q].on_swap
      BY <2>2, <2>3 DEF Hit, MMHit, PTE
    <3> QED
      BY <3>1, <2>1, <2>2 DEF KeepInv, SwappedHaveSlots, SlotsNamed
  <2>4. CASE MissFree(a)
    <3>1. PICK f \in Frames : AllocateFree(f) /\ Fill(a, f, pte, {})
      BY <2>4 DEF MissFree
    <3>2. SlotsNamed(pte, swapmap')
      BY <3>1, <2>2 DEF AllocateFree, swapVars
    <3> QED
      BY <3>1, <3>2, <2>1, <2>2, FillKeeps
  <2>5. ASSUME NEW f \in Frames, MissEvict(a, f)
        PROVE  KeepInv'
    <3>1. PICK offset \in SwapOffsets \cup {CSC369_INVALID_SWAP} :
            /\ AllocateEvict(f, offset)
            /\ Fill(a, f, EvictedTable(frames[f], offset),
                    {EvictCounter(frames[f])})
      BY <2>5 DEF MissEvict
    <3>2. frames[f] \in Pages
      BY <3>1, FullMemory DEF AllocateEvict
    <3>3. /\ SwappedHaveSlots(EvictedTable(frames[f], offset))
          /\ SlotsNamed(EvictedTable(frames[f], offset), swapmap')
      BY <3>1, <3>2, EvictedKept DEF AllocateEvict, CSC369_MMHandleEviction
    <3> QED
      BY <3>1, <3>2, <3>3, <2>1, EvictedTableType, FillKeeps
  <2> QED
    BY <2>1, <2>3, <2>4, <2>5
<1>2. CASE UNCHANGED mmVars /\ status' = "done"
  BY <1>2 DEF KeepInv, SwappedHaveSlots, SlotsNamed, mmVars
<1>3. CASE UNCHANGED mmVars /\ status' = status
  BY <1>3 DEF KeepInv, SwappedHaveSlots, SlotsNamed, mmVars
<1> QED
  BY <1>1, <1>2, <1>3, NextCases

(* With a reliable disk and one slot per page, every used slot belongs to  *)
(* a page and every page on swap has a slot.                               *)
THEOREM KeepCorrect ==
  ASSUME SwapLargeEnough, ReliableDisk
  PROVE  Spec => []KeepInv
<1>1. Init => KeepInv
  BY DEF Init, MMCreate, SwapCreate, CSC369_PTECreate, KeepInv,
         SwappedHaveSlots, SlotsNamed
<1>2. TypeOK /\ KeepInv /\ [Next]_vars => KeepInv'
  BY KeepStep
<1> QED
  BY <1>1, <1>2, TypeCorrect, PTL DEF Spec

(* With a reliable disk and one slot per page, as HANDOUT.md asks for, no  *)
(* page-out ever fails and the assertion of CSC369_SwapPageIn never fires, *)
(* however often pages are evicted.                                        *)
THEOREM NoAbort ==
  ASSUME SwapLargeEnough, ReliableDisk
  PROVE  Spec => []NeverAborts
<1>1. KeepInv => NeverAborts
  BY DEF KeepInv, NeverAborts
<1> QED
  BY <1>1, KeepCorrect, PTL

-----------------------------------------------------------------------------
(* Flat memory.  The trace stays inside its frames.                        *)

(* The memory that table, the frames in mem and the swap file represent;   *)
(* VirtualMemory is that of the present state.                             *)
MemoryOf(table, mem, file) ==
  [p \in Pages |-> IF table[p].valid THEN mem[table[p].frame_number]
                   ELSE IF table[p].on_swap THEN file[table[p].swap_offset]
                   ELSE ZeroFrame]

(* What an access makes of a memory: a write changes one byte of the page, *)
(* a read nothing.                                                         *)
Performs(a, before, after) ==
  IF IsWrite(a) THEN after = [before EXCEPT ![a.page][a.offset] = a.value]
                ELSE after = before

LEMMA InsideFrame ==
  ASSUME TraceInsideFrame, NEW a \in Accesses
  PROVE  /\ a.page \in Pages /\ a.offset \in TraceOffsets /\ a.value \in Values
         /\ a.offset \in Offsets /\ a.offset < FRAME_SIZE
BY Constants DEF TraceInsideFrame, Accesses, TraceOffsets, Offsets

(* An access in frame f performs on that frame and on what the trace wrote *)
(* what it is asked to.                                                    *)
LEMMA TouchPerforms ==
  ASSUME TraceInsideFrame, NEW a \in Accesses, NEW f \in Frames,
         NEW mem \in [Frames -> Contents], Touch(a, f, mem)
  PROVE  /\ physmem' = IF IsWrite(a) THEN [mem EXCEPT ![f][a.offset] = a.value]
                                     ELSE mem
         /\ Performs(a, written, written')
<1>1. a.offset < FRAME_SIZE
  BY InsideFrame
<1>2. ByteFrame(f, a.offset) = f /\ ByteOffset(a.offset) = a.offset
  BY <1>1 DEF ByteFrame, ByteOffset
<1> QED
  BY <1>2 DEF Touch, Performs

(* The page of the access is in frame f, and no other page is: what is     *)
(* done to the frame is done to the page, in the memory as a whole.        *)
LEMMA FramePerforms ==
  ASSUME TraceInsideFrame, NEW a \in Accesses, NEW f \in Frames,
         NEW mem \in [Frames -> Contents], Touch(a, f, mem),
         NEW table \in [Pages -> PTE], NEW file,
         table[a.page].valid, table[a.page].frame_number = f,
         \A q \in Pages : q # a.page /\ table[q].valid => table[q].frame_number # f
  PROVE  Performs(a, MemoryOf(table, mem, file), MemoryOf(table, physmem', file))
<1>1. /\ a.page \in Pages /\ a.offset \in Offsets
      /\ mem[f] \in Contents /\ DOMAIN mem[f] = Offsets
  BY InsideFrame DEF Contents
<1>2. physmem' = IF IsWrite(a) THEN [mem EXCEPT ![f][a.offset] = a.value] ELSE mem
  BY TouchPerforms
<1>3. CASE IsWrite(a)
  <2> DEFINE M == MemoryOf(table, mem, file)
             W == MemoryOf(table, physmem', file)
  <2>1. /\ physmem'[f] = [mem[f] EXCEPT ![a.offset] = a.value]
        /\ \A g \in Frames : g # f => physmem'[g] = mem[g]
    BY <1>1, <1>2, <1>3
  <2>2. M[a.page] = mem[f] /\ W[a.page] = physmem'[f]
    BY <1>1 DEF MemoryOf
  <2>3. \A q \in Pages : q # a.page => W[q] = M[q]
    BY <2>1 DEF MemoryOf, PTE
  <2>4. /\ M = [q \in Pages |-> M[q]] /\ W = [q \in Pages |-> W[q]]
    BY DEF MemoryOf
  <2> HIDE DEF M, W
  <2>5. W = [M EXCEPT ![a.page] = [M[a.page] EXCEPT ![a.offset] = a.value]]
    BY <1>1, <2>1, <2>2, <2>3, <2>4
  <2> QED
    BY <1>3, <2>5 DEF Performs, M, W
<1>4. CASE ~IsWrite(a)
  BY <1>2, <1>4 DEF Performs
<1> QED
  BY <1>3, <1>4

(* Serving a miss in an available frame performs the access on the memory  *)
(* that there was before the frame was filled.                             *)
LEMMA FillPerforms ==
  ASSUME TraceInsideFrame, ReliableDisk, TypeOK, SwapTypeOK', NEW a \in Accesses,
         NEW f \in Frames, NEW table \in [Pages -> PTE], NEW counters,
         FrameAvailable(f, table), ~table[a.page].valid, SwappedHaveSlots(table),
         Fill(a, f, table, counters)
  PROVE  /\ Performs(a, MemoryOf(table, physmem, swapfile'), VirtualMemory')
         /\ Performs(a, written, written')
<1>1. /\ a.page \in Pages /\ table[a.page] \in PTE
      /\ physmem \in [Frames -> Contents]
  BY DEF Accesses, TypeOK, MMTypeOK
<1>2. VirtualMemory' = MemoryOf(pte', physmem', swapfile')
  BY DEF VirtualMemory, MemoryOf
<1>3. ASSUME NEW content \in Contents, Touch(a, f, [physmem EXCEPT ![f] = content]),
             content = IF table[a.page].on_swap
                         THEN swapfile'[table[a.page].swap_offset] ELSE ZeroFrame,
             pte' \in [Pages -> PTE],
             pte'[a.page].valid, pte'[a.page].frame_number = f,
             \A q \in Pages : q # a.page => pte'[q] = table[q]
      PROVE  /\ Performs(a, MemoryOf(table, physmem, swapfile'), VirtualMemory')
             /\ Performs(a, written, written')
  <2> DEFINE mem == [physmem EXCEPT ![f] = content]
  <2>1. /\ mem \in [Frames -> Contents] /\ mem[f] = content
        /\ \A g \in Frames : g # f => mem[g] = physmem[g]
    BY <1>1
  <2>2. Touch(a, f, mem)
    BY <1>3
  <2> HIDE DEF mem
  <2>3. \A q \in Pages : q # a.page /\ pte'[q].valid => pte'[q].frame_number # f
    BY <1>3 DEF FrameAvailable
  <2>4. MemoryOf(pte', mem, swapfile')[a.page] =
          MemoryOf(table, physmem, swapfile')[a.page]
    BY <1>1, <1>3, <2>1 DEF MemoryOf
  <2>5. ASSUME NEW q \in Pages, q # a.page
        PROVE  MemoryOf(pte', mem, swapfile')[q] =
                 MemoryOf(table, physmem, swapfile')[q]
    BY <1>3, <2>1, <2>3, <2>5 DEF MemoryOf, PTE
  <2>6. MemoryOf(pte', mem, swapfile') = MemoryOf(table, physmem, swapfile')
    BY <2>4, <2>5 DEF MemoryOf
  <2>7. Performs(a, MemoryOf(pte', mem, swapfile'),
                 MemoryOf(pte', physmem', swapfile'))
    BY <1>3, <2>1, <2>2, <2>3, FramePerforms
  <2> QED
    BY <1>2, <2>1, <2>2, <2>6, <2>7, TouchPerforms
<1>4. CASE /\ MMZeroFill(a.page, f, table, counters)
           /\ Touch(a, f, [physmem EXCEPT ![f] = ZeroFrame])
  <2>1. /\ ~table[a.page].on_swap /\ pte' \in [Pages -> PTE]
        /\ pte'[a.page].valid /\ pte'[a.page].frame_number = f
        /\ \A q \in Pages : q # a.page => pte'[q] = table[q]
    BY <1>1, <1>4 DEF MMZeroFill, PTE
  <2> QED
    BY <1>3, <1>4, <2>1, ZeroFrameType
<1>5. CASE /\ MMPageIn(a.page, f, table, counters, IsWrite(a))
           /\ \E content \in CSC369_SwapPageIn(swapfile', physmem[f],
                                               table[a.page].swap_offset) :
                Touch(a, f, [physmem EXCEPT ![f] = content])
  <2>1. PICK content \in CSC369_SwapPageIn(swapfile', physmem[f],
                                           table[a.page].swap_offset) :
          Touch(a, f, [physmem EXCEPT ![f] = content])
    BY <1>5
  <2>2. table[a.page].on_swap /\ table[a.page].swap_offset \in SwapOffsets
    BY <1>1, <1>5 DEF MMPageIn, PTE
  <2>3. swapfile'[table[a.page].swap_offset] \in Contents
    BY <2>2 DEF SwapTypeOK
  <2>4. content = swapfile'[table[a.page].swap_offset]
    BY <2>1, <2>3, <1>1, CopyWhole DEF CSC369_SwapPageIn, ReliableDisk
  <2>5. IsWrite(a) \in BOOLEAN
    BY DEF IsWrite
  <2>6. /\ pte' \in [Pages -> PTE]
        /\ pte'[a.page].valid /\ pte'[a.page].frame_number = f
        /\ \A q \in Pages : q # a.page => pte'[q] = table[q]
    BY <1>1, <1>5, <2>5 DEF MMPageIn, PTE
  <2> QED
    BY <1>3, <2>1, <2>2, <2>3, <2>4, <2>6
<1>6. ~MMPageInAborts(a.page, f, table, counters)
  BY <1>1 DEF MMPageInAborts, SwappedHaveSlots
<1> QED
  BY <1>4, <1>5, <1>6 DEF Fill

(* An eviction moves a page to swap and changes no page.                   *)
LEMMA EvictedMemory ==
  ASSUME SwapLargeEnough, ReliableDisk, TypeOK, CoremapConsistent, SlotsExclusive,
         KeepInv, status = "running", NEW f \in Frames,
         NEW offset \in SwapOffsets \cup {CSC369_INVALID_SWAP},
         AllocateEvict(f, offset)
  PROVE  MemoryOf(EvictedTable(frames[f], offset), physmem, swapfile') = VirtualMemory
<1> DEFINE v == frames[f]
           T == EvictedTable(v, offset)
<1>1. v \in Pages /\ pte[v].valid /\ pte[v].frame_number = f
  BY Constants, FullMemory DEF AllocateEvict, CoremapConsistent
<1>2. /\ ~T[v].valid /\ T[v].on_swap /\ T[v].swap_offset = offset
      /\ \A q \in Pages : q # v => T[q] = pte[q]
  BY <1>1 DEF EvictedTable, TypeOK, MMTypeOK, PTE
<1>3. CSC369_SwapPageOut(physmem[f], pte[v].swap_offset, offset)
  BY <1>1 DEF AllocateEvict, CSC369_MMHandleEviction
<1>4. physmem[f] \in Contents
  BY DEF TypeOK, MMTypeOK
<1> HIDE DEF v
<1>5. offset # CSC369_INVALID_SWAP
  BY <1>1, <1>2, <1>3, EvictedKept DEF SwappedHaveSlots
<1>6. /\ swapfile'[offset] = physmem[f]
      /\ \A q \in Pages :
           q # v /\ pte[q].swap_offset # CSC369_INVALID_SWAP =>
             swapfile'[pte[q].swap_offset] = swapfile[pte[q].swap_offset]
  BY <1>1, <1>3, <1>4, <1>5, PageOutStores
<1> HIDE DEF T
<1>7. MemoryOf(T, physmem, swapfile')[v] = VirtualMemory[v]
  BY <1>1, <1>2, <1>6 DEF MemoryOf, VirtualMemory
<1>8. ASSUME NEW q \in Pages, q # v
      PROVE  MemoryOf(T, physmem, swapfile')[q] = VirtualMemory[q]
  BY <1>2, <1>6, <1>8 DEF MemoryOf, VirtualMemory, KeepInv, SwappedHaveSlots
<1>9. MemoryOf(T, physmem, swapfile') = VirtualMemory
  BY <1>7, <1>8 DEF MemoryOf, VirtualMemory
<1> QED
  BY <1>9 DEF T, v

(* Every access performs on the virtual memory what the trace asks for.    *)
LEMMA AccessPerforms ==
  ASSUME TraceInsideFrame, SwapLargeEnough, ReliableDisk, TypeOK, TypeOK',
         CoremapConsistent, SlotsExclusive, KeepInv, status = "running",
         NEW a \in Accesses,
         Hit(a) \/ MissFree(a) \/ \E f \in Frames : MissEvict(a, f)
  PROVE  /\ Performs(a, VirtualMemory, VirtualMemory')
         /\ Performs(a, written, written')
<1>1. /\ a.page \in Pages /\ pte \in [Pages -> PTE] /\ SwapTypeOK'
      /\ physmem \in [Frames -> Contents] /\ SwappedHaveSlots(pte)
      /\ pte' \in [Pages -> PTE]
  BY DEF Accesses, TypeOK, MMTypeOK, KeepInv
<1>2. VirtualMemory = MemoryOf(pte, physmem, swapfile)
  BY DEF VirtualMemory, MemoryOf
<1>3. CASE Hit(a)
  <2> DEFINE f == pte[a.page].frame_number
  <2>1. /\ pte[a.page].valid /\ f \in Frames
        /\ Touch(a, f, physmem) /\ swapfile' = swapfile
    BY <1>1, <1>3 DEF Hit, MMHit, PTE
  <2>2. \A q \in Pages : /\ pte'[q].valid = pte[q].valid
                         /\ pte'[q].frame_number = pte[q].frame_number
                         /\ pte'[q].on_swap = pte[q].on_swap
                         /\ pte'[q].swap_offset = pte[q].swap_offset
    BY <1>1, <1>3 DEF Hit, MMHit, PTE
  <2>3. \A q \in Pages : q # a.page /\ pte[q].valid => pte[q].frame_number # f
    BY <1>1, <2>1 DEF CoremapConsistent
  <2>4. VirtualMemory' = MemoryOf(pte, physmem', swapfile)
    BY <2>1, <2>2 DEF VirtualMemory, MemoryOf
  <2> HIDE DEF f
  <2>5. Performs(a, MemoryOf(pte, physmem, swapfile),
                 MemoryOf(pte, physmem', swapfile))
    BY <1>1, <2>1, <2>3, FramePerforms DEF f
  <2> QED
    BY <1>1, <1>2, <2>1, <2>4, <2>5, TouchPerforms
<1>4. CASE MissFree(a)
  <2>1. PICK f \in Frames : AllocateFree(f) /\ Fill(a, f, pte, {})
    BY <1>4 DEF MissFree
  <2>2. ~pte[a.page].valid /\ swapfile' = swapfile
    BY <1>4, <2>1 DEF MissFree, AllocateFree, swapVars
  <2> QED
    BY <1>1, <1>2, <2>1, <2>2, FreeFrameAvailable, FillPerforms
<1>5. ASSUME NEW f \in Frames, MissEvict(a, f)
      PROVE  /\ Performs(a, VirtualMemory, VirtualMemory')
             /\ Performs(a, written, written')
  <2>1. PICK offset \in SwapOffsets \cup {CSC369_INVALID_SWAP} :
          /\ AllocateEvict(f, offset)
          /\ Fill(a, f, EvictedTable(frames[f], offset), {EvictCounter(frames[f])})
    BY <1>5 DEF MissEvict
  <2> DEFINE T == EvictedTable(frames[f], offset)
  <2>2. frames[f] \in Pages /\ FreeFrames = {}
    BY <2>1, FullMemory DEF AllocateEvict
  <2>3. ~T[a.page].valid
    <3>1. ~pte[a.page].valid /\ a.page \in Pages /\ pte \in [Pages -> PTE]
      BY <1>1, <1>5 DEF MissEvict
    <3> QED
      BY <2>2, <3>1 DEF EvictedTable, PTE
  <2>4. FrameAvailable(f, T) /\ T \in [Pages -> PTE]
    BY <2>2, EvictedFrameAvailable, EvictedTableType
  <2>5. SwappedHaveSlots(T)
    BY <2>1, <2>2, EvictedKept DEF AllocateEvict, CSC369_MMHandleEviction
  <2>6. MemoryOf(T, physmem, swapfile') = VirtualMemory
    BY <2>1, EvictedMemory
  <2>7. Fill(a, f, T, {EvictCounter(frames[f])})
    BY <2>1
  <2> HIDE DEF T
  <2> QED
    BY <1>1, <2>3, <2>4, <2>5, <2>6, <2>7, FillPerforms
<1> QED
  BY <1>3, <1>4, <1>5

(* Every step of the simulator is a store to the flat memory or leaves it  *)
(* as it is.                                                               *)
LEMMA FlatStep ==
  ASSUME TraceInsideFrame, SwapLargeEnough, ReliableDisk, TypeOK, TypeOK',
         CoremapConsistent, SlotsExclusive, KeepInv, [Next]_vars
  PROVE  [Flat!FlatNext]_Flat!flatVars
<1>1. CASE AccessStep
  <2>1. PICK a \in Accesses :
          /\ status = "running"
          /\ Hit(a) \/ MissFree(a) \/ \E f \in Frames : MissEvict(a, f)
    BY <1>1 DEF AccessStep
  <2>2. /\ Performs(a, VirtualMemory, VirtualMemory')
        /\ Performs(a, written, written')
    BY <2>1, AccessPerforms
  <2>3. CASE IsWrite(a)
    <3>1. Flat!Store(a.page, a.offset, a.value)
      BY <2>2, <2>3 DEF Performs, Flat!Store
    <3> QED
      BY <3>1, InsideFrame DEF Flat!FlatNext
  <2>4. CASE ~IsWrite(a)
    BY <2>2, <2>4 DEF Performs, Flat!flatVars
  <2> QED
    BY <2>3, <2>4
<1>2. CASE UNCHANGED <<mmVars, written>>
  <2>1. VirtualMemory' = VirtualMemory
    BY <1>2 DEF VirtualMemory, mmVars
  <2> QED
    BY <1>2, <2>1 DEF Flat!flatVars
<1> QED
  BY <1>1, <1>2, NextCases

(* Demand paging is invisible: with a reliable disk, one slot per page and *)
(* a trace inside its frames, the simulator is a flat array of bytes that  *)
(* only the stores of the trace change, for every number of frames and     *)
(* every choice of victims.                                                *)
THEOREM FlatMemoryImplemented ==
  ASSUME TraceInsideFrame, SwapLargeEnough, ReliableDisk
  PROVE  Spec => ImplementsFlatMemory
<1>1. Init => Flat!FlatInit
  <2> SUFFICES ASSUME Init PROVE Flat!FlatInit
    OBVIOUS
  <2>1. VirtualMemory = [p \in Pages |-> [o \in Offsets |-> 0]]
    BY DEF Init, MMCreate, CSC369_PTECreate, VirtualMemory, ZeroFrame
  <2> QED
    BY <2>1 DEF Init, Flat!FlatInit
<1>2. /\ TypeOK /\ TypeOK' /\ CoremapConsistent /\ SlotsExclusive /\ KeepInv
      /\ [Next]_vars
      => [Flat!FlatNext]_Flat!flatVars
  BY FlatStep
<1> QED
  BY <1>1, <1>2, TypeCorrect, CoremapCorrect, SlotsCorrect, KeepCorrect, PTL
  DEF Spec, ImplementsFlatMemory, Flat!FlatSpec

-----------------------------------------------------------------------------
(* The circular lists of list.h, for any set N of nodes: what insertion,   *)
(* removal and traversal do to a list of any length                        *)

(* A nonempty set of natural numbers has a least element.                  *)
LEMMA LeastNat ==
  ASSUME NEW T \in SUBSET Nat, T # {}
  PROVE  \E x \in T : \A y \in T : x <= y
<1>1. \E x \in T : \A y \in T : <<y, x>> \notin OpToRel(<, Nat)
  BY NatLessThanWellFounded, WFMin, Zenon
<1>2. \A x, y \in Nat : <<y, x>> \notin OpToRel(<, Nat) => ~(y < x)
  BY Zenon DEF OpToRel
<1>3. \A x, y \in Nat : ~(y < x) => x <= y
  OBVIOUS
<1> QED
  BY <1>1, <1>2, <1>3

(* What the recursive definition in Walk asks of the function it defines.  *)
Follows(l, start, n, g) ==
  g = [k \in 1 .. n |-> IF k = 1 THEN start ELSE l.next[g[k - 1]]]

(* Such a function exists for every number of steps.                       *)
LEMMA FollowsExists ==
  ASSUME NEW l, NEW start, NEW n \in Nat
  PROVE  \E g : Follows(l, start, n, g)
<1> DEFINE T == {j \in Nat : ~ \E g : Follows(l, start, j, g)}
<1> SUFFICES ASSUME T # {} PROVE FALSE
  OBVIOUS
<1>1. PICK j \in T : \A y \in T : j <= y
  <2> HIDE DEF T
  <2>1. T \in SUBSET Nat
    BY DEF T
  <2> QED
    BY <2>1, LeastNat
<1>2. j # 0
  <2>1. Follows(l, start, 0, << >>)
    BY DEF Follows
  <2> QED
    BY <1>1, <2>1
<1>3. PICK g : Follows(l, start, j - 1, g)
  BY <1>1, <1>2
<1> DEFINE h == [k \in 1 .. j |-> IF k = 1 THEN start ELSE l.next[g[k - 1]]]
<1>4. \A k \in 1 .. j - 1 : h[k] = g[k]
  BY <1>1, <1>3 DEF Follows
<1>5. Follows(l, start, j, h)
  <2>1. \A k \in 1 .. j : k # 1 => k - 1 \in 1 .. j - 1
    BY <1>1
  <2>2. \A k \in 1 .. j : k # 1 => h[k] = l.next[h[k - 1]]
    BY <1>4, <2>1
  <2> QED
    BY <2>2 DEF Follows
<1> QED
  BY <1>1, <1>5

(* Walk starts at start and then follows next.                             *)
LEMMA WalkFollows ==
  ASSUME NEW l, NEW start, NEW n \in Nat
  PROVE  /\ DOMAIN Walk(l, start, n) = 1 .. n
         /\ \A k \in 1 .. n :
              Walk(l, start, n)[k] =
                IF k = 1 THEN start ELSE l.next[Walk(l, start, n)[k - 1]]
<1> DEFINE node == CHOOSE g : Follows(l, start, n, g)
<1>1. Follows(l, start, n, node)
  BY FollowsExists
<1>2. Walk(l, start, n) = [k \in 1 .. n |-> node[k]]
  BY DEF Walk, Follows
<1> HIDE DEF node
<1> QED
  BY <1>1, <1>2 DEF Follows
-----------------------------------------------------------------------------
(* Rings *)

(* l holds the two pointers of every node of N.                            *)
Pointers(l, N) ==
  /\ "next" \in DOMAIN l /\ "prev" \in DOMAIN l
  /\ l.next \in [N -> N \cup {NULL}]
  /\ l.prev \in [N -> N \cup {NULL}]

(* The m nodes w[0], ..., w[m - 1] are linked in a ring, in both           *)
(* directions; w[m] is w[0] again.                                         *)
Ring(l, N, w, m) ==
  /\ m \in Nat \ {0}
  /\ w \in [0 .. m -> N]
  /\ w[m] = w[0]
  /\ \A j, k \in 0 .. m - 1 : w[j] = w[k] => j = k
  /\ \A k \in 0 .. m - 1 : l.next[w[k]] = w[k + 1] /\ l.prev[w[k + 1]] = w[k]

(* The nodes of a ring, and those without its first, the head of a list.   *)
OnRing(w, m) == {w[k] : k \in 0 .. m - 1}
OnList(w, m) == {w[k] : k \in 1 .. m - 1}

LEMMA RingNodes ==
  ASSUME NEW l, NEW N, NEW w, NEW m, Ring(l, N, w, m)
  PROVE  /\ OnRing(w, m) \subseteq N
         /\ OnRing(w, m) = OnList(w, m) \cup {w[0]}
         /\ w[0] \notin OnList(w, m)
         /\ \A k \in 0 .. m : w[k] \in OnRing(w, m)
<1>1. m \in Nat \ {0} /\ w[m] = w[0] /\ w \in [0 .. m -> N]
  BY DEF Ring
<1>2. \A k \in 0 .. m : k # m => k \in 0 .. m - 1
  BY <1>1
<1>3. 0 \in 0 .. m - 1 /\ \A k \in 0 .. m - 1 : k \in 0 .. m /\ (k # 0 => k \in 1 .. m - 1)
  BY <1>1
<1>4. \A k \in 1 .. m - 1 : k \in 0 .. m - 1 /\ k # 0
  BY <1>1
<1>5. w[0] \notin OnList(w, m)
  BY <1>3, <1>4 DEF Ring, OnList
<1> QED
  BY <1>1, <1>2, <1>3, <1>4, <1>5 DEF OnRing, OnList

(* The first node of a list is the one after its head, the last the one    *)
(* before it.                                                              *)
LEMMA RingEnds ==
  ASSUME NEW q, NEW N, NEW w, NEW m, Ring(q, N, w, m)
  PROVE  /\ m \in Nat \ {0} /\ m \in 1 .. m /\ 1 \in 1 .. m
         /\ q.next[w[0]] = w[1] /\ q.prev[w[0]] = w[m - 1]
         /\ w[m] = w[0]
<1>1. m \in Nat \ {0} /\ 0 \in 0 .. m - 1 /\ m - 1 \in 0 .. m - 1
      /\ 0 + 1 = 1 /\ (m - 1) + 1 = m /\ w[m] = w[0]
  BY DEF Ring
<1>2. q.next[w[0]] = w[0 + 1] /\ q.prev[w[(m - 1) + 1]] = w[m - 1]
  BY <1>1 DEF Ring
<1> QED
  BY <1>1, <1>2

(* A ring stays one when the pointers of its nodes stay the same.          *)
LEMMA RingKept ==
  ASSUME NEW l, NEW N, NEW w, NEW m, Ring(l, N, w, m), NEW r,
         \A x \in OnRing(w, m) : r.next[x] = l.next[x] /\ r.prev[x] = l.prev[x]
  PROVE  Ring(r, N, w, m)
<1>1. \A k \in 0 .. m - 1 : w[k] \in OnRing(w, m) /\ w[k + 1] \in OnRing(w, m)
  <2>1. m \in Nat \ {0} /\ \A k \in 0 .. m - 1 : k \in 0 .. m /\ k + 1 \in 0 .. m
    BY DEF Ring
  <2> QED
    BY <2>1, RingNodes
<1> QED
  BY <1>1 DEF Ring

(* Following next from the head visits the nodes of the ring, in order.    *)
LEMMA WalkVisits ==
  ASSUME NEW l, NEW N, NEW w, NEW m, Ring(l, N, w, m), NEW n \in Nat
  PROVE  \A k \in 1 .. n : k <= m + 1 => Walk(l, w[0], n)[k] = w[k - 1]
<1> DEFINE nodes == Walk(l, w[0], n)
           T == {k \in 1 .. n : k <= m + 1 /\ nodes[k] # w[k - 1]}
<1> SUFFICES ASSUME T # {} PROVE FALSE
  OBVIOUS
<1>1. m \in Nat \ {0}
  BY DEF Ring
<1>2. \A k \in 1 .. n : nodes[k] = IF k = 1 THEN w[0] ELSE l.next[nodes[k - 1]]
  BY WalkFollows
<1> HIDE DEF nodes
<1>3. PICK k \in T : \A y \in T : k <= y
  <2>1. T \in SUBSET Nat
    OBVIOUS
  <2> HIDE DEF T
  <2> QED
    BY <2>1, LeastNat
<1>4. k \in 1 .. n /\ k <= m + 1 /\ nodes[k] # w[k - 1]
  BY <1>3
<1>5. k # 1
  BY <1>2, <1>4
<1>6. k - 1 \in 1 .. n /\ k - 1 <= m + 1 /\ k - 1 \notin T
  BY <1>1, <1>3, <1>4, <1>5
<1>7. nodes[k - 1] = w[k - 2]
  BY <1>4, <1>6
<1>8. k - 2 \in 0 .. m - 1 /\ (k - 2) + 1 = k - 1
  BY <1>1, <1>4, <1>5
<1>9. l.next[w[k - 2]] = w[(k - 2) + 1]
  BY <1>8 DEF Ring
<1> QED
  BY <1>2, <1>4, <1>5, <1>7, <1>8, <1>9

(* The ring w read from its k-th node on.                                  *)
Rotated(w, m, k) ==
  [i \in 0 .. m |-> IF i + k < m THEN w[i + k] ELSE w[i + k - m]]

LEMMA RotatedRing ==
  ASSUME NEW l, NEW N, NEW w, NEW m, Ring(l, N, w, m), NEW k \in 0 .. m - 1
  PROVE  LET v == Rotated(w, m, k)
         IN  /\ Ring(l, N, v, m) /\ v[0] = w[k] /\ OnRing(v, m) = OnRing(w, m)
<1> DEFINE v == Rotated(w, m, k)
           at(i) == IF i + k < m THEN i + k ELSE i + k - m
<1>2. /\ m \in Nat \ {0} /\ w \in [0 .. m -> N] /\ w[m] = w[0]
  BY DEF Ring
<1>3. \A i \in 0 .. m : at(i) \in 0 .. m - 1 /\ at(i) \in 0 .. m /\ v[i] = w[at(i)]
  BY <1>2 DEF Rotated
<1>4. v \in [0 .. m -> N]
  BY <1>2, <1>3 DEF Rotated
<1>5. at(0) = k /\ at(m) = k /\ 0 \in 0 .. m /\ m \in 0 .. m
  BY <1>2
<1>6. \A i, j \in 0 .. m - 1 : at(i) = at(j) => i = j
  BY <1>2
<1>7. \A i \in 0 .. m - 1 : i \in 0 .. m /\ i + 1 \in 0 .. m
  BY <1>2
<1>8. ASSUME NEW i \in 0 .. m - 1 PROVE w[at(i + 1)] = w[at(i) + 1]
  <2>1. CASE i + k + 1 = m
    <3>1. at(i + 1) = 0 /\ at(i) + 1 = m
      BY <1>2, <2>1
    <3> QED
      BY <1>2, <3>1
  <2>2. CASE i + k + 1 # m
    <3>1. at(i + 1) = at(i) + 1
      BY <1>2, <2>2
    <3> QED
      BY <3>1
  <2> QED
    BY <2>1, <2>2
<1>9. ASSUME NEW i \in 0 .. m - 1
      PROVE  \E j \in 0 .. m - 1 : at(j) = i
  <2>1. CASE i >= k
    <3>1. i - k \in 0 .. m - 1 /\ at(i - k) = i
      BY <1>2, <2>1
    <3> QED
      BY <3>1
  <2>2. CASE i < k
    <3>1. i - k + m \in 0 .. m - 1 /\ at(i - k + m) = i
      BY <1>2, <2>2
    <3> QED
      BY <3>1
  <2> QED
    BY <2>1, <2>2
<1> HIDE DEF v, at
<1>10. Ring(l, N, v, m)
  <2>1. v[m] = v[0]
    BY <1>3, <1>5
  <2>2. \A i, j \in 0 .. m - 1 : v[i] = v[j] => i = j
    BY <1>3, <1>6, <1>7 DEF Ring
  <2>3. ASSUME NEW i \in 0 .. m - 1
        PROVE  l.next[v[i]] = v[i + 1] /\ l.prev[v[i + 1]] = v[i]
    <3>1. v[i] = w[at(i)] /\ v[i + 1] = w[at(i) + 1] /\ at(i) \in 0 .. m - 1
      BY <1>3, <1>7, <1>8
    <3> QED
      BY <3>1 DEF Ring
  <2> QED
    BY <1>2, <1>4, <2>1, <2>2, <2>3 DEF Ring
<1>11. OnRing(v, m) = OnRing(w, m)
  <2>1. OnRing(v, m) \subseteq OnRing(w, m)
    BY <1>3, <1>7 DEF OnRing
  <2>2. ASSUME NEW i \in 0 .. m - 1 PROVE w[i] \in OnRing(v, m)
    BY <1>3, <1>7, <1>9 DEF OnRing
  <2> QED
    BY <2>1, <2>2 DEF OnRing
<1>12. v[0] = w[k]
  BY <1>3, <1>5
<1> QED
  BY <1>10, <1>11, <1>12 DEF v

(* A ring can be read from any of its nodes.                               *)
LEMMA RotateRing ==
  ASSUME NEW l, NEW N, NEW w, NEW m, Ring(l, N, w, m), NEW x \in OnRing(w, m)
  PROVE  \E v : Ring(l, N, v, m) /\ v[0] = x /\ OnRing(v, m) = OnRing(w, m)
<1>1. PICK k \in 0 .. m - 1 : x = w[k]
  BY DEF OnRing
<1> QED
  BY <1>1, RotatedRing

(* Read from its second node, a ring is the same one node further.         *)
LEMMA RotateOne ==
  ASSUME NEW l, NEW N, NEW w, NEW m, Ring(l, N, w, m)
  PROVE  \E v : /\ Ring(l, N, v, m) /\ OnRing(v, m) = OnRing(w, m)
               /\ \A i \in 0 .. m - 1 : v[i] = w[i + 1]
<1>1. m \in Nat \ {0} /\ w[m] = w[0]
  BY DEF Ring
<1>2. CASE m = 1
  BY <1>1, <1>2
<1>3. CASE m # 1
  <2> DEFINE v == Rotated(w, m, 1)
  <2>1. Ring(l, N, v, m) /\ OnRing(v, m) = OnRing(w, m)
    <3>1. 1 \in 0 .. m - 1
      BY <1>1, <1>3
    <3> QED
      BY <3>1, RotatedRing
  <2>2. ASSUME NEW i \in 0 .. m - 1 PROVE v[i] = w[i + 1]
    <3>1. i \in 0 .. m /\ (~(i + 1 < m) => i + 1 = m /\ i + 1 - m = 0)
      BY <1>1
    <3> QED
      BY <1>1, <3>1 DEF Rotated
  <2> HIDE DEF v
  <2> QED
    BY <2>1, <2>2
<1> QED
  BY <1>2, <1>3

(* list_for_each visits the nodes of the ring after the head, in order,    *)
(* provided the bound given for the traversal is no shorter than the list. *)
LEMMA ForEachVisits ==
  ASSUME NEW l, NEW N, NEW w, NEW m, Ring(l, N, w, m), NEW max \in Nat,
         m - 1 <= max
  PROVE  list_for_each(l, w[0], max) = [k \in 1 .. m - 1 |-> w[k]]
<1> DEFINE nodes == Walk(l, w[0], max + 2)
           Last(k) == /\ nodes[k + 1] = w[0]
                      /\ \A j \in 2 .. k : nodes[j] # w[0]
<1>1. m \in Nat \ {0} /\ w[m] = w[0]
  BY DEF Ring
<1>2. /\ DOMAIN nodes = 1 .. max + 2
      /\ \A k \in 1 .. max + 2 :
           nodes[k] = IF k = 1 THEN w[0] ELSE l.next[nodes[k - 1]]
  BY WalkFollows
<1> HIDE DEF nodes
<1>3. \A k \in 1 .. m + 1 : nodes[k] = w[k - 1]
  <2>1. \A k \in 1 .. m + 1 : k \in 1 .. max + 2 /\ k <= m + 1
    BY <1>1
  <2>2. max + 2 \in Nat
    OBVIOUS
  <2>3. \A k \in 1 .. max + 2 : k <= m + 1 => nodes[k] = w[k - 1]
    BY <2>2, WalkVisits DEF nodes
  <2> QED
    BY <2>1, <2>3
<1>4. m \in 1 .. max + 1 /\ Last(m)
  <2>1. m \in 1 .. max + 1 /\ m + 1 \in 1 .. m + 1
    BY <1>1
  <2>2. nodes[m + 1] = w[0]
    BY <1>1, <1>3, <2>1
  <2>3. ASSUME NEW j \in 2 .. m PROVE nodes[j] # w[0]
    <3>1. j \in 1 .. m + 1 /\ j - 1 \in 0 .. m - 1 /\ 0 \in 0 .. m - 1 /\ j - 1 # 0
      BY <1>1
    <3>2. nodes[j] = w[j - 1]
      BY <1>3, <3>1
    <3> QED
      BY <3>1, <3>2 DEF Ring
  <2> QED
    BY <2>1, <2>2, <2>3
<1>5. ASSUME NEW k \in 1 .. max + 1, Last(k) PROVE k = m
  <2>1. ~(k < m)
    <3> SUFFICES ASSUME k < m PROVE FALSE
      OBVIOUS
    <3>1. k + 1 \in 1 .. m + 1 /\ k \in 0 .. m - 1 /\ 0 \in 0 .. m - 1 /\ k # 0
      BY <1>1
    <3>2. nodes[k + 1] = w[(k + 1) - 1] /\ (k + 1) - 1 = k
      BY <1>3, <3>1
    <3>3. w[k] = w[0]
      BY <1>5, <3>2
    <3> QED
      BY <3>1, <3>3 DEF Ring
  <2>2. ~(m < k)
    <3> SUFFICES ASSUME m < k PROVE FALSE
      OBVIOUS
    <3>1. m + 1 \in 2 .. k
      BY <1>1
    <3> QED
      BY <1>4, <1>5, <3>1
  <2> QED
    BY <1>1, <2>1, <2>2
<1>6. m = CHOOSE k \in 1 .. max + 1 : Last(k)
  <2> HIDE DEF Last
  <2> QED
    BY <1>4, <1>5
<1>7. list_for_each(l, w[0], max) = SubSeq(nodes, 2, m)
  BY <1>6 DEF list_for_each, nodes
<1>8. SubSeq(nodes, 2, m) = [k \in 1 .. m - 1 |-> nodes[k + 1]]
  BY <1>1
<1>9. ASSUME NEW k \in 1 .. m - 1 PROVE nodes[k + 1] = w[k]
  <2>1. k + 1 \in 1 .. m + 1 /\ (k + 1) - 1 = k
    BY <1>1
  <2> QED
    BY <1>3, <2>1
<1> QED
  BY <1>7, <1>8, <1>9
-----------------------------------------------------------------------------
(* Insertion and removal *)

(* The pointers that __list_insert changes.                                *)
LEMMA InsertPointers ==
  ASSUME NEW l, NEW N, Pointers(l, N), NEW e \in N, NEW p \in N, NEW q \in N,
         e # p, e # q
  PROVE  LET r == list_insert(l, e, p, q)
         IN  /\ Pointers(r, N)
             /\ r.next[p] = e /\ r.next[e] = q
             /\ r.prev[q] = e /\ r.prev[e] = p
             /\ \A x \in N \ {p, e} : r.next[x] = l.next[x]
             /\ \A x \in N \ {q, e} : r.prev[x] = l.prev[x]
             /\ DOMAIN r = DOMAIN l
             /\ \A c \in DOMAIN l \ {"next", "prev"} : r[c] = l[c]
BY DEF list_insert, Pointers

(* The pointers that list_del changes.                                     *)
LEMMA DelPointers ==
  ASSUME NEW l, NEW N, Pointers(l, N), NULL \notin N, NEW e \in N,
         l.next[e] \in N, l.prev[e] \in N
  PROVE  LET r == list_del(l, e)
         IN  /\ Pointers(r, N)
             /\ r.next[e] = NULL /\ r.prev[e] = NULL
             /\ \A x \in N \ {e} :
                  r.next[x] = IF x = l.prev[e] THEN l.next[e] ELSE l.next[x]
             /\ \A x \in N \ {e} :
                  r.prev[x] = IF x = l.next[e] THEN l.prev[e] ELSE l.prev[x]
             /\ DOMAIN r = DOMAIN l
             /\ \A c \in DOMAIN l \ {"next", "prev"} : r[c] = l[c]
BY DEF list_del, list_entry_init, Pointers

(* The ring w with e put in front of its j-th node.                        *)
Inserted(w, m, j, e) ==
  [k \in 0 .. m + 1 |-> IF k < j THEN w[k] ELSE IF k = j THEN e ELSE w[k - 1]]

(* The ring w without its j-th node.                                       *)
Removed(w, m, j) == [k \in 0 .. m - 1 |-> IF k < j THEN w[k] ELSE w[k + 1]]

(* Putting a node between two neighbours of a ring extends the ring, and   *)
(* leaves nodes that are not on the ring alone.                            *)
LEMMA InsertRing ==
  ASSUME NEW l, NEW N, Pointers(l, N), NEW w, NEW m, Ring(l, N, w, m),
         NEW j \in 1 .. m, NEW e \in N, e \notin OnRing(w, m)
  PROVE  LET r == list_insert(l, e, w[j - 1], w[j])
             v == Inserted(w, m, j, e)
         IN  /\ Ring(r, N, v, m + 1)
             /\ v[0] = w[0] /\ v[j] = e
             /\ OnRing(v, m + 1) = OnRing(w, m) \cup {e}
             /\ \A x \in N \ (OnRing(w, m) \cup {e}) :
                  r.next[x] = l.next[x] /\ r.prev[x] = l.prev[x]
<1> DEFINE r == list_insert(l, e, w[j - 1], w[j])
           v == Inserted(w, m, j, e)
<1>1. /\ m \in Nat \ {0} /\ w \in [0 .. m -> N] /\ w[m] = w[0]
      /\ j - 1 \in 0 .. m - 1 /\ j \in 0 .. m /\ j \in Nat
  BY DEF Ring
<1>2. \A k \in 0 .. m : w[k] \in OnRing(w, m) /\ w[k] \in N /\ w[k] # e
  BY <1>1, RingNodes
<1>3. /\ r.next[w[j - 1]] = e /\ r.next[e] = w[j]
      /\ r.prev[w[j]] = e /\ r.prev[e] = w[j - 1]
      /\ \A x \in N \ {w[j - 1], e} : r.next[x] = l.next[x]
      /\ \A x \in N \ {w[j], e} : r.prev[x] = l.prev[x]
  <2> DEFINE p == w[j - 1]
             q == w[j]
  <2>1. p \in N /\ q \in N /\ p # e /\ q # e
    BY <1>1, <1>2
  <2> HIDE DEF p, q
  <2>2. LET s == list_insert(l, e, p, q)
        IN  /\ s.next[p] = e /\ s.next[e] = q
            /\ s.prev[q] = e /\ s.prev[e] = p
            /\ \A x \in N \ {p, e} : s.next[x] = l.next[x]
            /\ \A x \in N \ {q, e} : s.prev[x] = l.prev[x]
    BY <2>1, InsertPointers
  <2> QED
    BY <2>2 DEF p, q
<1> HIDE DEF r
<1>4. /\ DOMAIN v = 0 .. m + 1 /\ v[j] = e
      /\ \A k \in 0 .. m + 1 : k < j => v[k] = w[k]
      /\ \A k \in 0 .. m + 1 : k > j => v[k] = w[k - 1]
  BY <1>1 DEF Inserted
<1>5. v \in [0 .. m + 1 -> N]
  <2>1. \A k \in 0 .. m + 1 : (k < j => k \in 0 .. m) /\ (k > j => k - 1 \in 0 .. m)
    BY <1>1
  <2> QED
    BY <1>1, <2>1 DEF Inserted
<1> HIDE DEF v
<1>6. v[0] = w[0] /\ v[m + 1] = v[0]
  <2>1. 0 < j /\ m + 1 > j /\ 0 \in 0 .. m + 1 /\ m + 1 \in 0 .. m + 1
        /\ (m + 1) - 1 = m
    BY <1>1
  <2> QED
    BY <1>1, <1>4, <2>1
<1>7. ASSUME NEW a \in 0 .. m, NEW b \in 0 .. m, v[a] = v[b] PROVE a = b
  <2>1. \A k \in 0 .. m : k > j => k - 1 \in 0 .. m - 1 /\ k \in 0 .. m + 1
    BY <1>1
  <2>2. \A k \in 0 .. m : k < j => k \in 0 .. m - 1 /\ k \in 0 .. m + 1
    BY <1>1
  <2>3. \A k \in 0 .. m : k # j => k < j \/ k > j
    BY <1>1
  <2>4. \A k \in 0 .. m : k # j => v[k] # e
    <3> SUFFICES ASSUME NEW k \in 0 .. m, k # j PROVE v[k] # e
      OBVIOUS
    <3>1. CASE k < j
      BY <3>1, <1>1, <1>2, <1>4, <2>2
    <3>2. CASE k > j
      <4>1. k - 1 \in 0 .. m /\ k \in 0 .. m + 1
        BY <1>1, <3>2
      <4> QED
        BY <3>2, <4>1, <1>2, <1>4
    <3> QED
      BY <3>1, <3>2, <2>3
  <2>5. CASE a = j \/ b = j
    BY <2>5, <2>4, <1>4, <1>7
  <2>6. CASE a < j /\ b < j
    BY <2>6, <2>2, <1>4, <1>7 DEF Ring
  <2>7. CASE a > j /\ b > j
    <3>1. a - 1 \in 0 .. m - 1 /\ b - 1 \in 0 .. m - 1
      BY <2>7, <2>1
    <3>2. w[a - 1] = w[b - 1]
      BY <2>7, <2>1, <1>4, <1>7
    <3>3. a - 1 = b - 1
      BY <3>1, <3>2 DEF Ring
    <3> QED
      BY <3>3
  <2>8. CASE a < j /\ b > j
    <3>1. a = b - 1
      BY <2>8, <2>1, <2>2, <1>4, <1>7 DEF Ring
    <3> QED
      BY <3>1, <2>8, <1>1
  <2>9. CASE a > j /\ b < j
    <3>1. a - 1 = b
      BY <2>9, <2>1, <2>2, <1>4, <1>7 DEF Ring
    <3> QED
      BY <3>1, <2>9, <1>1
  <2> QED
    BY <2>3, <2>5, <2>6, <2>7, <2>8, <2>9
<1>8. ASSUME NEW k \in 0 .. m PROVE r.next[v[k]] = v[k + 1] /\ r.prev[v[k + 1]] = v[k]
  <2>1. k \in 0 .. m + 1 /\ k + 1 \in 0 .. m + 1 /\ (k + 1) - 1 = k /\ k \in Nat
    BY <1>1
  <2>2. CASE k = j
    <3>1. v[k] = e /\ v[k + 1] = w[j]
      BY <1>1, <1>4, <2>1, <2>2
    <3> QED
      BY <3>1, <1>3
  <2>3. CASE k = j - 1
    <3>1. v[k] = w[j - 1] /\ v[k + 1] = e
      BY <1>1, <1>4, <2>1, <2>3
    <3> QED
      BY <3>1, <1>3
  <2>4. CASE k < j - 1
    <3>1. v[k] = w[k] /\ v[k + 1] = w[k + 1] /\ k \in 0 .. m - 1
          /\ k + 1 \in 0 .. m - 1
      BY <1>1, <1>4, <2>1, <2>4
    <3>2. w[k] # w[j - 1]
      BY <1>1, <2>4, <3>1 DEF Ring
    <3>3. w[k + 1] # w[j]
      <4>1. CASE j = m
        <5>1. 0 \in 0 .. m - 1 /\ k + 1 # 0
          BY <1>1, <2>1
        <5> QED
          BY <1>1, <3>1, <4>1, <5>1 DEF Ring
      <4>2. CASE j # m
        <5>1. j \in 0 .. m - 1 /\ k + 1 # j
          BY <1>1, <2>4, <4>2
        <5> QED
          BY <3>1, <5>1 DEF Ring
      <4> QED
        BY <4>1, <4>2
    <3>4. l.next[w[k]] = w[k + 1] /\ l.prev[w[k + 1]] = w[k]
      BY <3>1 DEF Ring
    <3>5. w[k] \in N \ {w[j - 1], e} /\ w[k + 1] \in N \ {w[j], e}
      BY <1>1, <1>2, <3>1, <3>2, <3>3
    <3> QED
      BY <1>3, <3>1, <3>4, <3>5
  <2>5. CASE k > j
    <3>1. v[k] = w[k - 1] /\ v[k + 1] = w[k] /\ k - 1 \in 0 .. m - 1
          /\ k \in 0 .. m
      BY <1>1, <1>4, <2>1, <2>5
    <3>2. w[k - 1] # w[j - 1]
      <4>1. k - 1 # j - 1
        BY <1>1, <2>5
      <4> QED
        BY <1>1, <3>1, <4>1 DEF Ring
    <3>3. w[k] # w[j]
      <4>1. j \in 0 .. m - 1 /\ 0 \in 0 .. m - 1
        BY <1>1, <2>5
      <4>2. CASE k = m
        BY <4>1, <4>2, <1>1 DEF Ring
      <4>3. CASE k # m
        <5>1. k \in 0 .. m - 1 /\ k # j
          BY <1>1, <2>5, <4>3
        <5> QED
          BY <4>1, <5>1 DEF Ring
      <4> QED
        BY <4>2, <4>3
    <3>4. l.next[w[k - 1]] = w[k] /\ l.prev[w[k]] = w[k - 1]
      <4>1. (k - 1) + 1 = k
        BY <2>1
      <4>2. l.next[w[k - 1]] = w[(k - 1) + 1] /\ l.prev[w[(k - 1) + 1]] = w[k - 1]
        BY <3>1 DEF Ring
      <4> QED
        BY <4>1, <4>2
    <3>5. w[k - 1] \in N \ {w[j - 1], e} /\ w[k] \in N \ {w[j], e}
      <4>1. k - 1 \in 0 .. m
        BY <1>1, <3>1
      <4> QED
        BY <1>2, <3>1, <3>2, <3>3, <4>1
    <3> QED
      BY <1>3, <3>1, <3>4, <3>5
  <2>6. k = j \/ k = j - 1 \/ k < j - 1 \/ k > j
    BY <1>1
  <2> QED
    BY <2>2, <2>3, <2>4, <2>5, <2>6
<1>9. Ring(r, N, v, m + 1)
  <2>1. (m + 1) - 1 = m /\ m + 1 \in Nat \ {0}
    BY <1>1
  <2> QED
    BY <1>5, <1>6, <1>7, <1>8, <2>1 DEF Ring
<1>10. OnRing(v, m + 1) = OnRing(w, m) \cup {e}
  <2>0. OnRing(v, m + 1) = {v[k] : k \in 0 .. m}
    <3>1. (m + 1) - 1 = m
      BY <1>1
    <3> QED
      BY <3>1, Zenon DEF OnRing
  <2>1. ASSUME NEW k \in 0 .. m PROVE v[k] \in OnRing(w, m) \cup {e}
    <3>1. k \in 0 .. m + 1 /\ (k < j => k \in 0 .. m) /\ (k > j => k - 1 \in 0 .. m)
          /\ (k = j \/ k < j \/ k > j)
      BY <1>1
    <3> QED
      BY <3>1, <1>2, <1>4
  <2>2. ASSUME NEW k \in 0 .. m - 1 PROVE \E i \in 0 .. m : v[i] = w[k]
    <3>1. CASE k < j
      <4>1. k \in 0 .. m /\ k \in 0 .. m + 1
        BY <1>1
      <4> QED
        BY <3>1, <4>1, <1>4
    <3>2. CASE ~(k < j)
      <4>1. k + 1 \in 0 .. m /\ k + 1 \in 0 .. m + 1 /\ k + 1 > j
            /\ (k + 1) - 1 = k
        BY <1>1, <3>2
      <4> QED
        BY <4>1, <1>4
    <3> QED
      BY <3>1, <3>2
  <2>3. j \in 0 .. m
    BY <1>1
  <2>4. OnRing(v, m + 1) \subseteq OnRing(w, m) \cup {e}
    BY <2>0, <2>1
  <2>5. OnRing(w, m) \subseteq OnRing(v, m + 1)
    BY <2>0, <2>2 DEF OnRing
  <2>6. e \in OnRing(v, m + 1)
    BY <1>4, <2>0, <2>3
  <2> QED
    BY <2>4, <2>5, <2>6
<1>11. \A x \in N \ (OnRing(w, m) \cup {e}) :
         r.next[x] = l.next[x] /\ r.prev[x] = l.prev[x]
  BY <1>1, <1>2, <1>3
<1> QED
  BY <1>4, <1>6, <1>9, <1>10, <1>11 DEF r, v

(* Taking out a node that is not the first leaves a ring of the others,    *)
(* and leaves nodes that are not on the ring alone.                        *)
LEMMA RemoveRing ==
  ASSUME NEW l, NEW N, Pointers(l, N), NULL \notin N, NEW w, NEW m,
         Ring(l, N, w, m), NEW j \in 1 .. m - 1
  PROVE  LET r == list_del(l, w[j])
             v == Removed(w, m, j)
         IN  /\ Pointers(r, N)
             /\ Ring(r, N, v, m - 1)
             /\ v[0] = w[0]
             /\ OnRing(v, m - 1) = OnRing(w, m) \ {w[j]}
             /\ r.next[w[j]] = NULL
             /\ \A x \in N \ OnRing(w, m) :
                  r.next[x] = l.next[x] /\ r.prev[x] = l.prev[x]
<1> DEFINE r == list_del(l, w[j])
           v == Removed(w, m, j)
           e == w[j]
<1>1. /\ m \in Nat \ {0} /\ w \in [0 .. m -> N] /\ w[m] = w[0]
      /\ j - 1 \in 0 .. m - 1 /\ j \in 0 .. m - 1 /\ j + 1 \in 0 .. m /\ j \in Nat
      /\ j # m /\ m - 1 \in Nat \ {0}
  BY DEF Ring
<1>2. \A k \in 0 .. m : w[k] \in OnRing(w, m) /\ w[k] \in N
  BY <1>1, RingNodes
<1>3. \A k \in 0 .. m : w[k] = e => k = j
  <2> SUFFICES ASSUME NEW k \in 0 .. m, w[k] = e PROVE k = j
    OBVIOUS
  <2>1. 0 \in 0 .. m - 1 /\ j # 0
    BY <1>1
  <2>2. CASE k = m
    BY <2>1, <2>2, <1>1 DEF Ring
  <2>3. CASE k # m
    <3>1. k \in 0 .. m - 1
      BY <1>1, <2>3
    <3> QED
      BY <3>1, <1>1 DEF Ring
  <2> QED
    BY <2>2, <2>3
<1>4. l.next[e] = w[j + 1] /\ l.prev[e] = w[j - 1]
  <2>1. (j - 1) + 1 = j
    BY <1>1
  <2>2. l.prev[w[(j - 1) + 1]] = w[j - 1]
    BY <1>1 DEF Ring
  <2> QED
    BY <1>1, <2>1, <2>2 DEF Ring
<1>5. /\ Pointers(r, N) /\ r.next[e] = NULL
      /\ \A x \in N \ {e} :
           r.next[x] = IF x = w[j - 1] THEN w[j + 1] ELSE l.next[x]
      /\ \A x \in N \ {e} :
           r.prev[x] = IF x = w[j + 1] THEN w[j - 1] ELSE l.prev[x]
  <2>1. e \in N /\ l.next[e] \in N /\ l.prev[e] \in N
    <3>1. j - 1 \in 0 .. m /\ j \in 0 .. m
      BY <1>1
    <3> QED
      BY <3>1, <1>1, <1>2, <1>4
  <2> DEFINE a == w[j - 1]
             b == w[j + 1]
  <2>2. l.next[e] = b /\ l.prev[e] = a
    BY <1>4
  <2> HIDE DEF e, a, b
  <2>3. LET s == list_del(l, e)
        IN  /\ Pointers(s, N) /\ s.next[e] = NULL
            /\ \A x \in N \ {e} : s.next[x] = IF x = a THEN b ELSE l.next[x]
            /\ \A x \in N \ {e} : s.prev[x] = IF x = b THEN a ELSE l.prev[x]
    BY <2>1, <2>2, DelPointers
  <2> QED
    BY <2>3 DEF e, a, b
<1> HIDE DEF r, e
<1>6. /\ \A k \in 0 .. m - 1 : k < j => v[k] = w[k]
      /\ \A k \in 0 .. m - 1 : ~(k < j) => v[k] = w[k + 1]
  BY <1>1 DEF Removed
<1>7. v \in [0 .. m - 1 -> N]
  <2>1. \A k \in 0 .. m - 1 : k \in 0 .. m /\ k + 1 \in 0 .. m
    BY <1>1
  <2> QED
    BY <1>1, <2>1 DEF Removed
<1> HIDE DEF v
<1>8. v[0] = w[0] /\ v[m - 1] = v[0]
  <2>1. 0 < j /\ ~(m - 1 < j) /\ 0 \in 0 .. m - 1 /\ m - 1 \in 0 .. m - 1
        /\ (m - 1) + 1 = m
    BY <1>1
  <2>2. v[m - 1] = w[(m - 1) + 1]
    BY <1>6, <2>1
  <2> QED
    BY <1>1, <1>6, <2>1, <2>2
<1>9. ASSUME NEW a \in 0 .. m - 2, NEW b \in 0 .. m - 2, v[a] = v[b] PROVE a = b
  <2>1. /\ a \in 0 .. m - 1 /\ b \in 0 .. m - 1
        /\ a + 1 \in 0 .. m - 1 /\ b + 1 \in 0 .. m - 1
    BY <1>1
  <2>2. CASE a < j /\ b < j
    BY <2>1, <2>2, <1>6, <1>9 DEF Ring
  <2>3. CASE ~(a < j) /\ ~(b < j)
    <3>1. a + 1 = b + 1
      BY <2>1, <2>3, <1>6, <1>9 DEF Ring
    <3> QED
      BY <3>1
  <2>4. CASE a < j /\ ~(b < j)
    <3>1. a = b + 1
      BY <2>1, <2>4, <1>6, <1>9 DEF Ring
    <3> QED
      BY <3>1, <2>4, <1>1
  <2>5. CASE ~(a < j) /\ b < j
    <3>1. a + 1 = b
      BY <2>1, <2>5, <1>6, <1>9 DEF Ring
    <3> QED
      BY <3>1, <2>5, <1>1
  <2> QED
    BY <2>2, <2>3, <2>4, <2>5
<1>10. ASSUME NEW k \in 0 .. m - 2
       PROVE  r.next[v[k]] = v[k + 1] /\ r.prev[v[k + 1]] = v[k]
  <2>1. k \in 0 .. m - 1 /\ k + 1 \in 0 .. m - 1 /\ k + 2 \in 0 .. m
        /\ (k + 1) + 1 = k + 2
    BY <1>1
  <2>2. \A i \in 0 .. m : i # j => w[i] \in N \ {e}
    BY <1>2, <1>3
  <2>3. CASE k = j - 1
    <3>1. k < j /\ ~(k + 1 < j) /\ k + 2 = j + 1 /\ j - 1 \in 0 .. m /\ j - 1 # j
          /\ j + 1 # j
      BY <1>1, <2>3
    <3>2. v[k] = w[j - 1] /\ v[k + 1] = w[j + 1]
      BY <1>6, <2>1, <2>3, <3>1
    <3> QED
      BY <3>1, <3>2, <1>1, <1>5, <2>2
  <2>4. CASE k + 1 < j
    <3>1. k < j /\ k # j /\ k + 1 # j /\ k \in 0 .. m /\ k + 1 \in 0 .. m
      BY <1>1, <2>4
    <3>2. v[k] = w[k] /\ v[k + 1] = w[k + 1]
      BY <1>6, <2>1, <2>4, <3>1
    <3>3. w[k] # w[j - 1]
      <4>1. k # j - 1
        BY <1>1, <2>4
      <4> QED
        BY <1>1, <2>1, <4>1 DEF Ring
    <3>4. w[k + 1] # w[j + 1]
      <4>1. CASE j + 1 = m
        <5>1. 0 \in 0 .. m - 1 /\ k + 1 # 0
          BY <1>1
        <5> QED
          BY <1>1, <2>1, <4>1, <5>1 DEF Ring
      <4>2. CASE j + 1 # m
        <5>1. j + 1 \in 0 .. m - 1 /\ k + 1 # j + 1
          BY <1>1, <2>4, <4>2
        <5> QED
          BY <2>1, <5>1 DEF Ring
      <4> QED
        BY <4>1, <4>2
    <3>5. l.next[w[k]] = w[k + 1] /\ l.prev[w[k + 1]] = w[k]
      BY <2>1 DEF Ring
    <3> QED
      BY <1>5, <2>2, <3>1, <3>2, <3>3, <3>4, <3>5
  <2>5. CASE ~(k < j)
    <3>1. ~(k + 1 < j) /\ k + 1 # j /\ k + 2 # j /\ k + 1 \in 0 .. m
      BY <1>1, <2>5
    <3>2. v[k] = w[k + 1] /\ v[k + 1] = w[k + 2]
      BY <1>6, <2>1, <2>5, <3>1
    <3>3. w[k + 1] # w[j - 1]
      <4>1. k + 1 # j - 1
        BY <1>1, <2>5
      <4> QED
        BY <1>1, <2>1, <4>1 DEF Ring
    <3>4. w[k + 2] # w[j + 1]
      <4>1. j + 1 \in 0 .. m - 1 /\ 0 \in 0 .. m - 1 /\ j + 1 # 0
        BY <1>1, <2>5
      <4>2. CASE k + 2 = m
        BY <4>1, <4>2, <1>1 DEF Ring
      <4>3. CASE k + 2 # m
        <5>1. k + 2 \in 0 .. m - 1 /\ k + 2 # j + 1
          BY <1>1, <2>5, <4>3
        <5> QED
          BY <4>1, <5>1 DEF Ring
      <4> QED
        BY <4>2, <4>3
    <3>5. l.next[w[k + 1]] = w[k + 2] /\ l.prev[w[k + 2]] = w[k + 1]
      <4>1. l.next[w[k + 1]] = w[(k + 1) + 1] /\ l.prev[w[(k + 1) + 1]] = w[k + 1]
        BY <2>1 DEF Ring
      <4> QED
        BY <2>1, <4>1
    <3> QED
      BY <1>5, <2>1, <2>2, <3>1, <3>2, <3>3, <3>4, <3>5
  <2>6. k = j - 1 \/ k + 1 < j \/ ~(k < j)
    BY <1>1
  <2> QED
    BY <2>3, <2>4, <2>5, <2>6
<1>11. Ring(r, N, v, m - 1)
  <2>1. (m - 1) - 1 = m - 2
    BY <1>1
  <2>2. /\ \A a, b \in 0 .. m - 1 - 1 : v[a] = v[b] => a = b
        /\ \A k \in 0 .. m - 1 - 1 : r.next[v[k]] = v[k + 1] /\ r.prev[v[k + 1]] = v[k]
    BY <1>9, <1>10, <2>1
  <2> QED
    BY <1>1, <1>7, <1>8, <2>2 DEF Ring
<1>12. OnRing(v, m - 1) = OnRing(w, m) \ {e}
  <2>1. OnRing(v, m - 1) = {v[k] : k \in 0 .. m - 2}
    <3>1. (m - 1) - 1 = m - 2
      BY <1>1
    <3> QED
      BY <3>1, Zenon DEF OnRing
  <2>2. ASSUME NEW k \in 0 .. m - 2 PROVE v[k] \in OnRing(w, m) \ {e}
    <3>1. k \in 0 .. m - 1 /\ k \in 0 .. m /\ k + 1 \in 0 .. m
      BY <1>1
    <3>2. CASE k < j
      BY <3>1, <3>2, <1>1, <1>2, <1>3, <1>6
    <3>3. CASE ~(k < j)
      <4>1. k + 1 # j
        BY <1>1, <3>3
      <4> QED
        BY <3>1, <3>3, <4>1, <1>2, <1>3, <1>6
    <3> QED
      BY <3>2, <3>3
  <2>3. ASSUME NEW k \in 0 .. m - 1, w[k] # e PROVE \E i \in 0 .. m - 2 : v[i] = w[k]
    <3>1. k # j
      BY <2>3 DEF e
    <3>2. CASE k < j
      <4>1. k \in 0 .. m - 2
        BY <1>1, <3>2
      <4> QED
        BY <3>2, <4>1, <1>6
    <3>3. CASE ~(k < j)
      <4>1. k - 1 \in 0 .. m - 2 /\ k - 1 \in 0 .. m - 1 /\ ~(k - 1 < j)
            /\ (k - 1) + 1 = k
        BY <1>1, <3>1, <3>3
      <4>2. v[k - 1] = w[(k - 1) + 1]
        BY <4>1, <1>6
      <4> QED
        BY <4>1, <4>2
    <3> QED
      BY <3>2, <3>3
  <2>4. OnRing(v, m - 1) \subseteq OnRing(w, m) \ {e}
    BY <2>1, <2>2
  <2>5. OnRing(w, m) \ {e} \subseteq OnRing(v, m - 1)
    BY <2>1, <2>3 DEF OnRing
  <2> QED
    BY <2>4, <2>5
<1>13. \A x \in N \ OnRing(w, m) : r.next[x] = l.next[x] /\ r.prev[x] = l.prev[x]
  <2>1. /\ w[j - 1] \in OnRing(w, m) /\ w[j + 1] \in OnRing(w, m)
        /\ e \in OnRing(w, m)
    <3>1. j - 1 \in 0 .. m /\ j \in 0 .. m
      BY <1>1
    <3> QED
      BY <3>1, <1>1, <1>2 DEF e
  <2> QED
    BY <1>5, <2>1
<1> QED
  BY <1>5, <1>8, <1>11, <1>12, <1>13 DEF r, v, e
=============================================================================
