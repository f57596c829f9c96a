--------------------------- MODULE PolicyRR_proofs ---------------------------
(***************************************************************************)
(* Proofs about the round-robin policy, for every memory size, swap size   *)
(* and set of pages, whatever the disk does.                               *)
(***************************************************************************)
EXTENDS PolicyRR, MemSim_proofs, SequenceTheorems

-----------------------------------------------------------------------------
(* Round-robin is one way of choosing victims *)

(* A step under round-robin is a step of MemSim.                           *)
LEMMA RRStep ==
  ASSUME [RRNext]_rrVars
  PROVE  [Next]_vars
<1>1. CASE \E a \in Accesses : RRAccess(a)
  BY <1>1 DEF RRAccess, Next, CSC369_PolicyRandEvict
<1>2. CASE ~ \E a \in Accesses : RRAccess(a)
  BY <1>2 DEF RRNext, rrVars, Next, vars
<1> QED
  BY <1>1, <1>2

(* Round-robin never does what the Rand policy could not: it names an      *)
(* existing frame as victim and touches nothing of the memory manager.     *)
(* Every theorem about Spec holds of it.                                   *)
THEOREM RRImplementsSpec == RRSpec => Spec
<1>1. RRInit => Init
  BY DEF RRInit
<1>2. [RRNext]_rrVars => [Next]_vars
  BY RRStep
<1> QED
  BY <1>1, <1>2, PTL DEF RRSpec, Spec

(* The static counter of CSC369_PolicyRREvict always names a frame.        *)
THEOREM RRTypeCorrect == RRSpec => []RRTypeOK
<1>1. RRInit => i \in Frames
  BY Constants DEF RRInit, Frames
<1>2. i \in Frames /\ [RRNext]_rrVars => (i \in Frames)'
  <2> SUFFICES ASSUME i \in Frames, [RRNext]_rrVars PROVE i' \in Frames
    OBVIOUS
  <2>1. (i + 1) % MEMSIZE \in Frames
    BY Constants, ModDivision DEF Frames
  <2> QED
    BY <2>1 DEF RRNext, RRAccess, CSC369_PolicyRREvict, rrVars
<1>3. TypeOK /\ i \in Frames => RRTypeOK
  BY DEF RRTypeOK
<1> QED
  BY <1>1, <1>2, <1>3, RRImplementsSpec, TypeCorrect, PTL DEF RRSpec
-----------------------------------------------------------------------------
(* Round-robin is FIFO *)

(* Memory fills from the first frame up, and the counter stays at 0 until  *)
(* it is full: this is what makes the counter point at the oldest page.    *)
FilledTo(k) ==
  /\ k \in 0 .. MEMSIZE
  /\ FreeFrames = k .. MEMSIZE - 1
  /\ k < MEMSIZE => i = 0

FillsInOrder == \E k \in 0 .. MEMSIZE : FilledTo(k)

(* The j-th frame from the counter on, counted round the array.            *)
LEMMA RoundTheArray ==
  ASSUME i \in Frames, NEW j \in 1 .. MEMSIZE
  PROVE  /\ (i + j - 1) % MEMSIZE \in Frames
         /\ i = 0 => (i + j - 1) % MEMSIZE = j - 1
         /\ (((i + 1) % MEMSIZE) + j - 1) % MEMSIZE = (i + j) % MEMSIZE
         /\ (i + j) % MEMSIZE = i <=> j = MEMSIZE
<1>1. MEMSIZE \in Nat \ {0} /\ i \in 0 .. MEMSIZE - 1 /\ i + j - 1 \in Nat
      /\ j - 1 \in Nat /\ i + 1 \in Nat
  BY Constants DEF Frames
<1>2. (i + j - 1) % MEMSIZE \in Frames
  BY <1>1, ModDivision DEF Frames
<1>3. ASSUME NEW q \in Nat, NEW r \in 0 .. MEMSIZE - 1, NEW x, x = MEMSIZE * q + r
      PROVE  x % MEMSIZE = r
  BY <1>1, <1>3, ModUnique
<1>4. ASSUME i = 0 PROVE (i + j - 1) % MEMSIZE = j - 1
  <2>1. i + j - 1 = MEMSIZE * 0 + (j - 1) /\ j - 1 \in 0 .. MEMSIZE - 1
    BY <1>1, <1>4
  <2> QED
    BY <2>1, <1>3
<1>5. (((i + 1) % MEMSIZE) + j - 1) % MEMSIZE = (i + j) % MEMSIZE
  <2>1. (((i + 1) % MEMSIZE) + (j - 1)) % MEMSIZE = (i + 1 + (j - 1)) % MEMSIZE
    BY ONLY <1>1, ModAbsorbs
  <2>2. i + 1 + (j - 1) = i + j
    BY <1>1
  <2>3. (i + 1) % MEMSIZE \in Nat
    BY <1>1, ModDivision
  <2>4. ((i + 1) % MEMSIZE) + (j - 1) = ((i + 1) % MEMSIZE) + j - 1
    BY <1>1, <2>3
  <2> QED
    BY <2>1, <2>2, <2>4
<1>6. (i + j) % MEMSIZE = i <=> j = MEMSIZE
  <2>1. CASE i + j < MEMSIZE
    <3>1. i + j = MEMSIZE * 0 + (i + j) /\ i + j \in 0 .. MEMSIZE - 1
      BY <1>1, <2>1
    <3>2. (i + j) % MEMSIZE = i + j
      BY <3>1, <1>3
    <3> QED
      BY <1>1, <2>1, <3>2
  <2>2. CASE i + j >= MEMSIZE
    <3>1. /\ i + j = MEMSIZE * 1 + (i + j - MEMSIZE)
          /\ i + j - MEMSIZE \in 0 .. MEMSIZE - 1
      BY <1>1, <2>2
    <3>2. (i + j) % MEMSIZE = i + j - MEMSIZE
      BY <3>1, <1>3
    <3> QED
      BY <1>1, <3>2
  <2> QED
    BY <1>1, <2>1, <2>2
<1> QED
  BY <1>2, <1>4, <1>5, <1>6

(* While memory is filled up to frame k, k frames are in use.              *)
LEMMA FilledCount ==
  ASSUME NEW k \in 0 .. MEMSIZE
  PROVE  Cardinality(Frames \ (k .. MEMSIZE - 1)) = k
<1>1. 0 \in Int /\ k - 1 \in Int /\ MEMSIZE \in Nat \ {0}
  BY Constants
<1>2. Frames \ (k .. MEMSIZE - 1) = 0 .. k - 1
  BY <1>1 DEF Frames
<1>3. Cardinality(0 .. k - 1) = k
  <2>1. Cardinality(0 .. k - 1) = IF 0 > k - 1 THEN 0 ELSE k - 1 - 0 + 1
    BY <1>1, FS_Interval
  <2> QED
    BY <1>1, <2>1
<1> QED
  BY <1>2, <1>3

LEMMA LoadOrderIs ==
  ASSUME NEW k, FilledTo(k)
  PROVE  LoadOrder = [j \in 1 .. k |-> frames[(i + j - 1) % MEMSIZE]]
BY FilledCount DEF FilledTo, LoadOrder

(* A page loaded into the first free frame joins the back of the queue.    *)
LEMMA LoadsAtBack ==
  ASSUME RRTypeOK, NEW k, FilledTo(k), NEW f \in Frames, FindFreeFrame(f),
         NEW p \in Pages, frames' = [frames EXCEPT ![f] = p], i' = i
  PROVE  /\ FillsInOrder'
         /\ LoadOrder \in Seq(Pages) /\ Len(LoadOrder) = k /\ k < MEMSIZE
         /\ LoadOrder' = Append(LoadOrder, p)
<1>1. /\ MEMSIZE \in Nat \ {0} /\ k \in 0 .. MEMSIZE /\ i \in Frames
      /\ frames \in [Frames -> Pages \cup {NULL}] /\ p # NULL
      /\ FreeFrames = k .. MEMSIZE - 1
  BY Constants DEF FilledTo, RRTypeOK, TypeOK, MMTypeOK
<1>2. f = k /\ k < MEMSIZE /\ i = 0
  BY <1>1 DEF FindFreeFrame, FilledTo
<1>3. FreeFrames' = FreeFrames \ {f}
  BY <1>1 DEF FreeFrames
<1>4. FilledTo(k + 1)'
  <2>1. FreeFrames' = k + 1 .. MEMSIZE - 1
    BY <1>1, <1>2, <1>3
  <2> QED
    BY <1>1, <1>2, <2>1 DEF FilledTo
<1>5. FillsInOrder'
  <2>1. k + 1 \in 0 .. MEMSIZE
    BY <1>1, <1>2
  <2> QED
    BY <1>4, <2>1 DEF FillsInOrder
<1>6. \A j \in 1 .. MEMSIZE : (i + j - 1) % MEMSIZE = j - 1
  BY <1>1, <1>2, RoundTheArray
<1>7. LoadOrder = [j \in 1 .. k |-> frames[j - 1]]
  BY <1>1, <1>6, LoadOrderIs
<1>8. LoadOrder' = [j \in 1 .. k + 1 |-> frames'[j - 1]]
  <2>1. LoadOrder' = [j \in 1 .. k + 1 |-> frames'[(i' + j - 1) % MEMSIZE]]
    BY <1>4, FilledCount DEF FilledTo, LoadOrder
  <2> QED
    BY <1>1, <1>2, <1>6, <2>1
<1>9. ASSUME NEW j \in 1 .. k PROVE frames[j - 1] \in Pages
  BY <1>1 DEF FreeFrames, Frames
<1>10. LoadOrder \in Seq(Pages) /\ Len(LoadOrder) = k
  BY <1>1, <1>7, <1>9
<1>11. LoadOrder' = Append(LoadOrder, p)
  BY <1>1, <1>2, <1>7, <1>8, <1>10 DEF Frames
<1> QED
  BY <1>2, <1>5, <1>10, <1>11

(* The page of the counter's frame is at the front of the queue, and the   *)
(* page that takes its place, as the counter is stepped, at the back.      *)
LEMMA ReplacesFront ==
  ASSUME RRTypeOK, NEW k, FilledTo(k), FreeFrames = {}, NEW p \in Pages,
         frames' = [frames EXCEPT ![i] = p], i' = (i + 1) % MEMSIZE
  PROVE  /\ FillsInOrder'
         /\ LoadOrder \in Seq(Pages) /\ Len(LoadOrder) = MEMSIZE
         /\ LoadOrder' = Append(Tail(LoadOrder), p)
<1>1. /\ MEMSIZE \in Nat \ {0} /\ i \in Frames
      /\ frames \in [Frames -> Pages \cup {NULL}] /\ p # NULL
  BY Constants DEF FilledTo, RRTypeOK, TypeOK, MMTypeOK
<1>2. k = MEMSIZE
  BY <1>1 DEF FilledTo
<1>3. FreeFrames' = {} /\ \A g \in Frames : frames[g] \in Pages
  BY <1>1 DEF FreeFrames
<1>4. FilledTo(MEMSIZE)'
  BY <1>1, <1>3 DEF FilledTo
<1>5. FillsInOrder'
  BY <1>1, <1>4 DEF FillsInOrder
<1>6. LoadOrder = [j \in 1 .. MEMSIZE |-> frames[(i + j - 1) % MEMSIZE]]
  BY <1>2, LoadOrderIs
<1>7. LoadOrder' = [j \in 1 .. MEMSIZE |-> frames'[(i' + j - 1) % MEMSIZE]]
  BY <1>4, FilledCount DEF FilledTo, LoadOrder
<1>8. ASSUME NEW j \in 1 .. MEMSIZE
      PROVE  LoadOrder'[j] = IF j = MEMSIZE THEN p ELSE LoadOrder[j + 1]
  <2>1. (i' + j - 1) % MEMSIZE = (i + j) % MEMSIZE
    BY <1>1, RoundTheArray
  <2>2. (i + j) % MEMSIZE = i <=> j = MEMSIZE
    BY <1>1, RoundTheArray
  <2>3. LoadOrder'[j] = frames'[(i + j) % MEMSIZE]
    BY <1>7, <2>1
  <2>4. CASE j = MEMSIZE
    BY <1>1, <2>2, <2>3, <2>4
  <2>5. CASE j # MEMSIZE
    <3>1. j + 1 \in 1 .. MEMSIZE /\ i + (j + 1) - 1 = i + j
      BY <1>1, <2>5 DEF Frames
    <3>2. (i + j) % MEMSIZE \in Frames /\ LoadOrder[j + 1] = frames[(i + j) % MEMSIZE]
      BY <1>1, <1>6, <3>1, RoundTheArray
    <3> QED
      BY <1>1, <2>2, <2>3, <2>5, <3>2
  <2> QED
    BY <2>4, <2>5
<1>9. \A j \in 1 .. MEMSIZE : (i + j - 1) % MEMSIZE \in Frames
  BY <1>1, RoundTheArray
<1>10. LoadOrder \in Seq(Pages) /\ Len(LoadOrder) = MEMSIZE
  BY <1>1, <1>3, <1>6, <1>9
<1>11. LoadOrder' = Append(Tail(LoadOrder), p)
  <2> DEFINE new == LoadOrder'
             old == LoadOrder
  <2>1. new = [j \in 1 .. MEMSIZE |-> new[j]]
    BY <1>7
  <2>2. \A j \in 1 .. MEMSIZE : new[j] = IF j = MEMSIZE THEN p ELSE old[j + 1]
    BY <1>8
  <2>3. old \in Seq(Pages) /\ Len(old) = MEMSIZE
    BY <1>10
  <2> HIDE DEF new, old
  <2> DEFINE rest == Tail(old)
  <2>4. /\ rest \in Seq(Pages) /\ Len(rest) = MEMSIZE - 1
        /\ \A j \in 1 .. MEMSIZE - 1 : rest[j] = old[j + 1]
    BY <1>1, <2>3
  <2> HIDE DEF rest
  <2>5. /\ Append(rest, p) \in Seq(Pages) /\ Len(Append(rest, p)) = MEMSIZE
        /\ \A j \in 1 .. MEMSIZE - 1 : Append(rest, p)[j] = rest[j]
        /\ Append(rest, p)[MEMSIZE] = p
    BY <1>1, <2>4, AppendProperties
  <2>6. new \in Seq(Pages) /\ Len(new) = MEMSIZE
    <3>1. ASSUME NEW j \in 1 .. MEMSIZE PROVE new[j] \in Pages
      <4>1. j # MEMSIZE => j + 1 \in 1 .. MEMSIZE
        BY <1>1
      <4>2. \A h \in 1 .. MEMSIZE : old[h] \in Pages
        BY <2>3, ElementOfSeq
      <4> QED
        BY ONLY <2>2, <4>1, <4>2, p \in Pages, j \in 1 .. MEMSIZE
    <3>2. new \in [1 .. MEMSIZE -> Pages] /\ MEMSIZE \in Nat
      BY ONLY <1>1, <2>1, <3>1
    <3> QED
      BY ONLY <3>2
  <2>7. ASSUME NEW j \in 1 .. MEMSIZE PROVE new[j] = Append(rest, p)[j]
    <3>1. CASE j = MEMSIZE
      BY <3>1, <2>2, <2>5
    <3>2. CASE j # MEMSIZE
      <4>1. j \in 1 .. MEMSIZE - 1
        BY <1>1, <3>2
      <4> QED
        BY <4>1, <3>2, <2>2, <2>4, <2>5
    <3> QED
      BY <3>1, <3>2
  <2>8. new = Append(rest, p)
    BY <2>5, <2>6, <2>7, SeqEqual
  <2> QED
    BY <2>8 DEF new, old, rest
<1> QED
  BY <1>5, <1>10, <1>11

(* A page that misses is not in the queue.                                 *)
LEMMA MissIsNew ==
  ASSUME RRTypeOK, CoremapConsistent, status = "running", FillsInOrder,
         NEW p \in Pages, ~pte[p].valid
  PROVE  p \notin Fifo!Resident
<1>1. PICK k \in 0 .. MEMSIZE : FilledTo(k)
  BY DEF FillsInOrder
<1>2. LoadOrder = [j \in 1 .. k |-> frames[(i + j - 1) % MEMSIZE]]
  BY <1>1, LoadOrderIs
<1>3. \A j \in 1 .. k : (i + j - 1) % MEMSIZE \in Frames
  BY Constants, RoundTheArray DEF RRTypeOK
<1>4. \A f \in Frames : frames[f] # p
  BY Constants DEF CoremapConsistent
<1>5. Len(LoadOrder) = k
  BY <1>2
<1> QED
  BY <1>2, <1>3, <1>4, <1>5 DEF Fifo!Resident

(* Every step fills memory in order and is a step of FIFO.                 *)
LEMMA FIFOStep ==
  ASSUME RRTypeOK, CoremapConsistent, FillsInOrder, [RRNext]_rrVars
  PROVE  FillsInOrder' /\ [Fifo!FIFONext]_LoadOrder
<1>1. PICK k \in 0 .. MEMSIZE : FilledTo(k)
  BY DEF FillsInOrder
<1>2. CASE UNCHANGED <<frames, i>>
  <2>1. FillsInOrder'
    BY <1>1, <1>2 DEF FillsInOrder, FilledTo, FreeFrames
  <2>2. LoadOrder' = LoadOrder
    BY <1>2 DEF LoadOrder, FreeFrames
  <2> QED
    BY <2>1, <2>2
<1>3. ASSUME NEW a \in Accesses, RRAccess(a)
      PROVE  FillsInOrder' /\ [Fifo!FIFONext]_LoadOrder
  <2>1. a.page \in Pages /\ status = "running"
    BY <1>3 DEF Accesses, RRAccess
  <2>2. CASE Hit(a) /\ UNCHANGED i
    BY <1>2, <2>2 DEF Hit, MMHit
  <2>3. CASE MissFree(a) /\ UNCHANGED i
    <3>1. PICK f \in Frames : AllocateFree(f) /\ Fill(a, f, pte, {})
      BY <2>3 DEF MissFree
    <3>2. frames' = [frames EXCEPT ![f] = a.page] /\ FindFreeFrame(f)
      BY <3>1 DEF AllocateFree, Fill, MMZeroFill, MMPageIn, MMPageInAborts
    <3>3. /\ FillsInOrder'
          /\ LoadOrder \in Seq(Pages) /\ Len(LoadOrder) = k /\ k < MEMSIZE
          /\ LoadOrder' = Append(LoadOrder, a.page)
      BY <1>1, <2>1, <2>3, <3>2, LoadsAtBack
    <3>4. a.page \notin Fifo!Resident
      BY <2>1, <2>3, MissIsNew DEF MissFree
    <3> QED
      BY <2>1, <3>3, <3>4 DEF Fifo!FIFONext, Fifo!Load
  <2>4. ASSUME NEW f \in Frames, CSC369_PolicyRREvict(f), MissEvict(a, f)
        PROVE  FillsInOrder' /\ [Fifo!FIFONext]_LoadOrder
    <3>1. /\ f = i /\ i' = (i + 1) % MEMSIZE
          /\ FreeFrames = {} /\ frames' = [frames EXCEPT ![i] = a.page]
      BY <2>4 DEF CSC369_PolicyRREvict, MissEvict, AllocateEvict, Fill, MMZeroFill,
                  MMPageIn, MMPageInAborts
    <3>2. /\ FillsInOrder'
          /\ LoadOrder \in Seq(Pages) /\ Len(LoadOrder) = MEMSIZE
          /\ LoadOrder' = Append(Tail(LoadOrder), a.page)
      BY <1>1, <2>1, <3>1, ReplacesFront
    <3>3. a.page \notin Fifo!Resident
      BY <2>1, <2>4, MissIsNew DEF MissEvict
    <3> QED
      BY <2>1, <3>2, <3>3 DEF Fifo!FIFONext, Fifo!Replace
  <2> QED
    BY <1>3, <2>2, <2>3, <2>4 DEF RRAccess
<1>4. CASE ~ \E a \in Accesses : RRAccess(a)
  <2>1. UNCHANGED <<frames, i>>
    BY <1>4 DEF RRNext, rrVars, vars, mmVars, TraceEnd, Terminated
  <2> QED
    BY <2>1, <1>2
<1> QED
  BY <1>3, <1>4

(* The comment of csc369_policy_rr.c: since frames are never freed, a      *)
(* counter that steps through them replaces pages in the order in which    *)
(* they were loaded.  It is so for every memory size, also when a page-in  *)
(* aborts the run.                                                         *)
THEOREM RRImplementsFIFO == RRSpec => ImplementsFIFO
<1>1. RRInit => FillsInOrder /\ Fifo!FIFOInit
  <2> SUFFICES ASSUME RRInit PROVE FillsInOrder /\ Fifo!FIFOInit
    OBVIOUS
  <2>1. FilledTo(0) /\ 0 \in 0 .. MEMSIZE
    BY Constants
    DEF RRInit, Init, MMCreate, CSC369_CoremapCreate, FilledTo, FreeFrames, Frames
  <2>2. LoadOrder = << >>
    BY <2>1, LoadOrderIs
  <2> QED
    BY <2>1, <2>2 DEF FillsInOrder, Fifo!FIFOInit
<1>2. RRTypeOK /\ CoremapConsistent /\ FillsInOrder /\ [RRNext]_rrVars
      => FillsInOrder' /\ [Fifo!FIFONext]_LoadOrder
  BY FIFOStep
<1> QED
  BY <1>1, <1>2, RRTypeCorrect, RRImplementsSpec, CoremapCorrect, PTL
  DEF RRSpec, ImplementsFIFO, Fifo!FIFOSpec
=============================================================================
