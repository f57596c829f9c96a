# A TLA+ model of the `memsim` virtual-memory simulator

This directory holds a formal model of the virtual-memory simulator in
`src/A2-zengzix2/src`: TLA+ modules translated from its C code, TLC
configurations that check them on small instances, and proofs, checked by
TLAPS, that hold for every size. All source paths below are relative to
`src/A2-zengzix2/`.

## 1. The system

`memsim` replays a trace of memory accesses (`S`tore, `M`odify, `L`oad,
`I`nstruction fetch, a virtual address, a byte) against a simulated physical
memory of 16-byte frames. It is sequential; its difficulty is that one access may
run through five components that update each other's state, with failures of the
swap file and of allocation on the way.

| Component | State | Operations | Interaction |
|---|---|---|---|
| Simulation loop (`csc369_simulation.c`) | handles of all parts, global counters, physical memory | create, run, `ExecuteMemInstruction`, destroy | reads the trace, asks the memory manager for a frame, tells the policy (`OnReference`), reads or writes the byte |
| Trace reader (`csc369_trace.c`) | file position | `TraceRead` | delivers accesses, rejects malformed ones |
| Memory manager (`csc369_mm.c`) | page table, counters | `MMGetFrameNumber`, `MMHandleEviction` | calls coremap, swap, page table; called back by the coremap |
| Page table (`csc369_page_table.c`) | three levels of tables, entries with frame, offset and four bits | create, allocate, search, destroy | allocates through kmalloc |
| Coremap (`csc369_coremap.c`) | per frame: free flag, owner's entry, list entry | `AllocateFrame`, `ClearFrame` | calls the policy's `Evict`, then `MMHandleEviction` |
| Swap (`csc369_swap.c`) and bitmap (`csc369_bitutil.c`) | temporary file, bitmap of slots | page in, page out, allocate bit | copies frames to and from the file |
| Policies (`csc369_policy_*.c`, `list.h`) | RR: a counter; Clock: a ring and a hand; S2Q: two lists; reference bits in the entries | `Init`, `OnRef`, `Evict`, `Cleanup` | through global function pointers |
| kmalloc (`csc369_kmalloc.c`, `khash.h`) | counters, map of pointers | malloc, free, leak check | used by page table and memory manager |
| `memsim.c` | the global `simulation` | option parsing, main, fatal-signal handler | creates, runs, destroys; the handler removes the swap file |

Hard behaviours, and what makes each component correct:

* A fault changes the victim's entry, the coremap, a frame, the swap map and the
  swap file, then the faulting page's entry. Coremap and page table must agree
  (`CoremapConsistent`), slots must have one owner (`SlotsExclusive`), and the
  whole must look like flat memory (`ImplementsFlatMemory`).
* Swap transfers fail or are short, and the bitmap runs full.
* The lists of the policies live inside the frames and are indexed by bits kept in
  page table entries: the structures must stay in step (`RingWellFormed`,
  `BitTellsQueue`), and `Evict` must always end with a real frame
  (`EvictTerminates`, `VictimIsFrame`).
* Allocation fails half way down the page table; index arithmetic must give each
  page its own entry (`EntryPerPage`).
* The bits of the last bitmap word beyond the size must look used, and rounding
  the size up to words may wrap (`LeftoverUsed`, `BitmapAssertions`).
* A fatal signal may find `simulation` not yet or no longer valid, and its handler
  is the only way the swap file is removed (`SwapFileRemoved`, `HandlerSafe`).
  Creation may stop at any of a dozen acquisitions (`ReturnReleasesAll`); the tables
  are freed while they are walked (`DestroyFreesAll`, `HandlerSafe`).
* The trace reader tells the end of the file, a bad line and a read error apart by
  `feof` alone (`TraceReplayed`), and every run must end (`ProgramEnds`).
* kmalloc decides by its counters whether an allocation is refused, a free is legal
  and the program leaked (`AccountingExact`); its hash table searches without a
  bound (`ProbesEnd`), reuses tombstones (`KeysUnique`) and rehashes in place
  (`ImplementsPointerMap`).

`PROJECT.json` lists every component with its status and every hazard with its
line and the properties aimed at it.

## 2. Modules

| Module | Models | Notes |
|---|---|---|
| `Swap` | `csc369_swap.c`, `CSC369_BitmapAlloc` as an allocator of slots | `swapmap` is the set of used bits, `swapfile` maps slot positions to page contents; `Transfers` lists the byte counts a `read`/`write` may return (0 also stands for a failed `lseek`) |
| `MemoryManager` | `csc369_mm.c`, `csc369_coremap.c`, entries of `csc369_page_table.c` | `pte`, `frames` (owner or `NULL` = free), `physmem`, `stats`; one definition per case of `MMGetFrameNumber` |
| `MemSim` | `csc369_simulation.c`, Rand policy, what `TraceRead` delivers | one action per kind of access: `Hit`, `MissFree`, `MissEvict`; `written` is the environment's memory of what the trace stored, `error` that a mismatch was logged, `status` `"aborted"` that an assertion failed |
| `FlatMemory` | (abstract) | an array of bytes per page changed only by stores |
| `FrameList` | `list.h` | functions on records of `next`/`prev` pointers |
| `PolicyRR` / `FIFO` | `csc369_policy_rr.c` / (abstract) | |
| `PolicyClock` / `SecondChance` | `csc369_policy_clock.c` / (abstract) | the loop of `Evict` one iteration per step; `list` and `hand` as in the code |
| `PolicyS2Q` / `TwoQueue` | `csc369_policy_s2q.c` / (abstract, from the algorithm in its comments) | the list heads are nodes of their own |
| `Bitmap` / `SlotAllocator` | `csc369_bitutil.c` word by word / (abstract) | a word is the set of its 1 bits; `size_t` arithmetic is modulo `SIZE_MOD` |
| `KHash` / `PointerMap` | `khash.h` as kmalloc instantiates it / (abstract) | buckets with flags, tombstones, growth, the in-place rehash with its kick-outs |
| `Kmalloc` | `csc369_kmalloc.c` | the record `km`: four counters and the map of pointers; `LiveBlocks(km)` is the heap |
| `PageTable` | `csc369_page_table.c` | the tree as blocks obtained from `Kmalloc`; each `CSC369_malloc` may fail; `CSC369_PageTableDestroy` in the code's order |
| `Trace` | `csc369_trace.c` | a file is lines of texts; position, buffer, what was delivered |
| `Program` | `memsim.c`, create / run / destroy of `csc369_simulation.c` and the Create and Destroy functions of the other parts | `pc` of main, `held` resources, the global `simulation`, the handler |
| `MemSim_proofs`, `Bitmap_proofs`, `KHash_proofs`, `PolicyRR_proofs`, `PolicyClock_proofs`, `PolicyS2Q_proofs`, `PageTable_proofs`, `Program_proofs` | | theorems about the module each is named after; `MemSim_proofs` ends with the lemmas about the lists of `FrameList`, which the proofs about Clock and S2Q share |
| `MCMemSim`, `MCPolicyRR`, `MCPolicyClock`, `MCPolicyS2Q`, `MCPageTable`, `MCBitmap`, `MCKHash`, `MCProgram` | | model-checking instances |

`MemSim` EXTENDS `MemoryManager`, which EXTENDS `Swap` and, for the entries embedded
in the coremap, `FrameList`; each policy module EXTENDS
`MemSim` and conjoins its own state to the same actions. `Program` EXTENDS
`PageTable`, which EXTENDS `Kmalloc`, and `Trace`: its run allocates page tables
with the addresses the trace delivers and its end frees them. Two small modules
justify what others take for granted: `Bitmap` implements the allocator that
`Swap` uses, for every size whose number of words does not wrap (for the others it
implements an allocator without slots, not the `SWAPSIZE` slots of `Swap`), and
`KHash` the map that `Kmalloc` uses. Which source lines each definition stands for
is recorded under `map` in `PROJECT.json`.

Modelling decisions:

* An access is one step: nothing else runs meanwhile. Only the clock's `Evict`,
  whose termination is a question, is split.
* `MemoryManager` has an entry for every page from the start, the one
  `CSC369_PTECreate` makes: `MMGetFrameNumber` always goes through
  `PageTableAllocate`, which creates it unchanged on first use. `PageTable`
  shows that this view is right: one entry per page.
* Bytes beyond a frame: an offset equal to `FRAME_SIZE` touches the first byte of
  the next frame; after the last frame a read may yield anything and a write is
  lost from view.
* The documented build is a Debug build, so assertions are active. A failed
  assertion ends the run (`status = "aborted"`).
* A trace is well formed: a read carries the value last written to its address
  (HANDOUT.md:33). It may end at any point.
* `Program` splits creation, run and destruction at every acquisition, trace read,
  access and release, because a fatal signal may arrive between any two. What an
  access does beyond the page table is the subject of `MemSim`; in `Program` it
  succeeds or fails an assertion.
* A block of `Kmalloc` is named by its place in the page table, and the name stands
  for its address: the program allocates nothing after its first `CSC369_free`, so
  malloc cannot return an address twice. `KHash` does not assume this: it also puts
  pointers that were freed, and it has `kh_del` and `kh_clear`, which the program
  never calls.
* The rehash of `KHash` is one function application per placed element (`KickOut`):
  the element in hand if there is one, else that of the next old bucket. The inner
  and the outer loop of `kh_resize` place elements in exactly this order, and there
  are as many placements as live elements (`Rounds`). The number of buckets is a
  power of two of at most 2^30, which `KeysAssumption` makes enough: fewer than 2^29
  pointers. kmalloc never allocates more than 2^31 bytes in all
  (`csc369_kmalloc.c:59`, where `bytes_malloced` is not lowered by a free), in blocks
  of at least the 8 bytes of a `CSC369_PageTable`, so it has at most 2^28 pointers.
* The handler reached through a `NULL` `simulation` faults, faults again while the
  signal is blocked, and the process is killed. Reached through freed memory it may
  do either. A fatal signal from outside may come at any step: one of those that
  `InstallFatalHandlers` installs the handler for (`memsim.c:199-203`). The others
  (SIGINT, SIGTERM, SIGKILL) end the process wherever it is, with the swap file left
  behind; they are not modelled, and `SwapFileRemoved` says nothing of them.
* `CSC369_malloc` fails in two ways. It returns `NULL` (`ReturnsNull`), with nothing
  counted. Or `kh_put` cannot grow the table of pointers (`MallocAborts`): the
  counters already count the block, the map does not have it (`Unrecorded`), and the
  assertion raises SIGABRT. `AccountingExact` is claimed until then (`km.ok`).
* kmalloc's bytes are the live blocks of each kind times the size of the kind: the
  program allocates nothing but tables, entries and the manager. The order of
  destruction is a function on the places of the tree, defined by recursion as the
  code recurses.
* The addresses in the files of a trace are those the page table can index
  (`FilesAssumption`; section 6 says what is beyond). The null pointer is neither a
  frame nor a list head (`NullPointerAssumption`, `HeadsAssumption`).
* In `Trace` a line longer than the 256-character buffer is several texts. A read
  error strikes between two texts, never in the middle of one. `terminated` says that
  `fgets` returned the last text without meeting the end of the file: it ends in a
  newline, or it fills the buffer with exactly 255 characters.
* Definitions introduced as "faulty variants" are what the mutants of
  `PROJECT.json` substitute; no specification uses them.

## 3. Runs

Run with `tlc -config <cfg> <module>`.

| Run | Instance | Shows |
|---|---|---|
| `paging` | 3 pages, 2 frames, 3 slots, frames of 2 bytes, reliable disk | type, coremap, clean copies, no mismatch, no abort, stable slots, flat memory |
| `rr` | 4 pages, 3 frames, 3 slots, transfers of 0, 1 or 2 of 2 bytes, counters modulo 3 | with a faulty disk and a swap that runs full: coremap and slots stay consistent, RR is FIFO, misses = frames in use + evictions and references = hits + misses, across wrap-around and up to an abort |
| `clock` | 4 pages, 3 frames | ring well formed; second chance; `Evict` terminates |
| `s2q` | 4 pages, 3 frames, threshold 1 | victims are frames, bits tell the queue, 2Q implemented |
| `page_table` | radix 2, 2-byte pages, 8 pages, cap of 66 bytes | one entry per page, lazy levels, full destruction in an order that never reads freed memory, exact counters, with allocations failing anywhere and at the cap |
| `bitmap` | 5-bit words, `size_t` modulo 32, every size from 1 to 31 | leftover bits used, assertions hold, implements the slot allocator, also for the sizes whose number of words wraps to 0 |
| `khash` | 4 keys, tables of 4, 8 and 16 buckets | searches end, keys are unique, implements a map |
| `program` | files of up to 3 lines, three pages, radix 2, cap of 36 bytes, one read error | the swap file is removed, all is released, the handler is safe, a trace that ends in a newline is replayed once and in order, every run ends |
| `offset_16`, `swap_full`, `short_read`, `search_index` | | four disagreements, section 5 |

What a swap smaller than the working set does to the data is not a run of its own:
`ReadsCorrect` and `CleanPagesCorrect` (section 4) hold for every swap size.

Bounds. One page more than frames makes every access able to evict every page;
three pages with two frames already give a page the cycle resident, swapped,
resident clean, swapped again while another page stays put. Two byte values tell
old data from new; `Values = {0}` is used where contents do not matter. With frames
of two bytes the position of a slot is not its index. A counter
modulo 1 is a counter left out; `rr` uses 3 so that they wrap.
`S2Q_DIVISOR = 2` with three frames gives a threshold of 1, so both branches of
`Evict` occur with non-empty and with empty lists; the code's 10 would need ten
frames. Radix 2 gives every level two entries.

The caps of `page_table` and `program` lie below the size of a full tree, so that
kmalloc refuses blocks in the middle of a walk as well as malloc does. Five-bit words
with sizes to 31 give up to six words, every remainder, and the four sizes that
wrap. The hash values of `khash` (3, 11, 0, 8) collide in pairs in the small tables
and the probes of one pair wrap onto the home of the other, so that growth and
in-place rehashes meet elements that have not moved yet. The accesses of `program` are
to pages 0, 1 and 5: the first two share their tables and fit the cap together, so
that traces of several pages are replayed to their end; the third needs tables of its
own, which the cap then refuses. Its lines are of six kinds, one of them longer than
the buffer. `MAX_ERRORS` bounds read errors.

Symmetry in the pages is used only where pages are merely compared.

Fairness. Safety runs need none. `EvictTerminates` assumes weak fairness of the
two steps of the loop of `Evict`: it is straight-line sequential code which keeps
executing. `ProgramEnds` assumes weak fairness of the steps of main and of the
handler, that is, that the operating system keeps running the process; a signal from
outside is never forced to come. It is claimed for at most `MAX_ERRORS` read errors:
if `fgets` failed for ever, the last access would be replayed for ever.

Deadlock is checked everywhere; an ended run stutters explicitly.

## 4. Proofs

The theorems hold for all values of the constants that the named assumptions of the
modules allow: sizes at least 1 as `memsim.c:127` demands, offsets at most the frame
size as `TraceRead` enforces, a null pointer that is nobody's address. Three
further hypotheses appear where they are needed, and only there:

* `ReliableDisk`: every transfer moves a whole frame.
* `TraceInsideFrame`: offsets lie inside the frame, which `TraceRead` fails to
  enforce by one (section 5).
* `SwapLargeEnough`: at least as many slots as pages.

No two of them contradict each other; the run `paging` satisfies all three.

### Simulator, manager, coremap, swap (`MemSim_proofs`)

| Theorem | Statement | Hypotheses |
|---|---|---|
| `TypeCorrect` | `Spec => []TypeOK` | |
| `CoremapCorrect` | `Spec => []CoremapConsistent` | |
| `SlotsCorrect` | `Spec => []SlotsExclusive` | |
| `StatsCorrect` | `Spec => []StatsBalance` | |
| `SlotsStableCorrect` | `Spec => SlotsStable` | reliable disk |
| `DataCorrect`, `ReadsCorrect`, `CleanPagesCorrect` | `[]DataInv`, `[]NoMismatch`, `[]CleanHasCopy` | reliable disk, offsets inside |
| `KeepCorrect`, `NoAbort` | `[]KeepInv`, `[]NeverAborts` | reliable disk, large swap |
| `FlatMemoryImplemented` | `Spec => ImplementsFlatMemory` | all three |

* `CoremapConsistent` is inductive given types. The key notion is
  `FrameAvailable(f, table)`: no valid entry of `table` names `f` and elsewhere
  coremap and table agree. A free frame is available in the current table, an
  evicted one in the table after the eviction; filling an available frame
  restores the invariant.
* `SlotsExclusive` is inductive given types and that slot positions are distinct
  (`SlotOffsetInjective`): a fresh slot's bit was clear, so no page named it.
* `StatsBalance` needs the coremap invariant, because the number of frames in use
  changes exactly on a miss without an eviction; the rest is arithmetic modulo the
  width of the counters.
* `NoMismatch` is not inductive: `DataInv` adds that what the trace wrote to a
  page is in its frame if it is valid, in its slot if it is on swap with a slot,
  and zero if it was never resident. That an eviction disturbs no other page's
  data needs `SlotsExclusive`, that a store disturbs no other page needs
  `CoremapConsistent`. Nothing is claimed of a page whose page-out failed: the
  simulator aborts before it could be read.
* `NeverAborts` is not inductive either. `KeepInv` adds that a page on swap has a
  slot and that every used slot is some page's. Mapping used slots to their pages
  is then an injection which misses the page to be evicted, so fewer slots are used
  than there are pages: the bitmap cannot be full.
* `FlatMemory` is the refinement of it all: with no aborts and no mismatch, a load is
  a stutter and a store changes one byte.

### Bitmap (`Bitmap_proofs`)

`LeftoverCorrect` (`[]LeftoverUsed`), `AssertionsHold` (`[]BitmapAssertions`) and
`BitmapImplementsAllocator` (`BitmapSpec => ImplementsSlotAllocator`), for every word
size, every range of `size_t` larger than a word and every size. They rest on lemma
`WordCount`: the rounded-up number of words either wraps to 0 or is the least that
holds `nbits` bits. `BInv` strengthens `LeftoverUsed` with the shape of the array, so
that a clear bit is known to be one of the `nbits` bits when it is handed out, and
that finding no clear bit means that all are used.

### Lists (last part of `MemSim_proofs`)

Lemmas only. `Ring(l, N, w, m)` says that the pointers of `l` link `w[0], ..., w[m - 1]`
into one circle of distinct nodes, in both directions. `Walk` is defined by recursion;
`FollowsExists` shows by a least-counterexample argument that the function exists, so
its equation may be used, and `ForEachVisits` that `list_for_each` visits `w[1]` to
`w[m - 1]` in order. `InsertRing` and `RemoveRing` say what `__list_insert` and
`list_del` do to a ring, `RotateRing` that it may be read from any node.

### Hash table (`KHash_proofs`)

`KHashInvariant` (`[]KHInv`), `ProbesEndCorrect` (`[]ProbesEnd`), `KeysUniqueCorrect`
(`[]KeysUnique`) and `KHashImplementsPointerMap` (`KHSpec => ImplementsPointerMap`), for
every finite set of pointers within `KeysAssumption` and every hash function.

* Neither `ProbesEnd` nor `KeysUnique` is inductive: `kh_put` may only reuse a
  tombstone because its search went on to an empty bucket, and the search for a key
  must meet it before any empty bucket. `KHInv` says this: the counters are exact,
  the occupied buckets are at most the threshold, which is less than the number of
  buckets, no key is live twice, and every live bucket is reached by the search for
  its own key (`AllReached`).
* Why a search ends: the probes of a key visit every bucket once (`ProbeInjective`).
  The i-th probe is off by `i(i+1)/2`; two of these that agree modulo 2^e would make
  2^(e+1) divide `(j - i)(j + i + 1)`, one of whose factors is odd and the other too
  small (`OddFactor`, `OffsetsDiffer`). Counting then gives a probe outside every set
  of fewer buckets (`ProbeLeaves`).
* `Moving` is the invariant of the rehash: every element of the old table is in a
  bucket still to be moved, in a bucket of the new layout, or in hand, and in only one
  of these; what has moved is reached in the new layout; and after k rounds k elements
  have moved. After as many rounds as elements nothing is left to move and the hand is
  empty, so the new table has the `Contents` of the old one.
* The abstract map is read off the live buckets; `kh_get` finds exactly these. The
  operations are then those of `PointerMap`, and a rehash is none.

### Policies

Each policy only restricts the choice of victims, so every theorem about `Spec` holds
under it: `RRImplementsSpec`, `S2QImplementsSpec`, `ClockImplementsSpec`.

| Theorem | Statement | Hypotheses |
|---|---|---|
| `RRTypeCorrect` | `RRSpec => []RRTypeOK` | |
| `RRImplementsFIFO` | `RRSpec => ImplementsFIFO` | |
| `ClockCorrect`, `ClockTypeCorrect`, `RingCorrect` | `[]ClockInv`, `[]ClockTypeOK`, `[]RingWellFormed` | |
| `ClockImplementsSecondChance` | `ClockSpec => ImplementsSecondChance` | reliable disk, large swap |
| `S2QTypeCorrect` (not a run's property), `BitTellsQueueCorrect` | `[]S2QTypeOK`, `[]BitTellsQueue` | |
| `VictimCorrect` | `S2QSpec => []VictimIsFrame` | `S2Q_DIVISOR > 1` |
| `S2QImplementsTwoQueue` | `S2QSpec => ImplementsTwoQueue` | reliable disk, large swap |

* RR: `FillsInOrder` says that while memory is not full the frames in use are
  `0 .. k - 1` and the counter is 0, so that the counter is at the oldest page when
  the first eviction comes. The queue is the frames read from the counter onwards.
* Clock: `ClockInv` says that the frames in use form one ring of the right size and
  where hand and head stand, before and in the middle of `Evict`. The queue of
  `SecondChance` is the ring read from behind the hand (during `Evict`, from the
  hand). Insertion at the moving head is then insertion at the end, and each
  iteration of `Evict` moves the front to the end or removes it. The hypotheses
  exclude an abort, after which the code leaves the new frame out of the ring.
* S2Q: `S2QInv` says that two disjoint rings, one through each head, partition the
  frames in use, and that the pages with a set bit are those on Am. `VictimIsFrame`
  is then counting: the lengths add up to the memory size, so if A1 is not longer than
  its share, and its share is less than the whole memory, Am is not empty. A divisor
  of 1 would break this; the code has 10.
* S2Q is 2Q: `ListsHold` says that two sequences of frames are the traversals of the
  two rings. Each list operation then is an operation on these sequences
  (`ListsAddTail`, `ListsAddHead`, `ListsDelA1`, `ListsDelAm`), and reading them
  through the coremap (`Held`) gives the two queues of pages. One lemma per step of
  the policy: `HitTouches`, `MissLoads`, `EvictReplaces`. Aborts are excluded as for
  the clock.

### Page table and kmalloc (`PageTable_proofs`)

`PTInvariant` (`[]PTInv`), `EntryPerPageCorrect`, `LazyLevelsCorrect`,
`DestroyFreesAllCorrect`, `AccountingCorrect`, for every page size, radix, block sizes
and cap, wherever an allocation is refused.

* `PTInv`: while the table is in use the heap is exactly the tree over the pages
  accessed so far. kmalloc's counters agree with its map as long as none of its
  assertions failed, also after a walk cut short by a refused allocation.
* `IndexInjective`: three indices and an offset determine the address, by lemmas on
  division and remainders; hence different pages have different entries.
* The order of destruction is a recursive function on places of the tree. That it
  exists (`OrderExists`) needs no induction: three levels, so three iterations of the
  equation. `Frees(order, S)` says of a sequence that it lists each block of `S` once
  and no block before those it owns; `TableFrees` builds it from the entries of a
  table, `DestroyIs` applies it to the whole tree. Each `CSC369_free` then passes its
  assertion and the counters end at zero.

### Lifecycle and signals (`Program_proofs`)

`SwapFileRemovedCorrect`, `HandlerSafeCorrect`, `ReturnReleasesAllCorrect`, on the
inductive invariants `ControlInv` (`ControlCorrect`) and `ProgInv` (`ProgramCorrect`).

* `ControlInv`: resources are acquired in the order of the code and released in whole
  parts; the global `simulation` points to what main holds, or to freed memory in the
  one window where main has not yet returned.
* `ProgInv` adds that the position of main tells which blocks are live (nothing is
  claimed of kmalloc once the handler is entered, since one of its own assertions may
  be the cause), and that the trace only delivers addresses the table can index. Since the destruction of the page
  table passes every assertion (`PageTable_proofs`), the faults of memsim's own all
  come while the swap still exists, so the handler finds it.

### Trace replay (`Program_proofs`)

`TraceReplayedCorrect` (`ProgSpec => []TraceReplayed`) for every set of files over
addresses the table can index, any number of lines and comments anywhere. The property
is about files whose lines fit the buffer (`Tidy`) and that end in a newline, as long
as no read error has occurred; section 5 says what the code does with the others. `TraceReplayed` says nothing of the reader's position and is not
inductive. `ReplayInv` adds that while reads succeed, the lines up to the position are
valid and what was delivered is what they contain (`Reads`), and that everything was
delivered once a read has returned -1. The proof goes over the maximal run of comments
that one `CSC369_TraceRead` skips: it adds nothing (`Replayed` is constant over it),
and the text behind it decides between an access, an invalid line and the end of the
file. For tidy files, text and line numbers agree (`TidyTexts`).

### Only model-checked

* `EvictTerminates` and `ProgramEnds`: liveness is outside the prover's reach.
* The disagreements of section 5, which TLC refutes.

## 5. Where code and documents disagree

* `offset_16`: `csc369_trace.c:103` rejects offsets `> 16` only, so offset 16
  reaches the next frame. In the run a store there to the page in frame 0 changes the
  first byte of the page in frame 1 (`ResidentHoldsData`), where HANDOUT.md:30 says
  that offsets fit in the frames.
* `swap_full`: after a failed page-out the run goes on (`csc369_mm.c:147`), where
  HANDOUT.md says to exit.
* `short_read`: after a failed page-in the page is made valid
  (`csc369_mm.c:96-109`) with whatever the frame held.
* `search_index`: `PageTableSearch` takes its third index modulo 2^24
  (`csc369_page_table.c:218`) and reads beyond the table once the second index is
  not 0. `memsim` itself only calls `PageTableAllocate`.

Two more disagreements of the trace reader are in the model and have no run of their
own; the hypotheses of `TraceReplayed` leave them out:

* A last line without a newline is dropped, since `feof` is already true when it has
  been read (`csc369_trace.c:72`). HANDOUT.md:55 says "For each line in the trace",
  and `csc369_trace.h:52` that `CSC369_TraceRead` returns "0 iff an item has been
  read, -1 otherwise".
* A read error of the trace is not told by `feof`, and the stale buffer is parsed
  again (`csc369_trace.c:68`): 0 is returned with an access that was not read,
  against the same line of `csc369_trace.h`.

Further remarks, which no document contradicts:

* `CSC369_MMCreate` frees neither its own block nor the root of the table when the
  latter cannot be completed; `ReturnReleasesAll` names exactly these two.
* `CSC369_SwapDestroy` closes descriptor 0 when `CSC369_SwapCreate` failed before
  `mkstemp` (`csc369_swap.c:69`); `ReturnReleasesAll` allows it only if no simulation
  was made.
* A handled fatal signal before `main` has assigned `simulation` leaves the swap file behind;
  `SwapFileRemoved` excepts exactly this case.

## 6. Plan

Done: all parts of the table in section 1 are modelled, and every invariant, action
property and refinement that a passing run checks is also proved. The two liveness
properties stay with TLC.

What would extend it: a bound on the trace addresses in the code itself, after
which `FilesAssumption` could be dropped; nothing else of the program's control is
left out.

Not modelled and why:

* `csc369_logger.h`: formatting only, no state.
* Option parsing and timing in `memsim.c`: plain I/O; that they may stop the program
  before it creates anything is in `Program`.
* The `CSC369_Bitfield` functions: not called by the program.
* The other instantiations of `khash.h`, its iteration macros and `kh_destroy`: not
  used by the program.
* Addresses of 2^48 and more: the walk then reads foreign memory, of which nothing
  can be said.
* The unit tests under `tests/`, of the page table: read as statements of what Search and
  Allocate promise.
