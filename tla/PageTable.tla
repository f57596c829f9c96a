----------------------------- MODULE PageTable -----------------------------
(***************************************************************************)
(* The three-level page table (csc369_page_table.c) as the blocks it       *)
(* obtains from CSC369_malloc.  A block is named by its kind and by the    *)
(* indices that lead to it from the root: a table is a struct ("table")    *)
(* with its array of pointers ("ptes"), and an entry ("pte") of an upper   *)
(* level may own the table below it.                                       *)
(*                                                                         *)
(* Any CSC369_malloc may fail.  It returns NULL when the cap on the bytes  *)
(* handed out has been reached or malloc itself failed.                    *)
(***************************************************************************)
EXTENDS Kmalloc

CONSTANTS
  PAGE_SIZE,    \* CSC369_PAGE_SIZE (2^12 in the code)
  RADIX         \* entries of one table (2^12 in the code)

ASSUME PageSizeAssumption == PAGE_SIZE \in Nat \ {0}
ASSUME RadixAssumption == RADIX \in Nat \ {0, 1}

VARIABLES
  touched,      \* page numbers of the addresses given to Allocate so far
  phase         \* "new", "ready", "failed", "crashed" or "destroyed"

ptVars == <<km, touched, phase>>

heap == LiveBlocks(km)

Addresses == 0 .. PAGE_SIZE * RADIX * RADIX * RADIX - 1
PageNumber(va) == va \div PAGE_SIZE

Table(path) == <<Block("table", path), Block("ptes", path)>>

PTInit == km = CSC369_MallocInit /\ touched = {} /\ phase = "new"

(* Faulty variant: the second index is taken from the wrong bits.          *)
WrongPageNumber2(va) == (va \div PAGE_SIZE) % RADIX

(* The three indices of an address, as CSC369_PageTableAllocate has them.  *)
page_number_1(va) == va \div (PAGE_SIZE * RADIX * RADIX)
page_number_2(va) == (va \div (PAGE_SIZE * RADIX)) % RADIX
page_number_3(va) == (va \div PAGE_SIZE) % RADIX

Entry(va) ==
  Block("pte", <<page_number_1(va), page_number_2(va), page_number_3(va)>>)

(* The blocks on the way to the entry of va, in the order in which         *)
(* CSC369_PageTableAllocate creates those that are missing.                *)
Chain(va) ==
  LET dir1 == <<page_number_1(va)>>
      dir2 == <<page_number_1(va), page_number_2(va)>>
  IN  <<Block("pte", dir1)>> \o Table(dir1) \o <<Block("pte", dir2)>>
        \o Table(dir2) \o <<Entry(va)>>

(* What is allocated if the pointer to the first of these blocks is NULL.  *)
Absent(blocks) == IF blocks[1] \in heap THEN <<>> ELSE blocks

Missing(va) ==
  LET dir1 == <<page_number_1(va)>>
      dir2 == <<page_number_1(va), page_number_2(va)>>
  IN  Absent(<<Block("pte", dir1)>>) \o Absent(Table(dir1))
        \o Absent(<<Block("pte", dir2)>>) \o Absent(Table(dir2))
        \o Absent(<<Entry(va)>>)

(* Faulty variant: Create also makes the first table of the next level.    *)
CreateEager ==
  /\ phase = "new"
  /\ km' = CSC369_malloc(km, Table(<<>>) \o <<Block("pte", <<0>>)>> \o Table(<<0>>))
  /\ phase' = "ready"
  /\ UNCHANGED touched

(* CSC369_malloc fails on the n-th of these blocks: it returns NULL, or it *)
(* asserts because its table of pointers cannot grow.                      *)
ReturnsNull(blocks, n) ==
  /\ WithinMax(km, SubSeq(blocks, 1, n - 1))
  /\ km' = CSC369_malloc(km, SubSeq(blocks, 1, n - 1))

MallocAborts(blocks, n) ==
  /\ WithinMax(km, SubSeq(blocks, 1, n))
  /\ km' = Unrecorded(CSC369_malloc(km, SubSeq(blocks, 1, n - 1)), blocks[n])

(* CSC369_PageTableCreate for the root.  When its second CSC369_malloc     *)
(* returns NULL the first block is not freed.                              *)
CSC369_PageTableCreate ==
  /\ phase = "new"
  /\ \/ /\ WithinMax(km, Table(<<>>))
        /\ km' = CSC369_malloc(km, Table(<<>>))
        /\ phase' = "ready"
     \/ \E n \in 1 .. 2 : ReturnsNull(Table(<<>>), n) /\ phase' = "failed"
     \/ \E n \in 1 .. 2 : MallocAborts(Table(<<>>), n) /\ phase' = "crashed"
  /\ UNCHANGED touched

CSC369_PageTableAllocate(va) ==
  /\ phase = "ready"
  /\ WithinMax(km, Missing(va))
  /\ km' = CSC369_malloc(km, Missing(va))
  /\ touched' = touched \cup {PageNumber(va)}
  /\ UNCHANGED phase

(* A CSC369_malloc on the way fails.  The NULL is stored and dereferenced, *)
(* or, for the entry itself, returned to the memory manager, whose first   *)
(* CSC369_PTEIsValid asserts; or the table of pointers cannot grow and     *)
(* CSC369_malloc asserts: memsim is killed in every case.                  *)
AllocateFails(va) ==
  /\ phase = "ready"
  /\ \E n \in 1 .. Len(Missing(va)) :
       ReturnsNull(Missing(va), n) \/ MallocAborts(Missing(va), n)
  /\ phase' = "crashed"
  /\ UNCHANGED touched

-----------------------------------------------------------------------------
(* Faulty variants: the table below an entry is not freed; the entry is    *)
(* freed before the table it points to.                                    *)
PTEDestroyShallow(path, below) == <<Block("pte", path)>>
PTEDestroyTopDown(path, below) == <<Block("pte", path)>> \o below

(* An entry is freed after the blocks below it.                            *)
CSC369_PTEDestroy(path, below) == below \o <<Block("pte", path)>>

(* The blocks that CSC369_PageTableDestroy of the table at path frees, in  *)
(* its order: its entries, the tables below them first, then the table.    *)
Paths == UNION {[1 .. n -> 0 .. RADIX - 1] : n \in 0 .. 2}

DestroyOrder[path \in Paths] ==
  FlattenSeq(
    [i \in 1 .. RADIX |->
       LET entry == Append(path, i - 1)
           below == IF Block("table", entry) \in heap
                      THEN DestroyOrder[entry] ELSE <<>>
       IN  IF Block("pte", entry) \in heap
             THEN CSC369_PTEDestroy(entry, below) ELSE <<>>])
    \o <<Block("ptes", path), Block("table", path)>>

(* The block that holds the only pointer to b: it is read to get there.    *)
Owner(b) ==
  CASE b.kind = "pte" -> Block("ptes", Front(b.path))
    [] b.kind = "ptes" -> Block("table", b.path)
    [] OTHER -> Block("pte", b.path)

ReadsFreed(order) == \E m, n \in DOMAIN order : m < n /\ order[m] = Owner(order[n])

DestroyBlocks(order) ==
  km' = IF ReadsFreed(order) THEN Fault(km) ELSE CSC369_free(km, order)

CSC369_PageTableDestroy ==
  /\ phase = "ready"
  /\ \E order \in {DestroyOrder[<<>>]} : DestroyBlocks(order)
  /\ phase' = "destroyed"
  /\ UNCHANGED touched

PTTerminated == phase \notin {"new", "ready"} /\ UNCHANGED ptVars

PTNext ==
  \/ CSC369_PageTableCreate
  \/ \E va \in Addresses : CSC369_PageTableAllocate(va) \/ AllocateFails(va)
  \/ CSC369_PageTableDestroy
  \/ PTTerminated

PTSpec == PTInit /\ [][PTNext]_ptVars

-----------------------------------------------------------------------------
(* CSC369_PageTableSearch: the blocks it may return, "none" for NULL.  Its *)
(* third index is taken modulo RADIX * RADIX; an index beyond the array    *)
(* reads foreign memory, whatever that holds ("wild").                     *)
CSC369_PageTableSearch(va) ==
  LET index == (va \div PAGE_SIZE) % (RADIX * RADIX)
      found == Block("pte", <<page_number_1(va), page_number_2(va), index>>)
  IN  IF Chain(va)[1] \notin heap \/ Chain(va)[2] \notin heap
         \/ Chain(va)[4] \notin heap \/ Chain(va)[5] \notin heap
        THEN {"none"}
      ELSE IF index >= RADIX THEN {"none", "wild"}
      ELSE IF found \in heap THEN {found} ELSE {"none"}
-----------------------------------------------------------------------------
(* One entry per virtual page: an address has an entry exactly when some   *)
(* address of its page was accessed, so no two pages share an entry and    *)
(* every offset of a page leads to the same one.                           *)
EntryPerPage ==
  phase = "ready" =>
    \A va \in Addresses :
      Entry(va) \in heap <=> PageNumber(va) \in touched

(* csc369_page_table.h: Create allocates "only the top-level directory"    *)
(* and lower levels are allocated where needed: every block but the root   *)
(* lies on the way to a page that was accessed.                            *)
LazyLevels ==
  phase = "ready" =>
    heap = ToSet(Table(<<>>)) \cup UNION {ToSet(Chain(n * PAGE_SIZE)) : n \in touched}

(* csc369_page_table.h: Destroy frees "any resources it holds", on every   *)
(* level, each block once and none that it still reads: after any accesses *)
(* the leak check of kmalloc finds nothing and free never aborts.          *)
DestroyFreesAll ==
  phase = "destroyed" => heap = {} /\ km.ok /\ CSC369_MallocIsLeakFree(km, 0, 0)

(* csc369_page_table.h: Search returns "a pointer to the PTE if it has     *)
(* been allocated, NULL otherwise".                                        *)
SearchFindsAllocated ==
  phase = "ready" =>
    \A va \in Addresses :
      CSC369_PageTableSearch(va) =
        IF Entry(va) \in heap THEN {Entry(va)} ELSE {"none"}
=============================================================================
