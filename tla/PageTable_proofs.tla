-------------------------- MODULE PageTable_proofs --------------------------
(***************************************************************************)
(* Theorems about PageTable, for every page size and radix, any sizes of   *)
(* the blocks and any cap on the bytes handed out.                         *)
(***************************************************************************)
EXTENDS PageTable, FiniteSetTheorems, SequenceTheorems, WellFoundedInduction, TLAPS

-----------------------------------------------------------------------------
(* kmalloc *)

AllBlocks == [kind : BlockKinds, path : Seq(Nat)]

(* A list of different blocks.                                             *)
Different(blocks) ==
  /\ blocks \in Seq(AllBlocks)
  /\ \A m, n \in 1 .. Len(blocks) : blocks[m] = blocks[n] => m = n

(* How many blocks of each kind there are in a set of blocks.              *)
Counts(S) == [kind \in BlockKinds |-> Cardinality({b \in S : b.kind = kind})]

(* The counters of kmalloc agree with its map.                             *)
MallocInv(k) ==
  /\ k \in [num_mallocs : Nat, num_frees : Nat,
            bytes_malloced : Nat, bytes_freed : Nat,
            malloc_map : UNION {[D -> {"size", "freed"}] : D \in SUBSET AllBlocks},
            ok : BOOLEAN]
  /\ IsFiniteSet(LiveBlocks(k))
  /\ CSC369_MallocCurrentCount(k) = Cardinality(LiveBlocks(k))
  /\ CSC369_MallocCurrentBytes(k) = Total(Counts(LiveBlocks(k)))
  /\ k.bytes_malloced <= KMALLOC_MAX

LEMMA CountsType ==
  ASSUME NEW S, IsFiniteSet(S)
  PROVE  Counts(S) \in [BlockKinds -> Nat]
<1>1. \A kind : IsFiniteSet({b \in S : b.kind = kind})
  BY FS_Subset
<1> QED
  BY <1>1, FS_CardinalityType DEF Counts

LEMMA TotalType ==
  ASSUME NEW c \in [BlockKinds -> Nat]
  PROVE  Total(c) \in Nat
<1> DEFINE Prod(kind) == c[kind] * SIZEOF[kind]
<1>1. \A kind \in BlockKinds : Prod(kind) \in Nat
  <2>1. \A m, n \in Nat : m * n \in Nat
    OBVIOUS
  <2>2. \A kind \in BlockKinds : c[kind] \in Nat /\ SIZEOF[kind] \in Nat
    BY SizeofAssumption
  <2> QED
    BY <2>1, <2>2
<1>2. Total(c) = Prod("mm") + Prod("table") + Prod("ptes") + Prod("pte")
  BY DEF Total
<1> HIDE DEF Prod
<1> QED
  BY <1>1, <1>2 DEF BlockKinds

(* The bytes of two disjoint sets of blocks add up.                        *)
LEMMA TotalAdds ==
  ASSUME NEW c \in [BlockKinds -> Nat], NEW d \in [BlockKinds -> Nat],
         NEW e \in [BlockKinds -> Nat],
         \A kind \in BlockKinds : e[kind] = c[kind] + d[kind]
  PROVE  Total(e) = Total(c) + Total(d)
<1>1. \A kind \in BlockKinds :
        /\ c[kind] \in Nat /\ d[kind] \in Nat /\ SIZEOF[kind] \in Nat
        /\ e[kind] * SIZEOF[kind] = c[kind] * SIZEOF[kind] + d[kind] * SIZEOF[kind]
        /\ c[kind] * SIZEOF[kind] \in Nat /\ d[kind] * SIZEOF[kind] \in Nat
  <2>1. \A x, y, z \in Nat : /\ (x + y) * z = x * z + y * z
                             /\ x * z \in Nat
    OBVIOUS
  <2>2. \A kind \in BlockKinds : c[kind] \in Nat /\ d[kind] \in Nat /\ SIZEOF[kind] \in Nat
    BY SizeofAssumption
  <2> QED
    BY <2>1, <2>2
<1> DEFINE C(kind) == c[kind] * SIZEOF[kind]
           D(kind) == d[kind] * SIZEOF[kind]
           E(kind) == e[kind] * SIZEOF[kind]
<1>2. /\ Total(c) = C("mm") + C("table") + C("ptes") + C("pte")
      /\ Total(d) = D("mm") + D("table") + D("ptes") + D("pte")
      /\ Total(e) = E("mm") + E("table") + E("ptes") + E("pte")
  BY DEF Total
<1>3. \A kind \in BlockKinds : C(kind) \in Nat /\ D(kind) \in Nat /\ E(kind) = C(kind) + D(kind)
  BY <1>1
<1> HIDE DEF C, D, E
<1> QED
  BY <1>2, <1>3 DEF BlockKinds

LEMMA DisjointAdds ==
  ASSUME NEW S, NEW T, IsFiniteSet(S), IsFiniteSet(T), S \cap T = {}
  PROVE  /\ IsFiniteSet(S \cup T)
         /\ Cardinality(S \cup T) = Cardinality(S) + Cardinality(T)
         /\ Cardinality(S) \in Nat /\ Cardinality(T) \in Nat
<1>1. /\ IsFiniteSet(S \cup T)
      /\ Cardinality(S \cup T) = Cardinality(S) + Cardinality(T) - Cardinality(S \cap T)
  BY FS_Union
<1>2. Cardinality(S) \in Nat /\ Cardinality(T) \in Nat
  BY FS_CardinalityType
<1>3. Cardinality(S \cap T) = 0
  BY FS_EmptySet
<1> QED
  BY ONLY <1>1, <1>2, <1>3

LEMMA CountsAdd ==
  ASSUME NEW S, NEW T, IsFiniteSet(S), IsFiniteSet(T), S \cap T = {}
  PROVE  Total(Counts(S \cup T)) = Total(Counts(S)) + Total(Counts(T))
<1>1. /\ Counts(S) \in [BlockKinds -> Nat] /\ Counts(T) \in [BlockKinds -> Nat]
      /\ Counts(S \cup T) \in [BlockKinds -> Nat]
  BY CountsType, DisjointAdds
<1>2. ASSUME NEW kind \in BlockKinds
      PROVE  Counts(S \cup T)[kind] = Counts(S)[kind] + Counts(T)[kind]
  <2> DEFINE A == {b \in S : b.kind = kind}
             B == {b \in T : b.kind = kind}
             C == {b \in S \cup T : b.kind = kind}
  <2>1. IsFiniteSet(A) /\ IsFiniteSet(B) /\ A \cap B = {} /\ C = A \cup B
    BY FS_Subset
  <2>2. Counts(S \cup T)[kind] = Cardinality(C) /\ Counts(S)[kind] = Cardinality(A)
        /\ Counts(T)[kind] = Cardinality(B)
    BY DEF Counts
  <2> HIDE DEF A, B, C
  <2> QED
    BY <2>1, <2>2, DisjointAdds
<1> HIDE DEF Counts
<1> QED
  BY <1>1, <1>2, TotalAdds

(* A list of different blocks counts as the set of its blocks.             *)
LEMMA DifferentCount ==
  ASSUME NEW blocks, Different(blocks)
  PROVE  /\ IsFiniteSet(ToSet(blocks)) /\ ToSet(blocks) \subseteq AllBlocks
         /\ Len(blocks) = Cardinality(ToSet(blocks))
         /\ Bytes(blocks) = Total(Counts(ToSet(blocks)))
         /\ IsInjective(blocks)
<1>1. DOMAIN blocks = 1 .. Len(blocks) /\ Len(blocks) \in Nat
  BY DEF Different
<1> DEFINE N == Len(blocks)
<1>8. IsFiniteSet(1 .. N) /\ Cardinality(1 .. N) = N
  <2>1. N \in Nat
    BY <1>1
  <2> HIDE DEF N
  <2>2. 1 \in Int /\ N \in Int /\ (1 > N => N = 0) /\ N - 1 + 1 = N
    BY <2>1
  <2> QED
    BY <2>1, <2>2, FS_Interval
<1>2. ASSUME NEW D \in SUBSET (1 .. Len(blocks)), NEW S, S = {blocks[n] : n \in D}
      PROVE  IsFiniteSet(S) /\ Cardinality(D) = Cardinality(S)
  <2> DEFINE f == [n \in D |-> blocks[n]]
  <2>1. IsFiniteSet(D)
    BY <1>8, FS_Subset
  <2>2. f \in Bijection(D, S)
    BY <1>2 DEF Different, Bijection, Injection, Surjection, IsInjective
  <2> HIDE DEF f
  <2> QED
    BY <2>1, <2>2, FS_Bijection DEF ExistsBijection
<1>3. ToSet(blocks) = {blocks[n] : n \in 1 .. Len(blocks)}
  BY <1>1 DEF ToSet
<1>4. IsFiniteSet(ToSet(blocks)) /\ Len(blocks) = Cardinality(ToSet(blocks))
  <2>1. Cardinality(1 .. Len(blocks)) = Len(blocks)
    BY <1>8
  <2> QED
    BY <1>2, <1>3, <2>1
<1>5. ToSet(blocks) \subseteq AllBlocks
  BY <1>1 DEF ToSet, Different
<1>6. ASSUME NEW kind \in BlockKinds
      PROVE  Cardinality({n \in DOMAIN blocks : blocks[n].kind = kind})
               = Cardinality({b \in ToSet(blocks) : b.kind = kind})
  <2> DEFINE D == {n \in DOMAIN blocks : blocks[n].kind = kind}
             S == {b \in ToSet(blocks) : b.kind = kind}
  <2>1. D \in SUBSET (1 .. Len(blocks)) /\ S = {blocks[n] : n \in D}
    BY <1>1 DEF ToSet
  <2> HIDE DEF D, S
  <2>2. Cardinality(D) = Cardinality(S)
    BY <1>2, <2>1
  <2> QED
    BY <2>2 DEF D, S
<1>7. Bytes(blocks) = Total(Counts(ToSet(blocks)))
  <2>1. [kind \in BlockKinds |-> Cardinality({n \in DOMAIN blocks : blocks[n].kind = kind})]
          = Counts(ToSet(blocks))
    BY <1>6 DEF Counts
  <2> QED
    BY <2>1 DEF Bytes
<1> QED
  BY <1>1, <1>4, <1>5, <1>7 DEF IsInjective, Different

(* CSC369_malloc of blocks not in use.                                     *)
LEMMA MallocKeeps ==
  ASSUME NEW k, MallocInv(k), NEW blocks, Different(blocks),
         ToSet(blocks) \cap LiveBlocks(k) = {}, WithinMax(k, blocks)
  PROVE  /\ MallocInv(CSC369_malloc(k, blocks))
         /\ LiveBlocks(CSC369_malloc(k, blocks)) = LiveBlocks(k) \cup ToSet(blocks)
         /\ CSC369_malloc(k, blocks).ok = k.ok
<1> DEFINE T == ToSet(blocks)
           L == LiveBlocks(k)
           h == CSC369_malloc(k, blocks)
           map == [b \in DOMAIN k.malloc_map \cup T |->
                     IF b \in T THEN "size" ELSE k.malloc_map[b]]
<1>1. /\ IsFiniteSet(T) /\ T \subseteq AllBlocks
      /\ Len(blocks) = Cardinality(T) /\ Bytes(blocks) = Total(Counts(T))
  BY DifferentCount
<1>2. Cardinality(T) \in Nat /\ Total(Counts(T)) \in Nat
  BY <1>1, FS_CardinalityType, CountsType, TotalType
<1>3. PICK D \in SUBSET AllBlocks : k.malloc_map \in [D -> {"size", "freed"}]
  BY DEF MallocInv
<1>4. /\ h.num_mallocs = k.num_mallocs + Cardinality(T) /\ h.num_frees = k.num_frees
      /\ h.bytes_malloced = k.bytes_malloced + Total(Counts(T))
      /\ h.bytes_freed = k.bytes_freed /\ h.malloc_map = map /\ h.ok = k.ok
      /\ h = [num_mallocs |-> h.num_mallocs, num_frees |-> h.num_frees,
              bytes_malloced |-> h.bytes_malloced, bytes_freed |-> h.bytes_freed,
              malloc_map |-> h.malloc_map, ok |-> h.ok]
  <2>1. CSC369_malloc(k, blocks) =
          [k EXCEPT !.num_mallocs = @ + Len(blocks),
                    !.bytes_malloced = @ + Bytes(blocks),
                    !.malloc_map = [b \in DOMAIN @ \cup ToSet(blocks) |->
                                      IF b \in ToSet(blocks) THEN "size" ELSE @[b]]]
    BY DEF CSC369_malloc
  <2> QED
    BY <1>1, <2>1 DEF MallocInv
<1>5. map \in [D \cup T -> {"size", "freed"}] /\ D \cup T \in SUBSET AllBlocks
  BY <1>1, <1>3
<1>6. LiveBlocks(h) = L \cup T
  BY <1>4 DEF LiveBlocks
<1>7. /\ Cardinality(L \cup T) = Cardinality(L) + Cardinality(T)
      /\ IsFiniteSet(L \cup T) /\ Cardinality(L) \in Nat
      /\ Total(Counts(L \cup T)) = Total(Counts(L)) + Total(Counts(T))
      /\ Total(Counts(L)) \in Nat
  <2>1. IsFiniteSet(L) /\ L \cap T = {}
    BY DEF MallocInv
  <2> HIDE DEF L, T
  <2> QED
    BY <1>1, <2>1, DisjointAdds, CountsAdd, CountsType, TotalType
<1>8. k.bytes_malloced + Total(Counts(T)) <= KMALLOC_MAX
  BY <1>1 DEF WithinMax
<1> HIDE DEF L, T, h, map
<1>9. h \in [num_mallocs : Nat, num_frees : Nat,
             bytes_malloced : Nat, bytes_freed : Nat,
             malloc_map : UNION {[X -> {"size", "freed"}] : X \in SUBSET AllBlocks},
             ok : BOOLEAN]
  BY <1>2, <1>4, <1>5 DEF MallocInv
<1>10. /\ CSC369_MallocCurrentCount(h) = Cardinality(L \cup T)
       /\ CSC369_MallocCurrentBytes(h) = Total(Counts(L \cup T))
  <2>1. CSC369_MallocCurrentCount(k) = Cardinality(L)
        /\ CSC369_MallocCurrentBytes(k) = Total(Counts(L))
    BY DEF MallocInv, L
  <2>2. /\ k.num_mallocs \in Nat /\ k.num_frees \in Nat
        /\ k.bytes_malloced \in Nat /\ k.bytes_freed \in Nat
    BY DEF MallocInv
  <2> QED
    BY <1>2, <1>4, <1>7, <2>1, <2>2
       DEF CSC369_MallocCurrentCount, CSC369_MallocCurrentBytes
<1>11. MallocInv(h)
  BY <1>4, <1>6, <1>7, <1>8, <1>9, <1>10 DEF MallocInv
<1> QED
  BY <1>4, <1>6, <1>11 DEF h, L, T

(* CSC369_free of blocks in use, each once: no assertion fails.            *)
LEMMA FreeKeeps ==
  ASSUME NEW k, MallocInv(k), NEW blocks, Different(blocks),
         ToSet(blocks) \subseteq LiveBlocks(k)
  PROVE  /\ MallocInv(CSC369_free(k, blocks))
         /\ LiveBlocks(CSC369_free(k, blocks)) = LiveBlocks(k) \ ToSet(blocks)
         /\ CSC369_free(k, blocks).ok = k.ok
<1> DEFINE T == ToSet(blocks)
           L == LiveBlocks(k)
           R == L \ T
           h == CSC369_free(k, blocks)
           map == [b \in DOMAIN k.malloc_map |->
                     IF b \in T THEN "freed" ELSE k.malloc_map[b]]
<1>1. /\ IsFiniteSet(T) /\ T \subseteq AllBlocks /\ IsInjective(blocks)
      /\ Len(blocks) = Cardinality(T) /\ Bytes(blocks) = Total(Counts(T))
  BY DifferentCount
<1>2. Cardinality(T) \in Nat /\ Total(Counts(T)) \in Nat
  BY <1>1, FS_CardinalityType, CountsType, TotalType
<1>3. PICK D \in SUBSET AllBlocks : k.malloc_map \in [D -> {"size", "freed"}]
  BY DEF MallocInv
<1>4. /\ Cardinality(L) = Cardinality(R) + Cardinality(T)
      /\ IsFiniteSet(R) /\ Cardinality(R) \in Nat
      /\ Total(Counts(L)) = Total(Counts(R)) + Total(Counts(T))
      /\ Total(Counts(R)) \in Nat
  <2>1. IsFiniteSet(R) /\ R \cap T = {} /\ L = R \cup T
    BY FS_Subset DEF MallocInv
  <2> HIDE DEF L, R, T
  <2> QED
    BY <1>1, <2>1, DisjointAdds, CountsAdd, CountsType, TotalType
<1>5. CSC369_MallocCurrentCount(k) = Cardinality(L)
      /\ CSC369_MallocCurrentBytes(k) = Total(Counts(L))
  BY DEF MallocInv
<1>6. CSC369_free(k, blocks) =
        [k EXCEPT !.num_frees = @ + Len(blocks),
                  !.bytes_freed = @ + Bytes(blocks),
                  !.malloc_map = [b \in DOMAIN @ |->
                                    IF b \in ToSet(blocks) THEN "freed" ELSE @[b]]]
  <2> HIDE DEF L, R, T
  <2>1. ~(Cardinality(L) < Len(blocks)) /\ ~(Total(Counts(L)) < Bytes(blocks))
    BY <1>1, <1>2, <1>4
  <2> QED
    BY <1>1, <1>5, <2>1 DEF CSC369_free, T
<1>7. /\ h.num_frees = k.num_frees + Cardinality(T) /\ h.num_mallocs = k.num_mallocs
      /\ h.bytes_freed = k.bytes_freed + Total(Counts(T))
      /\ h.bytes_malloced = k.bytes_malloced /\ h.malloc_map = map /\ h.ok = k.ok
      /\ h = [num_mallocs |-> h.num_mallocs, num_frees |-> h.num_frees,
              bytes_malloced |-> h.bytes_malloced, bytes_freed |-> h.bytes_freed,
              malloc_map |-> h.malloc_map, ok |-> h.ok]
  BY <1>1, <1>6 DEF MallocInv
<1>8. map \in [D -> {"size", "freed"}]
  BY <1>3
<1>9. LiveBlocks(h) = R
  BY <1>7 DEF LiveBlocks
<1> HIDE DEF L, R, T, h, map
<1>10. h \in [num_mallocs : Nat, num_frees : Nat,
              bytes_malloced : Nat, bytes_freed : Nat,
              malloc_map : UNION {[X -> {"size", "freed"}] : X \in SUBSET AllBlocks},
              ok : BOOLEAN]
  BY <1>2, <1>7, <1>8 DEF MallocInv
<1>11. /\ CSC369_MallocCurrentCount(h) = Cardinality(R)
       /\ CSC369_MallocCurrentBytes(h) = Total(Counts(R))
  <2>1. /\ k.num_mallocs \in Nat /\ k.num_frees \in Nat
        /\ k.bytes_malloced \in Nat /\ k.bytes_freed \in Nat
    BY DEF MallocInv
  <2> QED
    BY <1>2, <1>4, <1>5, <1>7, <2>1
       DEF CSC369_MallocCurrentCount, CSC369_MallocCurrentBytes
<1>12. MallocInv(h)
  BY <1>4, <1>7, <1>9, <1>10, <1>11 DEF MallocInv
<1> QED
  BY <1>7, <1>9, <1>12 DEF h, L, R, T

LEMMA NoBytes == Total(Counts({})) = 0
<1>1. \A kind \in BlockKinds : Counts({})[kind] = 0 /\ SIZEOF[kind] \in Nat
  <2>1. \A kind : {b \in {} : b.kind = kind} = {}
    OBVIOUS
  <2> QED
    BY <2>1, FS_EmptySet, SizeofAssumption DEF Counts
<1>2. \A n \in Nat : 0 * n = 0
  OBVIOUS
<1> HIDE DEF Counts
<1> QED
  BY <1>1, <1>2 DEF Total, BlockKinds

LEMMA MallocInitInv == MallocInv(CSC369_MallocInit) /\ LiveBlocks(CSC369_MallocInit) = {}
<1> DEFINE k == CSC369_MallocInit
<1>1. /\ k \in [num_mallocs : Nat, num_frees : Nat,
               bytes_malloced : Nat, bytes_freed : Nat,
               malloc_map : UNION {[X -> {"size", "freed"}] : X \in SUBSET AllBlocks},
               ok : BOOLEAN]
      /\ k.num_mallocs = 0 /\ k.num_frees = 0
      /\ k.bytes_malloced = 0 /\ k.bytes_freed = 0
  <2>1. [b \in {} |-> "size"] \in [{} -> {"size", "freed"}]
    OBVIOUS
  <2> QED
    BY <2>1 DEF CSC369_MallocInit
<1>2. LiveBlocks(k) = {}
  BY DEF CSC369_MallocInit, LiveBlocks
<1>3. Total(Counts({})) = 0
  BY NoBytes
<1> HIDE DEF k
<1>4. MallocInv(k)
  BY <1>1, <1>2, <1>3, FS_EmptySet, MaxAssumption
     DEF MallocInv, CSC369_MallocCurrentCount, CSC369_MallocCurrentBytes
<1> QED
  BY <1>2, <1>4 DEF k

-----------------------------------------------------------------------------
(* Addresses and indices *)

(* Euclidean division is determined by its two properties.                 *)
LEMMA DivIs ==
  ASSUME NEW a \in Nat, NEW b \in Nat \ {0}, NEW q \in Nat, NEW r \in Nat,
         a = q * b + r, r < b
  PROVE  a \div b = q /\ a % b = r
OBVIOUS

LEMMA DivMod ==
  ASSUME NEW b \in Nat \ {0}, NEW a \in Nat
  PROVE  /\ a \div b \in Nat /\ a % b \in 0 .. b - 1
         /\ a = b * (a \div b) + (a % b)
OBVIOUS

(* Dividing by a product is dividing twice.                                *)
LEMMA DivDiv ==
  ASSUME NEW a \in Nat, NEW b \in Nat \ {0}, NEW c \in Nat \ {0}
  PROVE  a \div (b * c) = (a \div b) \div c
<1> DEFINE q == a \div b
           r == a % b
<1>1. q \in Nat /\ r \in Nat /\ r < b /\ a = b * q + r
  BY DivMod
<1> HIDE DEF q, r
<1> DEFINE u == q \div c
           v == q % c
<1>2. u \in Nat /\ v \in Nat /\ v < c /\ q = c * u + v
  BY <1>1, DivMod
<1> HIDE DEF u, v
<1>3. a = u * (b * c) + (v * b + r)
  BY <1>1, <1>2
<1>4. v * b + r < b * c
  <2>1. v * b + b <= c * b
    BY <1>2
  <2> QED
    BY <1>1, <1>2, <2>1
<1>5. v * b + r \in Nat /\ b * c \in Nat \ {0}
  BY <1>1, <1>2
<1>6. a \div (b * c) = u
  BY ONLY <1>1, <1>2, <1>3, <1>4, <1>5, DivIs
<1> QED
  BY <1>6 DEF u, q

PageNumbers == 0 .. RADIX * RADIX * RADIX - 1
Indices == 0 .. RADIX - 1

(* The three indices of a page number.                                     *)
Index(n) == <<n \div (RADIX * RADIX), (n \div RADIX) % RADIX, n % RADIX>>

LEMMA Radix ==
  /\ RADIX \in Nat \ {0} /\ RADIX * RADIX \in Nat \ {0}
  /\ PAGE_SIZE \in Nat \ {0} /\ PAGE_SIZE * RADIX \in Nat \ {0}
  /\ PAGE_SIZE * RADIX * RADIX = PAGE_SIZE * (RADIX * RADIX)
<1>1. \A x, y \in Nat \ {0} : x * y \in Nat \ {0}
  OBVIOUS
<1>2. \A x, y, z \in Nat : x * y * z = x * (y * z)
  OBVIOUS
<1>3. RADIX \in Nat \ {0} /\ PAGE_SIZE \in Nat \ {0}
  BY RadixAssumption, PageSizeAssumption
<1>4. RADIX \in Nat /\ PAGE_SIZE \in Nat
  BY <1>3
<1> QED
  BY ONLY <1>1, <1>2, <1>3, <1>4

(* The indices of an address are those of its page number.                 *)
LEMMA AddressIndices ==
  ASSUME NEW va \in Addresses
  PROVE  /\ PageNumber(va) \in PageNumbers
         /\ Index(PageNumber(va)) =
              <<page_number_1(va), page_number_2(va), page_number_3(va)>>
<1> DEFINE n == PageNumber(va)
<1>1. va \in Nat
  <2>1. \A x, y : x \in 0 .. y => x \in Nat
    OBVIOUS
  <2> QED
    BY <2>1 DEF Addresses
<1>7. n \in Nat /\ \E r \in Nat : va = PAGE_SIZE * n + r
  <2> DEFINE p == PAGE_SIZE
             r == va % p
  <2>1. p \in Nat \ {0}
    BY Radix
  <2> HIDE DEF p
  <2>2. va \div p \in Nat /\ r \in 0 .. p - 1 /\ va = p * (va \div p) + r
    BY ONLY <1>1, <2>1, DivMod
  <2>3. n = va \div p
    BY DEF PageNumber, p
  <2> HIDE DEF n, r
  <2>4. n \in Nat /\ r \in Nat /\ va = p * n + r
    BY ONLY <2>1, <2>2, <2>3
  <2> QED
    BY <2>4 DEF p
<1>2. n < RADIX * RADIX * RADIX
  <2> DEFINE S == RADIX * RADIX * RADIX
  <2>1. va < PAGE_SIZE * S /\ S \in Nat
    <3>1. \A p, r \in Nat : p * r * r * r = p * (r * r * r)
                            /\ r * r * r \in Nat /\ p * r * r * r \in Nat
      OBVIOUS
    <3>2. PAGE_SIZE \in Nat /\ RADIX \in Nat
      BY Radix
    <3>3. va \in 0 .. PAGE_SIZE * RADIX * RADIX * RADIX - 1
      BY DEF Addresses
    <3>4. S \in Nat /\ PAGE_SIZE * RADIX * RADIX * RADIX = PAGE_SIZE * S
          /\ PAGE_SIZE * S \in Nat
      BY ONLY <3>1, <3>2 DEF S
    <3> HIDE DEF S
    <3> QED
      BY <3>3, <3>4
  <2> HIDE DEF S, n
  <2>2. \A p, x, y \in Nat : ~(x < y) => p * x >= p * y
    OBVIOUS
  <2>3. PAGE_SIZE * n \in Nat /\ PAGE_SIZE \in Nat /\ PAGE_SIZE * S \in Nat
    BY <1>7, <2>1, Radix
  <2>4. PAGE_SIZE * n < PAGE_SIZE * S
    <3> DEFINE x == PAGE_SIZE * n
               y == PAGE_SIZE * S
    <3>1. PICK r \in Nat : va = x + r
      BY <1>7
    <3>2. va < y
      BY <2>1
    <3>4. x \in Nat /\ y \in Nat
      BY <2>3
    <3> HIDE DEF x, y
    <3>3. x < y
      BY <3>1, <3>2, <3>4
    <3> QED
      BY <3>3 DEF x, y
  <2>5. n < S
    BY <1>7, <2>1, <2>2, <2>3, <2>4
  <2> QED
    BY <2>5 DEF S
<1>3. n \in PageNumbers
  BY <1>2, <1>7, Radix DEF PageNumbers
<1>4. page_number_1(va) = n \div (RADIX * RADIX)
  <2>1. va \div (PAGE_SIZE * (RADIX * RADIX)) = (va \div PAGE_SIZE) \div (RADIX * RADIX)
    BY <1>1, Radix, DivDiv
  <2> QED
    BY <2>1, Radix DEF page_number_1, PageNumber
<1>5. page_number_2(va) = (n \div RADIX) % RADIX
  <2>1. va \div (PAGE_SIZE * RADIX) = (va \div PAGE_SIZE) \div RADIX
    BY <1>1, Radix, DivDiv
  <2> QED
    BY <2>1 DEF page_number_2, PageNumber
<1> QED
  BY <1>3, <1>4, <1>5 DEF Index, page_number_3, PageNumber

(* The first address of a page.                                            *)
LEMMA FirstAddress ==
  ASSUME NEW n \in PageNumbers
  PROVE  n * PAGE_SIZE \in Addresses /\ PageNumber(n * PAGE_SIZE) = n
<1> DEFINE S == RADIX * RADIX * RADIX
           T == PAGE_SIZE * RADIX * RADIX * RADIX
<1>1. /\ PAGE_SIZE \in Nat \ {0} /\ S \in Nat /\ T = S * PAGE_SIZE
      /\ n \in Nat /\ n <= S - 1
  <2>1. \A p, r \in Nat : p * r * r * r = (r * r * r) * p
                          /\ r * r * r \in Nat
    OBVIOUS
  <2>2. PAGE_SIZE \in Nat /\ RADIX \in Nat
    BY Radix
  <2> QED
    BY <2>1, <2>2, Radix DEF PageNumbers
<1> HIDE DEF S, T
<1>2. n * PAGE_SIZE \in 0 .. T - 1
  <2>1. \A p \in Nat \ {0}, x, y \in Nat : x <= y - 1 => x * p <= y * p - 1 /\ x * p \in Nat
    OBVIOUS
  <2> QED
    BY <1>1, <2>1
<1>3. (n * PAGE_SIZE) \div PAGE_SIZE = n
  <2>1. \A p \in Nat \ {0}, x \in Nat : (x * p) \div p = x
    <3> TAKE p \in Nat \ {0}, x \in Nat
    <3>1. x * p \in Nat /\ x * p = x * p + 0 /\ 0 < p
      OBVIOUS
    <3> DEFINE y == x * p
    <3> HIDE DEF y
    <3>2. y \div p = x
      BY <3>1, DivIs DEF y
    <3> QED
      BY <3>2 DEF y
  <2> QED
    BY <1>1, <2>1
<1> QED
  BY <1>2, <1>3 DEF Addresses, PageNumber, T

LEMMA IndexType ==
  ASSUME NEW n \in PageNumbers
  PROVE  Index(n) \in [1 .. 3 -> Indices]
<1>1. n \in Nat /\ n <= RADIX * RADIX * RADIX - 1
  BY Radix DEF PageNumbers
<1>2. n \div RADIX \in Nat /\ n % RADIX \in Indices /\ (n \div RADIX) % RADIX \in Indices
  BY <1>1, Radix, DivMod DEF Indices
<1>3. n \div (RADIX * RADIX) \in Indices
  <2> DEFINE b == RADIX * RADIX
             q == n \div b
  <2>1. b \in Nat \ {0} /\ b * RADIX = RADIX * RADIX * RADIX
    BY Radix
  <2> HIDE DEF b
  <2>2. q \in Nat /\ n % b \in Nat /\ n = b * q + (n % b)
    BY <1>1, <2>1, DivMod
  <2> HIDE DEF q
  <2>3. b * q <= b * RADIX - 1
    BY <1>1, <2>1, <2>2, Radix
  <2>4. q <= RADIX - 1
    <3>1. \A x, y, z \in Nat : ~(y <= z - 1) => x * y >= x * z
      OBVIOUS
    <3> QED
      BY <2>1, <2>2, <2>3, <3>1, Radix
  <2> QED
    BY <2>2, <2>4, Radix DEF Indices, q, b
<1> QED
  BY <1>2, <1>3 DEF Index

(* Different pages have different indices.                                 *)
LEMMA IndexInjective ==
  ASSUME NEW m \in PageNumbers, NEW n \in PageNumbers, Index(m) = Index(n)
  PROVE  m = n
<1>1. ASSUME NEW x \in PageNumbers
      PROVE  x = RADIX * (RADIX * Index(x)[1] + Index(x)[2]) + Index(x)[3]
  <2> DEFINE q == x \div RADIX
  <2>1. x \in Nat
    BY DEF PageNumbers
  <2>2. q \in Nat /\ x = RADIX * q + (x % RADIX)
    BY <2>1, Radix, DivMod
  <2>3. x \div (RADIX * RADIX) = q \div RADIX
    BY <2>1, Radix, DivDiv
  <2> HIDE DEF q
  <2>4. q = RADIX * (q \div RADIX) + (q % RADIX)
    BY <2>2, Radix, DivMod
  <2>5. Index(x)[1] = q \div RADIX /\ Index(x)[2] = q % RADIX /\ Index(x)[3] = x % RADIX
    BY <2>3 DEF Index, q
  <2> QED
    BY <2>2, <2>4, <2>5
<1> HIDE DEF Index
<1> QED
  BY <1>1

-----------------------------------------------------------------------------
(* Lists of blocks *)

LEMMA ConcatDifferent ==
  ASSUME NEW s, NEW t, Different(s), Different(t), ToSet(s) \cap ToSet(t) = {}
  PROVE  /\ Different(s \o t)
         /\ ToSet(s \o t) = ToSet(s) \cup ToSet(t)
<1> DEFINE m == Len(s)
           n == Len(t)
           u == s \o t
<1>1. /\ s \in Seq(AllBlocks) /\ t \in Seq(AllBlocks) /\ m \in Nat /\ n \in Nat
      /\ DOMAIN s = 1 .. m /\ DOMAIN t = 1 .. n
  BY DEF Different
<1>2. /\ u \in Seq(AllBlocks) /\ Len(u) = m + n /\ DOMAIN u = 1 .. m + n
      /\ \A i \in 1 .. m + n : u[i] = IF i <= m THEN s[i] ELSE t[i - m]
  BY <1>1, ConcatProperties
<1>3. /\ \A i \in 1 .. m : s[i] \in ToSet(s)
      /\ \A i \in 1 .. n : t[i] \in ToSet(t)
      /\ \A x \in ToSet(s) : \E i \in 1 .. m : x = s[i]
      /\ \A x \in ToSet(t) : \E i \in 1 .. n : x = t[i]
      /\ \A i \in 1 .. m + n : u[i] \in ToSet(u)
      /\ \A x \in ToSet(u) : \E i \in 1 .. m + n : x = u[i]
  BY <1>1, <1>2 DEF ToSet
<1>4. /\ \A i, j \in 1 .. m : s[i] = s[j] => i = j
      /\ \A i, j \in 1 .. n : t[i] = t[j] => i = j
  BY DEF Different
<1> HIDE DEF u, m, n
<1>5. /\ \A i \in 1 .. m : i \in 1 .. m + n /\ u[i] = s[i]
      /\ \A i \in 1 .. n : m + i \in 1 .. m + n /\ u[m + i] = t[i]
  <2>1. /\ \A i \in 1 .. m : i \in 1 .. m + n /\ i <= m
        /\ \A i \in 1 .. n : m + i \in 1 .. m + n /\ ~(m + i <= m) /\ (m + i) - m = i
    BY <1>1
  <2> QED
    BY <1>2, <2>1
<1>6. \A i \in 1 .. m + n :
        \/ i \in 1 .. m /\ u[i] = s[i]
        \/ i - m \in 1 .. n /\ u[i] = t[i - m] /\ i = m + (i - m)
  BY <1>1, <1>2
<1>7. ToSet(u) = ToSet(s) \cup ToSet(t)
  <2>1. ASSUME NEW x \in ToSet(u) PROVE x \in ToSet(s) \cup ToSet(t)
    BY <1>3, <1>6
  <2>2. ASSUME NEW x \in ToSet(s) PROVE x \in ToSet(u)
    BY <1>3, <1>5
  <2>3. ASSUME NEW x \in ToSet(t) PROVE x \in ToSet(u)
    BY <1>3, <1>5
  <2> QED
    BY <2>1, <2>2, <2>3
<1>8. ASSUME NEW i \in 1 .. m + n, NEW j \in 1 .. m + n, u[i] = u[j]
      PROVE  i = j
  <2>1. CASE i \in 1 .. m /\ u[i] = s[i]
    BY <1>3, <1>4, <1>6, <1>8, <2>1
  <2>2. CASE i - m \in 1 .. n /\ u[i] = t[i - m] /\ i = m + (i - m)
    <3>1. ~(j \in 1 .. m /\ u[j] = s[j])
      BY <1>3, <1>8, <2>2
    <3>2. j - m \in 1 .. n /\ u[j] = t[j - m] /\ j = m + (j - m)
      BY <1>6, <3>1
    <3>3. i - m = j - m
      BY <1>4, <1>8, <2>2, <3>2
    <3> QED
      BY <2>2, <3>2, <3>3
  <2> QED
    BY <1>6, <2>1, <2>2
<1> QED
  BY <1>2, <1>7, <1>8 DEF Different, u

LEMMA OneBlock ==
  ASSUME NEW b \in AllBlocks
  PROVE  Different(<<b>>) /\ ToSet(<<b>>) = {b}
  BY DEF Different, ToSet

LEMMA NoBlock == Different(<<>>) /\ ToSet(<<>>) = {}
  BY DEF Different, ToSet

LEMMA TableBlocks ==
  ASSUME NEW p \in Seq(Nat)
  PROVE  /\ Different(Table(p))
         /\ ToSet(Table(p)) = {Block("table", p), Block("ptes", p)}
  BY DEF Different, ToSet, Table, Block, AllBlocks, BlockKinds

LEMMA PrefixDifferent ==
  ASSUME NEW s, Different(s), NEW n \in 0 .. Len(s)
  PROVE  /\ Different(SubSeq(s, 1, n))
         /\ ToSet(SubSeq(s, 1, n)) \subseteq ToSet(s)
<1>1. /\ s \in Seq(AllBlocks) /\ Len(s) \in Nat /\ DOMAIN s = 1 .. Len(s)
      /\ \A i \in 1 .. Len(s) : s[i] \in AllBlocks
      /\ \A i, j \in 1 .. Len(s) : s[i] = s[j] => i = j
  BY DEF Different
<1>2. SubSeq(s, 1, n) = [i \in 1 .. n |-> s[i]] /\ n \in Nat
      /\ \A i \in 1 .. n : i \in 1 .. Len(s)
  BY <1>1
<1>3. Len(SubSeq(s, 1, n)) = n /\ SubSeq(s, 1, n) \in Seq(AllBlocks)
  BY <1>1, <1>2
<1> QED
  BY <1>1, <1>2, <1>3 DEF Different, ToSet

LEMMA FivePieces ==
  ASSUME NEW s1, NEW s2, NEW s3, NEW s4, NEW s5,
         Different(s1), Different(s2), Different(s3), Different(s4), Different(s5),
         ToSet(s1) \cap ToSet(s2) = {}, ToSet(s1) \cap ToSet(s3) = {},
         ToSet(s1) \cap ToSet(s4) = {}, ToSet(s1) \cap ToSet(s5) = {},
         ToSet(s2) \cap ToSet(s3) = {}, ToSet(s2) \cap ToSet(s4) = {},
         ToSet(s2) \cap ToSet(s5) = {}, ToSet(s3) \cap ToSet(s4) = {},
         ToSet(s3) \cap ToSet(s5) = {}, ToSet(s4) \cap ToSet(s5) = {}
  PROVE  /\ Different(s1 \o s2 \o s3 \o s4 \o s5)
         /\ ToSet(s1 \o s2 \o s3 \o s4 \o s5)
              = ToSet(s1) \cup ToSet(s2) \cup ToSet(s3) \cup ToSet(s4) \cup ToSet(s5)
<1> DEFINE t2 == s1 \o s2
           t3 == t2 \o s3
           t4 == t3 \o s4
           t5 == t4 \o s5
<1>1. ToSet(s1) \cap ToSet(s2) = {}
  OBVIOUS
<1>2. Different(t2) /\ ToSet(t2) = ToSet(s1) \cup ToSet(s2)
  BY <1>1, ConcatDifferent
<1> HIDE DEF t2
<1>3. ToSet(t2) \cap ToSet(s3) = {}
  BY <1>2
<1>4. Different(t3) /\ ToSet(t3) = ToSet(t2) \cup ToSet(s3)
  BY <1>2, <1>3, ConcatDifferent
<1> HIDE DEF t3
<1>5. ToSet(t3) \cap ToSet(s4) = {}
  BY <1>2, <1>4
<1>6. Different(t4) /\ ToSet(t4) = ToSet(t3) \cup ToSet(s4)
  BY <1>4, <1>5, ConcatDifferent
<1> HIDE DEF t4
<1>7. ToSet(t4) \cap ToSet(s5) = {}
  BY <1>2, <1>4, <1>6
<1>8. Different(t5) /\ ToSet(t5) = ToSet(t4) \cup ToSet(s5)
  BY <1>6, <1>7, ConcatDifferent
<1> QED
  BY <1>2, <1>4, <1>6, <1>8 DEF t2, t3, t4

-----------------------------------------------------------------------------
(* The tree *)

TableSet(p) == {Block("table", p), Block("ptes", p)}

(* The blocks on the way to the entry of page n.                           *)
PageChain(n) ==
  LET dir1 == <<Index(n)[1]>>
      dir2 == <<Index(n)[1], Index(n)[2]>>
  IN  {Block("pte", dir1)} \cup TableSet(dir1) \cup {Block("pte", dir2)}
        \cup TableSet(dir2) \cup {Block("pte", Index(n))}

(* The whole table when the pages of t have been accessed.                 *)
Tree(t) == TableSet(<<>>) \cup UNION {PageChain(n) : n \in t}

(* The blocks of the heap that belong to the page table.                   *)
TreeBuilt == {b \in heap : b.kind # "mm"} = Tree(touched)

LEMMA BlockIs ==
  /\ \A kind, p : Block(kind, p).kind = kind /\ Block(kind, p).path = p
  /\ \A kind, p, x, q : Block(kind, p) = Block(x, q) <=> kind = x /\ p = q
  /\ \A kind \in BlockKinds, p \in Seq(Nat) : Block(kind, p) \in AllBlocks
  BY DEF Block, AllBlocks

(* The directories of a page, and the sets of blocks they name.            *)
LEMMA Directories ==
  ASSUME NEW n \in PageNumbers, NEW dir1, NEW dir2,
         dir1 = <<Index(n)[1]>>, dir2 = <<Index(n)[1], Index(n)[2]>>
  PROVE  /\ dir1 \in Seq(Nat) /\ dir2 \in Seq(Nat) /\ Index(n) \in Seq(Nat)
         /\ Len(dir1) = 1 /\ Len(dir2) = 2 /\ Len(Index(n)) = 3
         /\ dir1 # dir2 /\ dir1 # Index(n) /\ dir2 # Index(n)
         /\ dir1 # <<>> /\ dir2 # <<>>
<1> DEFINE a == Index(n)[1]
           b == Index(n)[2]
           c == Index(n)[3]
<1>1. a \in Nat /\ b \in Nat /\ c \in Nat
  <2>1. Index(n) \in [1 .. 3 -> Indices]
    BY IndexType
  <2> QED
    BY <2>1 DEF Indices
<1>2. Index(n) = <<a, b, c>> /\ dir1 = <<a>> /\ dir2 = <<a, b>>
  BY DEF Index
<1> HIDE DEF a, b, c
<1> QED
  BY <1>1, <1>2

LEMMA ChainIs ==
  ASSUME NEW va \in Addresses, NEW n, n = PageNumber(va)
  PROVE  ToSet(Chain(va)) = PageChain(n) /\ Entry(va) = Block("pte", Index(n))
<1> DEFINE dir1 == <<Index(n)[1]>>
           dir2 == <<Index(n)[1], Index(n)[2]>>
<1>1. /\ n \in PageNumbers
      /\ Entry(va) = Block("pte", Index(n))
      /\ Chain(va) = <<Block("pte", dir1)>> \o Table(dir1) \o <<Block("pte", dir2)>>
                       \o Table(dir2) \o <<Entry(va)>>
  <2>1. Index(n) = <<page_number_1(va), page_number_2(va), page_number_3(va)>>
        /\ n \in PageNumbers
    BY AddressIndices
  <2>2. dir1 = <<page_number_1(va)>> /\ dir2 = <<page_number_1(va), page_number_2(va)>>
    BY <2>1
  <2> HIDE DEF dir1, dir2
  <2> QED
    BY <2>1, <2>2 DEF Chain, Entry
<1>2. /\ dir1 \in Seq(Nat) /\ dir2 \in Seq(Nat) /\ Index(n) \in Seq(Nat)
      /\ dir1 # dir2 /\ dir1 # Index(n) /\ dir2 # Index(n)
  BY <1>1, Directories
<1> HIDE DEF dir1, dir2
<1> DEFINE S1 == {Block("pte", dir1)}
           S2 == TableSet(dir1)
           S3 == {Block("pte", dir2)}
           S4 == TableSet(dir2)
           S5 == {Block("pte", Index(n))}
<1>3. /\ S1 \cap (S2 \cup S3 \cup S4 \cup S5) = {} /\ S2 \cap (S3 \cup S4 \cup S5) = {}
      /\ S3 \cap (S4 \cup S5) = {} /\ S4 \cap S5 = {}
  BY <1>2, BlockIs DEF TableSet
<1>4. /\ Block("pte", dir1) \in AllBlocks /\ Block("pte", dir2) \in AllBlocks
      /\ Entry(va) \in AllBlocks
  BY <1>1, <1>2, BlockIs DEF BlockKinds
<1>5. /\ Different(<<Block("pte", dir1)>>) /\ ToSet(<<Block("pte", dir1)>>) = S1
      /\ Different(Table(dir1)) /\ ToSet(Table(dir1)) = S2
      /\ Different(<<Block("pte", dir2)>>) /\ ToSet(<<Block("pte", dir2)>>) = S3
      /\ Different(Table(dir2)) /\ ToSet(Table(dir2)) = S4
      /\ Different(<<Entry(va)>>) /\ ToSet(<<Entry(va)>>) = S5
  BY <1>1, <1>2, <1>4, OneBlock, TableBlocks DEF TableSet
<1>6. PageChain(n) = S1 \cup S2 \cup S3 \cup S4 \cup S5
  BY DEF PageChain, dir1, dir2
<1> HIDE DEF S1, S2, S3, S4, S5
<1> DEFINE s1 == <<Block("pte", dir1)>>
           s2 == Table(dir1)
           s3 == <<Block("pte", dir2)>>
           s4 == Table(dir2)
           s5 == <<Entry(va)>>
<1>8. /\ Different(s1) /\ ToSet(s1) = S1 /\ Different(s2) /\ ToSet(s2) = S2
      /\ Different(s3) /\ ToSet(s3) = S3 /\ Different(s4) /\ ToSet(s4) = S4
      /\ Different(s5) /\ ToSet(s5) = S5
      /\ Chain(va) = s1 \o s2 \o s3 \o s4 \o s5
  BY <1>1, <1>5
<1> HIDE DEF s1, s2, s3, s4, s5
<1>9. /\ ToSet(s1) \cap ToSet(s2) = {} /\ ToSet(s1) \cap ToSet(s3) = {}
      /\ ToSet(s1) \cap ToSet(s4) = {} /\ ToSet(s1) \cap ToSet(s5) = {}
      /\ ToSet(s2) \cap ToSet(s3) = {} /\ ToSet(s2) \cap ToSet(s4) = {}
      /\ ToSet(s2) \cap ToSet(s5) = {} /\ ToSet(s3) \cap ToSet(s4) = {}
      /\ ToSet(s3) \cap ToSet(s5) = {} /\ ToSet(s4) \cap ToSet(s5) = {}
  BY <1>3, <1>8
<1>7. ToSet(Chain(va)) = S1 \cup S2 \cup S3 \cup S4 \cup S5
  BY <1>8, <1>9, FivePieces
<1> QED
  BY <1>1, <1>6, <1>7

(* What an allocation asks for are the blocks on its way that are missing, *)
(* each once.                                                              *)
LEMMA MissingIs ==
  ASSUME NEW va \in Addresses, NEW n, n = PageNumber(va),
         \A p : Block("table", p) \in heap <=> Block("ptes", p) \in heap
  PROVE  Different(Missing(va)) /\ ToSet(Missing(va)) = PageChain(n) \ heap
<1> DEFINE dir1 == <<Index(n)[1]>>
           dir2 == <<Index(n)[1], Index(n)[2]>>
<1>1. /\ n \in PageNumbers
      /\ Entry(va) = Block("pte", Index(n))
      /\ Missing(va) = Absent(<<Block("pte", dir1)>>) \o Absent(Table(dir1))
                         \o Absent(<<Block("pte", dir2)>>) \o Absent(Table(dir2))
                         \o Absent(<<Entry(va)>>)
  <2>1. Index(n) = <<page_number_1(va), page_number_2(va), page_number_3(va)>>
        /\ n \in PageNumbers
    BY AddressIndices
  <2>2. dir1 = <<page_number_1(va)>> /\ dir2 = <<page_number_1(va), page_number_2(va)>>
    BY <2>1
  <2> HIDE DEF dir1, dir2
  <2> QED
    BY <2>1, <2>2 DEF Missing, Entry
<1>2. /\ dir1 \in Seq(Nat) /\ dir2 \in Seq(Nat) /\ Index(n) \in Seq(Nat)
      /\ dir1 # dir2 /\ dir1 # Index(n) /\ dir2 # Index(n)
  BY <1>1, Directories
<1> HIDE DEF dir1, dir2
<1> DEFINE S1 == {Block("pte", dir1)}
           S2 == TableSet(dir1)
           S3 == {Block("pte", dir2)}
           S4 == TableSet(dir2)
           S5 == {Block("pte", Index(n))}
<1>3. /\ S1 \cap (S2 \cup S3 \cup S4 \cup S5) = {} /\ S2 \cap (S3 \cup S4 \cup S5) = {}
      /\ S3 \cap (S4 \cup S5) = {} /\ S4 \cap S5 = {}
  BY <1>2, BlockIs DEF TableSet
<1>4. ASSUME NEW b \in AllBlocks
      PROVE  Different(Absent(<<b>>)) /\ ToSet(Absent(<<b>>)) = {b} \ heap
  <2>1. <<b>>[1] = b
    OBVIOUS
  <2> QED
    BY <2>1, OneBlock, NoBlock DEF Absent
<1>5. ASSUME NEW p \in Seq(Nat)
      PROVE  Different(Absent(Table(p))) /\ ToSet(Absent(Table(p))) = TableSet(p) \ heap
  <2>1. Table(p)[1] = Block("table", p)
    BY DEF Table
  <2> QED
    BY <2>1, TableBlocks, NoBlock DEF Absent, TableSet
<1>6. /\ Block("pte", dir1) \in AllBlocks /\ Block("pte", dir2) \in AllBlocks
      /\ Entry(va) \in AllBlocks
  BY <1>1, <1>2, BlockIs DEF BlockKinds
<1> DEFINE s1 == Absent(<<Block("pte", dir1)>>)
           s2 == Absent(Table(dir1))
           s3 == Absent(<<Block("pte", dir2)>>)
           s4 == Absent(Table(dir2))
           s5 == Absent(<<Entry(va)>>)
<1>7. /\ Different(s1) /\ ToSet(s1) = S1 \ heap
      /\ Different(s2) /\ ToSet(s2) = S2 \ heap
      /\ Different(s3) /\ ToSet(s3) = S3 \ heap
      /\ Different(s4) /\ ToSet(s4) = S4 \ heap
      /\ Different(s5) /\ ToSet(s5) = S5 \ heap
  BY <1>1, <1>2, <1>4, <1>5, <1>6
<1>8. PageChain(n) = S1 \cup S2 \cup S3 \cup S4 \cup S5
  BY DEF PageChain, dir1, dir2
<1> HIDE DEF S1, S2, S3, S4, S5, s1, s2, s3, s4, s5
<1>9. /\ ToSet(s1) \cap ToSet(s2) = {} /\ ToSet(s1) \cap ToSet(s3) = {}
      /\ ToSet(s1) \cap ToSet(s4) = {} /\ ToSet(s1) \cap ToSet(s5) = {}
      /\ ToSet(s2) \cap ToSet(s3) = {} /\ ToSet(s2) \cap ToSet(s4) = {}
      /\ ToSet(s2) \cap ToSet(s5) = {} /\ ToSet(s3) \cap ToSet(s4) = {}
      /\ ToSet(s3) \cap ToSet(s5) = {} /\ ToSet(s4) \cap ToSet(s5) = {}
  BY <1>3, <1>7
<1>10. /\ Different(s1 \o s2 \o s3 \o s4 \o s5)
       /\ ToSet(s1 \o s2 \o s3 \o s4 \o s5)
            = ToSet(s1) \cup ToSet(s2) \cup ToSet(s3) \cup ToSet(s4) \cup ToSet(s5)
  BY <1>7, <1>9, FivePieces
<1>11. Missing(va) = s1 \o s2 \o s3 \o s4 \o s5
  BY <1>1 DEF s1, s2, s3, s4, s5
<1> QED
  BY <1>7, <1>8, <1>10, <1>11

LEMMA TreeIs ==
  ASSUME NEW t \in SUBSET PageNumbers
  PROVE  Tree(t) = ToSet(Table(<<>>)) \cup UNION {ToSet(Chain(n * PAGE_SIZE)) : n \in t}
<1>1. ASSUME NEW n \in t PROVE ToSet(Chain(n * PAGE_SIZE)) = PageChain(n)
  <2>1. n * PAGE_SIZE \in Addresses /\ PageNumber(n * PAGE_SIZE) = n
    BY FirstAddress
  <2> QED
    BY <2>1, ChainIs
<1>2. ToSet(Table(<<>>)) = TableSet(<<>>)
  <2>1. <<>> \in Seq(Nat)
    OBVIOUS
  <2> QED
    BY <2>1, TableBlocks DEF TableSet
<1> QED
  BY <1>1, <1>2 DEF Tree

(* What a tree of pages holds.                                             *)
LEMMA TreeFacts ==
  ASSUME NEW t \in SUBSET PageNumbers
  PROVE  /\ Tree(t) \subseteq AllBlocks
         /\ \A p : Block("table", p) \in Tree(t) <=> Block("ptes", p) \in Tree(t)
         /\ \A b \in Tree(t) : b.kind # "mm"
         /\ \A n : Tree(t \cup {n}) = Tree(t) \cup PageChain(n)
         /\ \A m \in PageNumbers : Block("pte", Index(m)) \in Tree(t) <=> m \in t
<1>1. ASSUME NEW p
      PROVE  /\ Block("table", p) \in TableSet(<<>>) <=> Block("ptes", p) \in TableSet(<<>>)
             /\ \A n : Block("table", p) \in PageChain(n) <=> Block("ptes", p) \in PageChain(n)
  <2>1. \A q : Block("table", p) \in TableSet(q) <=> Block("ptes", p) \in TableSet(q)
    BY BlockIs DEF TableSet
  <2>2. \A q : Block("table", p) # Block("pte", q) /\ Block("ptes", p) # Block("pte", q)
    BY BlockIs
  <2> QED
    BY <2>1, <2>2 DEF PageChain
<1>2. TableSet(<<>>) \subseteq AllBlocks /\ \A b \in TableSet(<<>>) : b.kind # "mm"
  <2> DEFINE p == <<>>
  <2>1. p \in Seq(Nat)
    OBVIOUS
  <2> HIDE DEF p
  <2>2. TableSet(p) \subseteq AllBlocks /\ \A b \in TableSet(p) : b.kind # "mm"
    BY <2>1, BlockIs DEF TableSet, BlockKinds
  <2> QED
    BY <2>2 DEF p
<1>3. ASSUME NEW n \in PageNumbers
      PROVE  PageChain(n) \subseteq AllBlocks /\ \A b \in PageChain(n) : b.kind # "mm"
  <2> DEFINE dir1 == <<Index(n)[1]>>
             dir2 == <<Index(n)[1], Index(n)[2]>>
             full == Index(n)
  <2>1. /\ dir1 \in Seq(Nat) /\ dir2 \in Seq(Nat) /\ full \in Seq(Nat)
    BY Directories
  <2>2. PageChain(n) = {Block("pte", dir1)} \cup TableSet(dir1) \cup {Block("pte", dir2)}
                         \cup TableSet(dir2) \cup {Block("pte", full)}
    BY DEF PageChain
  <2> HIDE DEF dir1, dir2, full
  <2> QED
    BY <2>1, <2>2, BlockIs DEF TableSet, BlockKinds
<1>4. ASSUME NEW m \in PageNumbers
      PROVE  Block("pte", Index(m)) \in Tree(t) <=> m \in t
  <2>1. ASSUME NEW n \in PageNumbers
        PROVE  Block("pte", Index(m)) \in PageChain(n) <=> Index(m) = Index(n)
    <3> DEFINE dir1 == <<Index(n)[1]>>
               dir2 == <<Index(n)[1], Index(n)[2]>>
    <3>1. Len(dir1) = 1 /\ Len(dir2) = 2 /\ Len(Index(m)) = 3
      BY Directories
    <3>2. PageChain(n) = {Block("pte", dir1)} \cup TableSet(dir1) \cup {Block("pte", dir2)}
                           \cup TableSet(dir2) \cup {Block("pte", Index(n))}
      BY DEF PageChain
    <3> HIDE DEF dir1, dir2
    <3>3. Index(m) # dir1 /\ Index(m) # dir2
      BY <3>1
    <3> QED
      BY <3>2, <3>3, BlockIs DEF TableSet
  <2>2. Block("pte", Index(m)) \notin TableSet(<<>>)
    BY BlockIs DEF TableSet
  <2>3. \A n \in PageNumbers : Index(m) = Index(n) <=> m = n
    BY IndexInjective
  <2> QED
    BY <2>1, <2>2, <2>3 DEF Tree
<1>5. \A n : Tree(t \cup {n}) = Tree(t) \cup PageChain(n)
  BY DEF Tree
<1> QED
  BY <1>1, <1>2, <1>3, <1>4, <1>5 DEF Tree

-----------------------------------------------------------------------------
(* Creation and allocation *)

(* An assertion of CSC369_malloc that fails is recorded.                   *)
LEMMA AbortFails ==
  ASSUME MallocInv(km), NEW blocks, NEW n, MallocAborts(blocks, n)
  PROVE  km'.ok = FALSE
<1> DEFINE h == CSC369_malloc(km, SubSeq(blocks, 1, n - 1))
<1>1. "ok" \in DOMAIN h
  BY DEF MallocInv, CSC369_malloc
<1> HIDE DEF h
<1>2. km' = Unrecorded(h, blocks[n])
  BY DEF MallocAborts, h
<1> QED
  BY <1>1, <1>2 DEF Unrecorded, Fault

LEMMA CreateKeeps ==
  ASSUME MallocInv(km), heap \cap TableSet(<<>>) = {}, CSC369_PageTableCreate
  PROVE  /\ touched' = touched
         /\ \/ phase' = "crashed" /\ km'.ok = FALSE
            \/ /\ MallocInv(km') /\ km'.ok = km.ok
               /\ \/ phase' = "ready" /\ heap' = heap \cup TableSet(<<>>)
                  \/ phase' = "failed" /\ heap' \subseteq heap \cup {Block("table", <<>>)}
<1> DEFINE root == Table(<<>>)
<1>1. Different(root) /\ ToSet(root) = TableSet(<<>>) /\ Len(root) = 2
      /\ root[1] = Block("table", <<>>)
  <2>1. <<>> \in Seq(Nat)
    OBVIOUS
  <2>2. Len(root) = 2 /\ root[1] = Block("table", <<>>)
    BY DEF Table
  <2> QED
    BY <2>1, <2>2, TableBlocks DEF TableSet
<1> HIDE DEF root
<1>2. ASSUME NEW s, Different(s), ToSet(s) \subseteq TableSet(<<>>), WithinMax(km, s),
             km' = CSC369_malloc(km, s)
      PROVE  MallocInv(km') /\ km'.ok = km.ok /\ heap' = heap \cup ToSet(s)
  <2>1. ToSet(s) \cap LiveBlocks(km) = {}
    BY <1>2 DEF heap
  <2> QED
    BY <1>2, <2>1, MallocKeeps DEF heap
<1>3. CASE WithinMax(km, root) /\ km' = CSC369_malloc(km, root) /\ phase' = "ready"
  BY <1>1, <1>2, <1>3 DEF CSC369_PageTableCreate
<1>4. ASSUME NEW m \in 1 .. 2, ReturnsNull(root, m)
      PROVE  /\ MallocInv(km') /\ km'.ok = km.ok
             /\ heap' \subseteq heap \cup {Block("table", <<>>)}
  <2> DEFINE n == m - 1
             s == SubSeq(root, 1, n)
  <2>4. n \in 0 .. 1
    OBVIOUS
  <2>5. WithinMax(km, SubSeq(root, 1, n)) /\ km' = CSC369_malloc(km, SubSeq(root, 1, n))
    BY <1>4 DEF ReturnsNull
  <2> HIDE DEF n
  <2>1. Different(s) /\ ToSet(s) \subseteq TableSet(<<>>)
    <3>1. n \in 0 .. Len(root)
      BY <1>1, <2>4
    <3>2. Different(SubSeq(root, 1, n)) /\ ToSet(SubSeq(root, 1, n)) \subseteq ToSet(root)
      BY <1>1, <3>1, PrefixDifferent
    <3> QED
      BY <1>1, <3>2
  <2>2. ToSet(s) \subseteq {Block("table", <<>>)}
    <3>1. s = [i \in 1 .. n |-> root[i]] /\ \A i \in 1 .. n : i = 1
      BY <1>1, <2>4 DEF Different
    <3> QED
      BY <1>1, <3>1 DEF ToSet
  <2> HIDE DEF s
  <2>3. WithinMax(km, s) /\ km' = CSC369_malloc(km, s)
    BY <2>5 DEF s
  <2> QED
    BY <1>2, <2>1, <2>2, <2>3
<1>5. /\ touched' = touched
      /\ \/ WithinMax(km, root) /\ km' = CSC369_malloc(km, root) /\ phase' = "ready"
         \/ \E m \in 1 .. 2 : ReturnsNull(root, m) /\ phase' = "failed"
         \/ \E m \in 1 .. 2 : MallocAborts(root, m) /\ phase' = "crashed"
  BY DEF CSC369_PageTableCreate, root
<1> QED
  BY <1>3, <1>4, <1>5, AbortFails

LEMMA AllocateKeeps ==
  ASSUME MallocInv(km), TreeBuilt, touched \in SUBSET PageNumbers,
         NEW va \in Addresses, CSC369_PageTableAllocate(va) \/ AllocateFails(va)
  PROVE  /\ \/ MallocInv(km') /\ km'.ok = km.ok
            \/ AllocateFails(va) /\ km'.ok = FALSE
         /\ CSC369_PageTableAllocate(va) =>
              /\ MallocInv(km') /\ km'.ok = km.ok
              /\ touched' \in SUBSET PageNumbers /\ TreeBuilt'
              /\ heap' = heap \cup PageChain(PageNumber(va))
<1> DEFINE n == PageNumber(va)
           s == Missing(va)
<1>1. n \in PageNumbers
  BY AddressIndices
<1>2. \A p : Block("table", p) \in heap <=> Block("ptes", p) \in heap
  BY TreeFacts, BlockIs DEF TreeBuilt
<1>3. Different(s) /\ ToSet(s) = PageChain(n) \ heap
  BY <1>2, MissingIs
<1> HIDE DEF n, s
<1>4. ASSUME CSC369_PageTableAllocate(va)
      PROVE  /\ MallocInv(km') /\ km'.ok = km.ok
             /\ touched' \in SUBSET PageNumbers /\ TreeBuilt'
             /\ heap' = heap \cup PageChain(n)
  <2>1. WithinMax(km, s) /\ km' = CSC369_malloc(km, s) /\ touched' = touched \cup {n}
    BY <1>4 DEF CSC369_PageTableAllocate, n, s
  <2>2. ToSet(s) \cap LiveBlocks(km) = {}
    BY <1>3 DEF heap
  <2>3. MallocInv(km') /\ km'.ok = km.ok /\ heap' = heap \cup PageChain(n)
    BY <1>3, <2>1, <2>2, MallocKeeps DEF heap
  <2>4. touched' \in SUBSET PageNumbers
    BY <1>1, <2>1
  <2>5. Tree(touched') = Tree(touched) \cup PageChain(n)
    BY <2>1, TreeFacts
  <2>6. \A b \in PageChain(n) : b.kind # "mm"
    BY <2>4, <2>5, TreeFacts
  <2>7. {b \in heap' : b.kind # "mm"} = Tree(touched')
    BY <2>3, <2>5, <2>6 DEF TreeBuilt
  <2> QED
    BY <2>3, <2>4, <2>7 DEF TreeBuilt
<1>5. ASSUME NEW m \in 1 .. Len(s), ReturnsNull(s, m)
      PROVE  MallocInv(km') /\ km'.ok = km.ok
  <2> DEFINE j == m - 1
             r == SubSeq(s, 1, j)
  <2>2. j \in 0 .. Len(s)
    BY <1>3 DEF Different
  <2> HIDE DEF j
  <2>3. Different(r) /\ ToSet(r) \subseteq ToSet(s)
    BY <1>3, <2>2, PrefixDifferent
  <2>4. ToSet(r) \cap LiveBlocks(km) = {}
    BY <1>3, <2>3 DEF heap
  <2>5. WithinMax(km, r) /\ km' = CSC369_malloc(km, r)
    BY <1>5 DEF ReturnsNull, j
  <2> HIDE DEF r
  <2> QED
    BY <2>3, <2>4, <2>5, MallocKeeps
<1>6. AllocateFails(va) => \E m \in 1 .. Len(s) : ReturnsNull(s, m) \/ MallocAborts(s, m)
  BY DEF AllocateFails, s
<1> QED
  BY <1>4, <1>5, <1>6, AbortFails DEF n

-----------------------------------------------------------------------------
(* Destruction *)

(* A list that frees the blocks of S, each once, and reads none of them    *)
(* after it was freed.                                                     *)
Ordered(s) == \A m, n \in 1 .. Len(s) : m < n => s[m] # Owner(s[n])

Frees(s, S) == Different(s) /\ ToSet(s) = S /\ Ordered(s)

LEMMA ConcatFrees ==
  ASSUME NEW s, NEW t, NEW S, NEW T, Frees(s, S), Frees(t, T), S \cap T = {},
         \A y \in T : Owner(y) \notin S
  PROVE  Frees(s \o t, S \cup T)
<1> DEFINE m == Len(s)
           n == Len(t)
           u == s \o t
<1>1. /\ s \in Seq(AllBlocks) /\ t \in Seq(AllBlocks) /\ m \in Nat /\ n \in Nat
      /\ DOMAIN s = 1 .. m /\ DOMAIN t = 1 .. n
  BY DEF Frees, Different
<1>2. /\ Len(u) = m + n
      /\ \A i \in 1 .. m + n : u[i] = IF i <= m THEN s[i] ELSE t[i - m]
  BY <1>1, ConcatProperties
<1>3. Different(u) /\ ToSet(u) = S \cup T
  BY ConcatDifferent DEF Frees
<1>4. /\ \A i \in 1 .. m : s[i] \in S
      /\ \A i \in 1 .. n : t[i] \in T
  BY <1>1 DEF Frees, ToSet
<1>5. /\ \A i, j \in 1 .. m : i < j => s[i] # Owner(s[j])
      /\ \A i, j \in 1 .. n : i < j => t[i] # Owner(t[j])
  BY DEF Frees, Ordered
<1> HIDE DEF m, n, u
<1>6. ASSUME NEW i \in 1 .. m + n, NEW j \in 1 .. m + n, i < j
      PROVE  u[i] # Owner(u[j])
  <2>1. CASE j <= m
    <3>1. i \in 1 .. m /\ j \in 1 .. m /\ i <= m
      BY <1>1, <1>6, <2>1
    <3> QED
      BY <1>2, <1>5, <1>6, <2>1, <3>1
  <2>2. CASE i <= m /\ ~(j <= m)
    <3>1. i \in 1 .. m /\ j - m \in 1 .. n
      BY <1>1, <1>6, <2>2
    <3> QED
      BY <1>2, <1>4, <2>2, <3>1
  <2>3. CASE ~(i <= m) /\ ~(j <= m)
    <3>1. i - m \in 1 .. n /\ j - m \in 1 .. n /\ i - m < j - m
      BY <1>1, <1>6, <2>3
    <3> QED
      BY <1>2, <1>5, <2>3, <3>1
  <2> QED
    BY <1>1, <1>6, <2>1, <2>2, <2>3
<1>7. Ordered(u)
  BY <1>2, <1>6 DEF Ordered, u
<1> QED
  BY <1>3, <1>7 DEF Frees, u

(* A nonempty set of natural numbers has a least element.                  *)
LEMMA LeastNat ==
  ASSUME NEW T \in SUBSET Nat, T # {}
  PROVE  \E x \in T : \A y \in T : x <= y
<1>1. \E x \in T : \A y \in T : <<y, x>> \notin OpToRel(<, Nat)
  BY NatLessThanWellFounded, WFMin, Zenon
<1>2. \A x, y \in Nat : <<y, x>> \notin OpToRel(<, Nat) => ~(y < x)
  BY Zenon DEF OpToRel
<1>3. \A x, y \in Nat : ~(y < x) => x <= y
  OBVIOUS
<1> QED
  BY <1>1, <1>2, <1>3

(* The recursive function by which FlattenSeq is defined exists.           *)
Flattens(g, seqs, n) ==
  g = [i \in 1 .. n |-> IF i = 1 THEN seqs[i] ELSE g[i - 1] \o seqs[i]]

LEMMA FlattenExists ==
  ASSUME NEW seqs, NEW n \in Nat
  PROVE  \E g : Flattens(g, seqs, n)
<1> DEFINE T == {j \in Nat : ~ \E g : Flattens(g, seqs, j)}
<1> SUFFICES ASSUME T # {} PROVE FALSE
  OBVIOUS
<1>1. PICK j \in T : \A y \in T : j <= y
  <2> HIDE DEF T
  <2>1. T \in SUBSET Nat
    BY DEF T
  <2> QED
    BY <2>1, LeastNat
<1>2. j # 0
  <2>1. Flattens(<< >>, seqs, 0)
    BY DEF Flattens
  <2> QED
    BY <1>1, <2>1
<1>3. PICK g : Flattens(g, seqs, j - 1)
  BY <1>1, <1>2
<1> DEFINE h == [i \in 1 .. j |-> IF i = 1 THEN seqs[i] ELSE g[i - 1] \o seqs[i]]
<1>4. \A k \in 1 .. j - 1 : h[k] = g[k]
  <2>1. \A k \in 1 .. j - 1 : k \in 1 .. j
    BY <1>1
  <2>2. \A k \in 1 .. j - 1 : g[k] = IF k = 1 THEN seqs[k] ELSE g[k - 1] \o seqs[k]
    BY <1>3 DEF Flattens
  <2>3. \A k \in 1 .. j : h[k] = IF k = 1 THEN seqs[k] ELSE g[k - 1] \o seqs[k]
    OBVIOUS
  <2> HIDE DEF h
  <2> QED
    BY <2>1, <2>2, <2>3
<1>5. Flattens(h, seqs, j)
  <2>1. \A k \in 1 .. j : k # 1 => k - 1 \in 1 .. j - 1
    BY <1>1
  <2>2. \A k \in 1 .. j : k # 1 => h[k] = h[k - 1] \o seqs[k]
    BY <1>4, <2>1
  <2> QED
    BY <2>2 DEF Flattens
<1> QED
  BY <1>1, <1>5

LEMMA FlattenIs ==
  ASSUME NEW seqs, NEW n \in Nat \ {0}, Len(seqs) = n
  PROVE  \E g : Flattens(g, seqs, n) /\ FlattenSeq(seqs) = g[n]
<1> DEFINE g == CHOOSE f : Flattens(f, seqs, n)
<1>1. Flattens(g, seqs, n)
  BY FlattenExists
<1>2. FlattenSeq(seqs) = g[n]
  BY DEF FlattenSeq, Flattens
<1> QED
  BY <1>1, <1>2

(* Lists that free disjoint sets, put one after the other.                 *)
LEMMA FlattenFrees ==
  ASSUME NEW n \in Nat \ {0}, NEW seqs, NEW S, Len(seqs) = n,
         \A i \in 1 .. n : Frees(seqs[i], S[i]),
         \A i, j \in 1 .. n : i < j =>
           S[i] \cap S[j] = {} /\ \A y \in S[j] : Owner(y) \notin S[i]
  PROVE  Frees(FlattenSeq(seqs), UNION {S[i] : i \in 1 .. n})
<1>1. PICK g : Flattens(g, seqs, n) /\ FlattenSeq(seqs) = g[n]
  BY FlattenIs
<1> DEFINE U(k) == UNION {S[i] : i \in 1 .. k}
           T == {k \in Nat : k \in 1 .. n /\ ~Frees(g[k], U(k))}
<1>2. ASSUME T # {} PROVE FALSE
  <2>1. PICK k \in T : \A y \in T : k <= y
    <3> HIDE DEF T
    <3>1. T \in SUBSET Nat
      BY DEF T
    <3> QED
      BY <1>2, <3>1, LeastNat
  <2>2. k \in 1 .. n /\ ~Frees(g[k], U(k))
    BY <2>1
  <2>3. k # 1
    <3>1. g[1] = seqs[1] /\ 1 \in 1 .. n
      BY <1>1 DEF Flattens
    <3>2. U(1) = S[1]
      OBVIOUS
    <3> HIDE DEF U
    <3> QED
      BY <2>2, <3>1, <3>2
  <2> DEFINE j == k - 1
  <2>4. j \in 1 .. n /\ j < k /\ j \notin T /\ k = j + 1 /\ j \in Nat
    <3>1. j \in 1 .. n /\ ~(k <= j) /\ k = j + 1 /\ j \in Nat /\ j < k
      BY <2>2, <2>3
    <3> HIDE DEF j, T
    <3> QED
      BY <2>1, <3>1
  <2>5. Frees(g[j], U(j))
    BY <2>4
  <2>6. g[k] = g[j] \o seqs[k]
    BY <1>1, <2>2, <2>3 DEF Flattens
  <2> HIDE DEF j
  <2>7. U(k) = U(j) \cup S[k]
    <3>1. \A i : i \in 1 .. k <=> (i \in 1 .. j \/ i = k)
      BY <2>4
    <3> QED
      BY <3>1
  <2>8. U(j) \cap S[k] = {} /\ \A y \in S[k] : Owner(y) \notin U(j)
    <3>1. \A i \in 1 .. j : i \in 1 .. n /\ i < k
      BY <2>2, <2>4
    <3> QED
      BY <2>2, <3>1
  <2> HIDE DEF U
  <2>9. Frees(g[k], U(k))
    BY <2>2, <2>5, <2>6, <2>7, <2>8, ConcatFrees
  <2> QED
    BY <2>2, <2>9
<1>3. Frees(g[n], U(n))
  <2>1. n \in 1 .. n /\ n \in Nat
    OBVIOUS
  <2> QED
    BY <1>2, <2>1
<1> QED
  BY <1>1, <1>3

-----------------------------------------------------------------------------
(* The shape of the tree *)

Extends(q, p) == Len(p) <= Len(q) /\ \A i \in 1 .. Len(p) : q[i] = p[i]

(* B is a tree: a block lies below entries that are there, and below the   *)
(* tables those point to.                                                  *)
Shape(B) ==
  /\ \A b \in B : /\ b \in AllBlocks /\ b = Block(b.kind, b.path)
                  /\ b.kind \in {"pte", "table", "ptes"}
                  /\ b.path \in Seq(Indices) /\ Len(b.path) <= 3
                  /\ b.kind # "pte" => Len(b.path) <= 2
                  /\ b.kind = "pte" => Len(b.path) >= 1
  /\ TableSet(<<>>) \subseteq B
  /\ \A p : Block("table", p) \in B <=> Block("ptes", p) \in B
  /\ \A b \in B, e \in Seq(Indices) :
       Extends(b.path, e) /\ Len(e) > 0 =>
         /\ Block("pte", e) \in B
         /\ b # Block("pte", e) => Block("table", e) \in B

LEMMA ShortSeq ==
  ASSUME NEW e \in Seq(Indices)
  PROVE  /\ Len(e) = 1 => e = <<e[1]>>
         /\ Len(e) = 2 => e = <<e[1], e[2]>>
         /\ Len(e) = 3 => e = <<e[1], e[2], e[3]>>
  OBVIOUS

LEMMA ChainShape ==
  ASSUME NEW n \in PageNumbers, NEW b \in PageChain(n),
         NEW e \in Seq(Indices), Extends(b.path, e), Len(e) > 0
  PROVE  /\ Block("pte", e) \in PageChain(n)
         /\ b # Block("pte", e) => Block("table", e) \in PageChain(n)
<1> DEFINE x == Index(n)[1]
           y == Index(n)[2]
           z == Index(n)[3]
           d1 == <<x>>
           d2 == <<x, y>>
           d3 == <<x, y, z>>
<1>1. x \in Indices /\ y \in Indices /\ z \in Indices
  BY IndexType
<1>2. Index(n) = d3
  BY DEF Index
<1>3. PageChain(n) = {Block("pte", d1)} \cup TableSet(d1) \cup {Block("pte", d2)}
                       \cup TableSet(d2) \cup {Block("pte", d3)}
  BY <1>2 DEF PageChain
<1> HIDE DEF x, y, z
<1>4. /\ Len(d1) = 1 /\ d1[1] = x
      /\ Len(d2) = 2 /\ d2[1] = x /\ d2[2] = y
      /\ Len(d3) = 3 /\ d3[1] = x /\ d3[2] = y /\ d3[3] = z
  OBVIOUS
<1>5. /\ Len(e) = 1 /\ e[1] = x => e = d1
      /\ Len(e) = 2 /\ e[1] = x /\ e[2] = y => e = d2
      /\ Len(e) = 3 /\ e[1] = x /\ e[2] = y /\ e[3] = z => e = d3
  BY ShortSeq
<1> HIDE DEF d1, d2, d3
<1>6. \/ b = Block("pte", d1)
      \/ b \in TableSet(d1)
      \/ b = Block("pte", d2)
      \/ b \in TableSet(d2)
      \/ b = Block("pte", d3)
  BY <1>3
<1>7. /\ b \in TableSet(d1) => b.path = d1
      /\ b \in TableSet(d2) => b.path = d2
      /\ b = Block("pte", d1) => b.path = d1
      /\ b = Block("pte", d2) => b.path = d2
      /\ b = Block("pte", d3) => b.path = d3
  BY BlockIs DEF TableSet
<1>8. /\ Extends(d1, e) => e = d1
      /\ Extends(d2, e) => e \in {d1, d2}
      /\ Extends(d3, e) => e \in {d1, d2, d3}
  <2> DEFINE l == Len(e)
  <2>1. l \in Nat /\ l > 0
    OBVIOUS
  <2>2. \A d : Extends(d, e) => l <= Len(d) /\ \A i \in 1 .. l : d[i] = e[i]
    BY DEF Extends
  <2>3. /\ l = 1 /\ e[1] = x => e = d1
        /\ l = 2 /\ e[1] = x /\ e[2] = y => e = d2
        /\ l = 3 /\ e[1] = x /\ e[2] = y /\ e[3] = z => e = d3
    BY <1>5
  <2> HIDE DEF l
  <2>4. /\ l <= 3 => l = 1 \/ l = 2 \/ l = 3
        /\ l <= 2 => l = 1 \/ l = 2
        /\ l <= 1 => l = 1
        /\ l = 1 => 1 \in 1 .. l
        /\ l = 2 => 1 \in 1 .. l /\ 2 \in 1 .. l
        /\ l = 3 => 1 \in 1 .. l /\ 2 \in 1 .. l /\ 3 \in 1 .. l
    BY <2>1
  <2> QED
    BY <1>4, <2>2, <2>3, <2>4
<1>9. /\ Block("table", d1) \in PageChain(n) /\ Block("table", d2) \in PageChain(n)
      /\ Block("pte", d1) \in PageChain(n) /\ Block("pte", d2) \in PageChain(n)
      /\ Block("pte", d3) \in PageChain(n)
  BY <1>3 DEF TableSet
<1>10. e \in {d1, d2, d3} /\ (e = d3 => b = Block("pte", d3))
  <2>1. d3 # d1 /\ d3 # d2
    BY <1>4
  <2> QED
    BY <1>6, <1>7, <1>8, <2>1
<1> QED
  BY <1>9, <1>10

LEMMA ChainTypes ==
  ASSUME NEW n \in PageNumbers, NEW b \in PageChain(n)
  PROVE  /\ b = Block(b.kind, b.path)
         /\ b.kind \in {"pte", "table", "ptes"}
         /\ b.path \in Seq(Indices) /\ Len(b.path) <= 3
         /\ b.kind # "pte" => Len(b.path) <= 2
         /\ b.kind = "pte" => Len(b.path) >= 1
<1> DEFINE x == Index(n)[1]
           y == Index(n)[2]
           z == Index(n)[3]
           d1 == <<x>>
           d2 == <<x, y>>
           d3 == <<x, y, z>>
<1>1. x \in Indices /\ y \in Indices /\ z \in Indices
  BY IndexType
<1>2. Index(n) = d3
  BY DEF Index
<1>3. PageChain(n) = {Block("pte", d1)} \cup TableSet(d1) \cup {Block("pte", d2)}
                       \cup TableSet(d2) \cup {Block("pte", d3)}
  BY <1>2 DEF PageChain
<1> HIDE DEF x, y, z
<1>4. /\ Len(d1) = 1 /\ d1 \in Seq(Indices)
      /\ Len(d2) = 2 /\ d2 \in Seq(Indices)
      /\ Len(d3) = 3 /\ d3 \in Seq(Indices)
  BY <1>1
<1>5. /\ Len(d1) <= 3 /\ Len(d1) <= 2 /\ Len(d1) >= 1
      /\ Len(d2) <= 3 /\ Len(d2) <= 2 /\ Len(d2) >= 1
      /\ Len(d3) <= 3 /\ Len(d3) >= 1
  BY <1>4
<1> HIDE DEF d1, d2, d3
<1>6. CASE b.kind = "pte"
  <2>1. PICK d \in {d1, d2, d3} : b = Block("pte", d)
    BY <1>3, <1>6, BlockIs DEF TableSet
  <2>2. b.path = d /\ b = Block(b.kind, b.path)
    BY <2>1, BlockIs
  <2>3. d \in Seq(Indices) /\ Len(d) <= 3 /\ Len(d) >= 1
    BY <1>4, <1>5
  <2> QED
    BY <1>6, <2>2, <2>3
<1>7. CASE b.kind # "pte"
  <2>1. PICK d \in {d1, d2} : b = Block("table", d) \/ b = Block("ptes", d)
    BY <1>3, <1>7, BlockIs DEF TableSet
  <2>2. b.path = d /\ b = Block(b.kind, b.path) /\ b.kind \in {"table", "ptes"}
    BY <2>1, BlockIs
  <2>3. d \in Seq(Indices) /\ Len(d) <= 3 /\ Len(d) <= 2
    BY <1>4, <1>5
  <2> QED
    BY <1>7, <2>2, <2>3
<1> QED
  BY <1>6, <1>7

LEMMA TreeShape ==
  ASSUME NEW t \in SUBSET PageNumbers
  PROVE  Shape(Tree(t))
<1> DEFINE r == <<>>
<1>1. r \in Seq(Indices) /\ Len(r) = 0 /\ Len(r) <= 2 /\ Len(r) <= 3
  OBVIOUS
<1>2. Tree(t) = TableSet(r) \cup UNION {PageChain(n) : n \in t}
  BY DEF Tree
<1> HIDE DEF r
<1>3. \A b \in TableSet(r) : /\ b = Block(b.kind, b.path)
                             /\ b.kind \in {"table", "ptes"} /\ b.path = r
  BY BlockIs DEF TableSet
<1>4. ASSUME NEW b \in Tree(t)
      PROVE  /\ b \in AllBlocks /\ b = Block(b.kind, b.path)
             /\ b.kind \in {"pte", "table", "ptes"}
             /\ b.path \in Seq(Indices) /\ Len(b.path) <= 3
             /\ b.kind # "pte" => Len(b.path) <= 2
             /\ b.kind = "pte" => Len(b.path) >= 1
  <2>1. b \in AllBlocks
    BY TreeFacts
  <2>2. CASE b \in TableSet(r)
    BY <1>1, <1>3, <2>1, <2>2
  <2>3. CASE \E n \in t : b \in PageChain(n)
    BY <2>1, <2>3, ChainTypes
  <2> QED
    BY <1>2, <2>2, <2>3
<1>5. ASSUME NEW b \in Tree(t), NEW e \in Seq(Indices), Extends(b.path, e), Len(e) > 0
      PROVE  /\ Block("pte", e) \in Tree(t)
             /\ b # Block("pte", e) => Block("table", e) \in Tree(t)
  <2>1. b \notin TableSet(r)
    <3>1. Len(e) \in Nat
      OBVIOUS
    <3> QED
      BY <1>1, <1>3, <1>5, <3>1 DEF Extends
  <2>2. PICK n \in t : b \in PageChain(n)
    BY <1>2, <2>1
  <2>3. /\ Block("pte", e) \in PageChain(n)
        /\ b # Block("pte", e) => Block("table", e) \in PageChain(n)
    BY <1>5, <2>2, ChainShape
  <2> QED
    BY <1>2, <2>2, <2>3
<1>6. TableSet(<<>>) \subseteq Tree(t)
  BY DEF Tree
<1>7. \A p : Block("table", p) \in Tree(t) <=> Block("ptes", p) \in Tree(t)
  BY TreeFacts
<1> QED
  BY <1>4, <1>5, <1>6, <1>7 DEF Shape

-----------------------------------------------------------------------------
(* The order of destruction *)

(* The body of DestroyOrder, its recursive calls answered by f.            *)
OneEntry(f, e) ==
  LET below == IF Block("table", e) \in heap THEN f[e] ELSE <<>>
  IN  IF Block("pte", e) \in heap THEN CSC369_PTEDestroy(e, below) ELSE <<>>

Body(f, p) ==
  FlattenSeq([i \in 1 .. RADIX |-> OneEntry(f, Append(p, i - 1))])
    \o <<Block("ptes", p), Block("table", p)>>

IsOrder(f) == f = [p \in Paths |-> Body(f, p)]

(* The entries of the third level have no tables.                          *)
Shallow == \A p : Block("table", p) \in heap => Len(p) # 3

LEMMA PathIs ==
  ASSUME NEW p \in Paths
  PROVE  /\ p \in Seq(Indices) /\ Len(p) \in Nat /\ Len(p) <= 2
         /\ Len(p) = 0 \/ Len(p) = 1 \/ Len(p) = 2
         /\ \A i \in 1 .. RADIX :
              LET e == Append(p, i - 1)
              IN  /\ e \in Seq(Indices) /\ Len(e) = Len(p) + 1 /\ e[Len(p) + 1] = i - 1
                  /\ \A j \in 1 .. Len(p) : e[j] = p[j]
                  /\ Len(p) < 2 => e \in Paths
<1>1. PICK n \in 0 .. 2 : p \in [1 .. n -> Indices]
  BY DEF Paths, Indices
<1>2. p \in Seq(Indices) /\ Len(p) = n
  BY <1>1
<1>3. ASSUME NEW i \in 1 .. RADIX
      PROVE  LET e == Append(p, i - 1)
             IN  /\ e \in Seq(Indices) /\ Len(e) = Len(p) + 1 /\ e[Len(p) + 1] = i - 1
                 /\ \A j \in 1 .. Len(p) : e[j] = p[j]
                 /\ Len(p) < 2 => e \in Paths
  <2> DEFINE k == i - 1
             e == Append(p, k)
  <2>1. k \in Indices
    BY Radix DEF Indices
  <2> HIDE DEF k
  <2>2. e \in Seq(Indices) /\ Len(e) = n + 1 /\ e[n + 1] = k
        /\ \A j \in 1 .. n : e[j] = p[j]
    BY <1>2, <2>1
  <2> HIDE DEF e
  <2>3. n < 2 => e \in Paths
    <3>1. e \in [1 .. n + 1 -> Indices]
      BY <2>2
    <3>2. n < 2 => n + 1 \in 0 .. 2
      OBVIOUS
    <3> QED
      BY <3>1, <3>2 DEF Paths, Indices
  <2> QED
    BY <1>2, <2>2, <2>3 DEF e, k
<1> QED
  BY <1>2, <1>3

(* The body reads f only at the tables one level down.                     *)
LEMMA BodySame ==
  ASSUME NEW f, NEW g, NEW p,
         \A i \in 1 .. RADIX : Block("table", Append(p, i - 1)) \in heap =>
           f[Append(p, i - 1)] = g[Append(p, i - 1)]
  PROVE  Body(f, p) = Body(g, p)
<1>1. \A i \in 1 .. RADIX : OneEntry(f, Append(p, i - 1)) = OneEntry(g, Append(p, i - 1))
  BY DEF OneEntry
<1>2. [i \in 1 .. RADIX |-> OneEntry(f, Append(p, i - 1))]
        = [i \in 1 .. RADIX |-> OneEntry(g, Append(p, i - 1))]
  BY <1>1
<1> QED
  BY <1>2 DEF Body

LEMMA OrderExists ==
  ASSUME Shallow
  PROVE  \E f : IsOrder(f)
<1> DEFINE f0 == [p \in Paths |-> <<>>]
           f1 == [p \in Paths |-> Body(f0, p)]
           f2 == [p \in Paths |-> Body(f1, p)]
           f3 == [p \in Paths |-> Body(f2, p)]
<1>1. /\ \A p \in Paths : f1[p] = Body(f0, p)
      /\ \A p \in Paths : f2[p] = Body(f1, p)
      /\ \A p \in Paths : f3[p] = Body(f2, p)
      /\ f3 = [p \in Paths |-> Body(f2, p)]
  OBVIOUS
<1> HIDE DEF f0, f1, f2, f3
<1>2. ASSUME NEW p \in Paths, Len(p) = 2, NEW f, NEW g PROVE Body(f, p) = Body(g, p)
  <2>1. \A i \in 1 .. RADIX : Block("table", Append(p, i - 1)) \notin heap
    <3>1. \A i \in 1 .. RADIX : Len(Append(p, i - 1)) = Len(p) + 1
      BY PathIs
    <3>2. Len(p) + 1 = 3
      BY <1>2
    <3> QED
      BY <3>1, <3>2 DEF Shallow
  <2> QED
    BY <2>1, BodySame
<1>3. ASSUME NEW p \in Paths, Len(p) < 2, NEW f, NEW g,
             \A q \in Paths : Len(q) = Len(p) + 1 => f[q] = g[q]
      PROVE  Body(f, p) = Body(g, p)
  <2>1. \A i \in 1 .. RADIX : f[Append(p, i - 1)] = g[Append(p, i - 1)]
    BY <1>3, PathIs
  <2> QED
    BY <2>1, BodySame
<1>4. \A p \in Paths : Len(p) = 2 => f1[p] = f2[p] /\ f2[p] = f3[p]
  BY <1>1, <1>2
<1>5. \A p \in Paths : Len(p) = 1 => f2[p] = f3[p]
  <2> TAKE p \in Paths
  <2> HAVE Len(p) = 1
  <2>1. Len(p) < 2 /\ \A q \in Paths : Len(q) = Len(p) + 1 => f1[q] = f2[q]
    BY <1>4
  <2>2. Body(f1, p) = Body(f2, p)
    BY <1>3, <2>1
  <2> QED
    BY <1>1, <2>2
<1>6. \A p \in Paths : Body(f2, p) = Body(f3, p)
  <2> TAKE p \in Paths
  <2>1. CASE Len(p) = 2
    BY <1>2, <2>1
  <2>2. CASE Len(p) = 1
    <3>1. Len(p) < 2 /\ \A q \in Paths : Len(q) = Len(p) + 1 => f2[q] = f3[q]
      BY <1>4, <2>2
    <3> QED
      BY <1>3, <3>1
  <2>3. CASE Len(p) = 0
    <3>1. Len(p) < 2 /\ \A q \in Paths : Len(q) = Len(p) + 1 => f2[q] = f3[q]
      BY <1>5, <2>3
    <3> QED
      BY <1>3, <3>1
  <2> QED
    BY <2>1, <2>2, <2>3, PathIs
<1>7. IsOrder(f3)
  BY <1>1, <1>6 DEF IsOrder
<1> QED
  BY <1>7

LEMMA OrderIs ==
  ASSUME Shallow
  PROVE  \A p \in Paths : DestroyOrder[p] = Body(DestroyOrder, p)
<1>1. DestroyOrder = CHOOSE f : IsOrder(f)
  BY DEF DestroyOrder, IsOrder, Body, OneEntry
<1>2. IsOrder(DestroyOrder)
  BY <1>1, OrderExists
<1> HIDE DEF Body
<1> QED
  BY <1>2 DEF IsOrder

(* The blocks of the page table, and those on and below an entry.          *)
TreeHeap == {b \in heap : b.kind # "mm"}
Under(e) == {b \in TreeHeap : Extends(b.path, e)}
Below(e) == Under(e) \ {Block("pte", e)}

LEMMA OwnerIs ==
  ASSUME NEW q
  PROVE  /\ Owner(Block("pte", q)) = Block("ptes", Front(q))
         /\ Owner(Block("ptes", q)) = Block("table", q)
         /\ Owner(Block("table", q)) = Block("pte", q)
         /\ Owner(Block("mm", q)) = Block("pte", q)
  BY BlockIs DEF Owner

LEMMA ExtendsIs ==
  ASSUME NEW p \in Seq(Indices), NEW q \in Seq(Indices)
  PROVE  /\ Extends(p, p)
         /\ Extends(q, p) => q = p \/ Len(q) > Len(p)
         /\ Len(q) >= 1 /\ Extends(Front(q), p) => Extends(q, p) /\ Len(q) > Len(p)
<1> DEFINE m == Len(p)
           n == Len(q)
<1>1. m \in Nat /\ n \in Nat
  OBVIOUS
<1>2. Extends(p, p)
  BY DEF Extends
<1>3. ASSUME Extends(q, p), ~(n > m) PROVE q = p
  <2>1. n = m /\ \A i \in 1 .. m : q[i] = p[i]
    BY <1>1, <1>3 DEF Extends
  <2> QED
    BY <2>1
<1>4. ASSUME n >= 1, Extends(Front(q), p) PROVE Extends(q, p) /\ n > m
  <2>1. Front(q) = SubSeq(q, 1, n - 1)
    BY DEF Front
  <2>2. Len(Front(q)) = n - 1 /\ \A i \in 1 .. n - 1 : Front(q)[i] = q[i]
    <3> DEFINE k == n - 1
    <3>1. k \in Nat /\ k <= n
      BY <1>1, <1>4
    <3> HIDE DEF k
    <3>2. SubSeq(q, 1, k) = [i \in 1 .. k |-> q[i]]
      BY <3>1
    <3>3. Len(SubSeq(q, 1, k)) = k /\ \A i \in 1 .. k : SubSeq(q, 1, k)[i] = q[i]
      BY <3>1, <3>2
    <3> QED
      BY <2>1, <3>3 DEF k
  <2>3. m <= n - 1 /\ \A i \in 1 .. m : Front(q)[i] = p[i]
    BY <1>4, <2>2 DEF Extends
  <2>4. \A i \in 1 .. m : i \in 1 .. n - 1
    BY <1>1, <2>3
  <2> QED
    BY <1>1, <2>2, <2>3, <2>4 DEF Extends
<1> QED
  BY <1>2, <1>3, <1>4

(* What lies on and below the i-th entry of the table at p.                *)
LEMMA EntryExtends ==
  ASSUME NEW p \in Paths, NEW q \in Seq(Indices), NEW i \in 1 .. RADIX
  PROVE  Extends(q, Append(p, i - 1))
           <=> Extends(q, p) /\ Len(q) > Len(p) /\ q[Len(p) + 1] = i - 1
<1> DEFINE e == Append(p, i - 1)
           m == Len(p)
           n == Len(q)
<1>1. /\ m \in Nat /\ n \in Nat /\ Len(e) = m + 1 /\ e[m + 1] = i - 1
      /\ \A j \in 1 .. m : e[j] = p[j]
  BY PathIs
<1> DEFINE k == i - 1
<1> HIDE DEF e, m, n, k
<1>2. /\ \A j \in 1 .. m + 1 : j \in 1 .. m \/ j = m + 1
      /\ \A j \in 1 .. m : j \in 1 .. m + 1
      /\ m + 1 \in 1 .. m + 1
      /\ m + 1 <= n <=> m <= n /\ n > m
  BY <1>1
<1>3. Extends(q, e) <=> m + 1 <= n /\ \A j \in 1 .. m + 1 : q[j] = e[j]
  BY <1>1 DEF Extends, n
<1>4. Extends(q, p) <=> m <= n /\ \A j \in 1 .. m : q[j] = p[j]
  BY DEF Extends, m, n
<1>5. Extends(q, e) <=> Extends(q, p) /\ n > m /\ q[m + 1] = k
  <2>1. e[m + 1] = k
    BY <1>1 DEF k
  <2> QED
    BY <1>1, <1>2, <1>3, <1>4, <2>1
<1> QED
  BY <1>5 DEF e, m, n, k

(* The blocks freed by one entry, and by a whole table, if those below are *)
(* freed as they should be.                                                *)
LEMMA EntryFrees ==
  ASSUME Shape(TreeHeap), NEW f, NEW p \in Paths, NEW i \in 1 .. RADIX,
         NEW e, e = Append(p, i - 1),
         Block("table", e) \in TreeHeap => Frees(f[e], Below(e))
  PROVE  Frees(OneEntry(f, e), Under(e))
<1>1. e \in Seq(Indices) /\ Len(e) = Len(p) + 1 /\ Len(e) > 0 /\ Len(e) >= 1
  <2>1. e \in Seq(Indices) /\ Len(e) = Len(p) + 1 /\ Len(p) \in Nat
    BY PathIs
  <2> QED
    BY <2>1
<1>2. /\ Block("table", e) \in heap <=> Block("table", e) \in TreeHeap
      /\ Block("pte", e) \in heap <=> Block("pte", e) \in TreeHeap
  BY BlockIs DEF TreeHeap
<1>3. \A b \in Under(e) : /\ Block("pte", e) \in TreeHeap
                          /\ b # Block("pte", e) => Block("table", e) \in TreeHeap
  BY <1>1 DEF Shape, Under
<1>4. Frees(<<>>, {})
  BY NoBlock DEF Frees, Ordered
<1>5. CASE Block("pte", e) \notin TreeHeap
  <2>1. Under(e) = {} /\ OneEntry(f, e) = <<>>
    BY <1>2, <1>3, <1>5 DEF OneEntry
  <2> QED
    BY <1>4, <2>1
<1>6. CASE Block("pte", e) \in TreeHeap
  <2> DEFINE below == IF Block("table", e) \in heap THEN f[e] ELSE <<>>
             last == <<Block("pte", e)>>
  <2>1. Frees(below, Below(e))
    <3>1. CASE Block("table", e) \in TreeHeap
      BY <1>2, <3>1
    <3>2. CASE Block("table", e) \notin TreeHeap
      <4>1. Below(e) = {}
        BY <1>3, <3>2 DEF Below
      <4> QED
        BY <1>2, <1>4, <3>2, <4>1
    <3> QED
      BY <3>1, <3>2
  <2>2. OneEntry(f, e) = below \o last
    BY <1>2, <1>6 DEF OneEntry, CSC369_PTEDestroy
  <2>3. Frees(last, {Block("pte", e)})
    <3>1. Block("pte", e) \in AllBlocks
      BY <1>6 DEF Shape
    <3>2. Different(last) /\ ToSet(last) = {Block("pte", e)}
      BY <3>1, OneBlock
    <3>3. Ordered(last)
      <4>1. Len(last) = 1 /\ \A m, n \in 1 .. 1 : ~(m < n)
        OBVIOUS
      <4> QED
        BY <4>1 DEF Ordered
    <3> QED
      BY <3>2, <3>3 DEF Frees
  <2>4. Owner(Block("pte", e)) \notin Below(e)
    <3>1. ~Extends(Front(e), e)
      <4>1. ~(Len(e) > Len(e))
        BY <1>1
      <4> QED
        BY <1>1, <4>1, ExtendsIs
    <3> QED
      BY <3>1, OwnerIs, BlockIs DEF Below, Under
  <2>5. Below(e) \cap {Block("pte", e)} = {} /\ Under(e) = Below(e) \cup {Block("pte", e)}
    <3>1. Block("pte", e) \in Under(e)
      <4>1. Extends(e, e)
        BY <1>1, ExtendsIs
      <4>2. Block("pte", e).path = e
        BY BlockIs
      <4> QED
        BY <1>6, <4>1, <4>2 DEF Under
    <3> QED
      BY <3>1 DEF Below
  <2> HIDE DEF below, last
  <2>6. Frees(below \o last, Below(e) \cup {Block("pte", e)})
    BY <2>1, <2>3, <2>4, <2>5, ConcatFrees
  <2> QED
    BY <2>2, <2>5, <2>6
<1> QED
  BY <1>5, <1>6

LEMMA TableFrees ==
  ASSUME Shape(TreeHeap), NEW f, NEW p \in Paths, Block("table", p) \in TreeHeap,
         \A i \in 1 .. RADIX : Block("table", Append(p, i - 1)) \in TreeHeap =>
           Frees(f[Append(p, i - 1)], Below(Append(p, i - 1)))
  PROVE  Frees(Body(f, p), Below(p))
<1> DEFINE E(i) == Append(p, i - 1)
           seqs == [i \in 1 .. RADIX |-> OneEntry(f, E(i))]
           S == [i \in 1 .. RADIX |-> Under(E(i))]
           All == UNION {S[i] : i \in 1 .. RADIX}
           own == <<Block("ptes", p), Block("table", p)>>
           m == Len(p)
<1>1. p \in Seq(Indices) /\ m \in Nat
  BY PathIs
<1>2. ASSUME NEW i \in 1 .. RADIX PROVE Frees(seqs[i], S[i])
  <2> DEFINE e == E(i)
  <2>1. e = Append(p, i - 1) /\ (Block("table", e) \in TreeHeap => Frees(f[e], Below(e)))
    OBVIOUS
  <2>2. seqs[i] = OneEntry(f, e) /\ S[i] = Under(e)
    OBVIOUS
  <2> HIDE DEF e
  <2> QED
    BY <2>1, <2>2, EntryFrees
<1>3. ASSUME NEW b \in TreeHeap, NEW i \in 1 .. RADIX
      PROVE  b \in S[i] <=> Extends(b.path, p) /\ Len(b.path) > m /\ b.path[m + 1] = i - 1
  <2>1. b.path \in Seq(Indices)
    BY DEF Shape
  <2>2. b \in S[i] <=> Extends(b.path, E(i))
    BY DEF Under
  <2> QED
    BY <2>1, <2>2, EntryExtends
<1>4. \A i \in 1 .. RADIX : S[i] \subseteq TreeHeap
  BY DEF Under
<1> HIDE DEF E, seqs, S
<1>5. ASSUME NEW i \in 1 .. RADIX, NEW b \in S[i], Owner(b) \in TreeHeap,
             NEW j \in 1 .. RADIX, Owner(b) \in S[j]
      PROVE  b \in S[j]
  <2> DEFINE q == b.path
  <2>1. /\ b \in TreeHeap /\ b = Block(b.kind, q) /\ b.kind \in {"pte", "table", "ptes"}
        /\ q \in Seq(Indices) /\ Len(q) > m
    BY <1>3, <1>4 DEF Shape
  <2> HIDE DEF q
  <2>2. CASE b.kind = "pte"
    <3> DEFINE r == Front(q)
    <3>1. Owner(b).path = r
      BY <2>1, <2>2, OwnerIs, BlockIs
    <3>2. Extends(r, E(j))
      BY <1>5, <3>1 DEF S, Under
    <3> HIDE DEF r
    <3>3. E(j) \in Seq(Indices) /\ Len(q) >= 1
      BY <1>1, <2>1, PathIs DEF E
    <3>4. Extends(q, E(j))
      <4> DEFINE e == E(j)
      <4> HIDE DEF e
      <4>1. e \in Seq(Indices) /\ Extends(Front(q), e)
        BY <3>2, <3>3 DEF e, r
      <4>2. Extends(q, e)
        BY <2>1, <3>3, <4>1, ExtendsIs
      <4> QED
        BY <4>2 DEF e
    <3> QED
      BY <2>1, <3>4 DEF S, Under, q
  <2>3. CASE b.kind # "pte"
    <3>1. Owner(b).path = q
      BY <2>1, <2>3, OwnerIs, BlockIs
    <3>2. Extends(q, E(j))
      BY <1>5, <3>1 DEF S, Under
    <3> QED
      BY <2>1, <3>2 DEF S, Under, q
  <2> QED
    BY <2>2, <2>3
<1>6. ASSUME NEW i \in 1 .. RADIX, NEW j \in 1 .. RADIX, i < j
      PROVE  S[i] \cap S[j] = {} /\ \A y \in S[j] : Owner(y) \notin S[i]
  <2>1. ASSUME NEW b, b \in S[i], b \in S[j] PROVE FALSE
    <3>1. b.path[m + 1] = i - 1 /\ b.path[m + 1] = j - 1
      BY <1>3, <1>4, <2>1
    <3>2. i - 1 # j - 1
      BY <1>6
    <3> QED
      BY <3>1, <3>2
  <2>2. ASSUME NEW y \in S[j], Owner(y) \in S[i] PROVE FALSE
    <3>1. y \in S[i]
      BY <1>4, <1>5, <2>2
    <3> QED
      BY <2>1, <3>1
  <2> QED
    BY <2>1, <2>2
<1>7. Frees(FlattenSeq(seqs), All)
  <2>1. Len(seqs) = RADIX /\ RADIX \in Nat \ {0}
    BY Radix DEF seqs
  <2> QED
    BY <1>2, <1>6, <2>1, FlattenFrees
<1>8. Frees(own, TableSet(p))
  <2>1. Block("ptes", p) \in AllBlocks /\ Block("table", p) \in AllBlocks
    BY DEF Shape
  <2>2. Len(own) = 2 /\ own[1] = Block("ptes", p) /\ own[2] = Block("table", p)
    OBVIOUS
  <2>3. Different(own) /\ ToSet(own) = TableSet(p)
    BY <2>1, BlockIs DEF Different, ToSet, TableSet
  <2>4. Ordered(own)
    <3>1. \A i, j \in 1 .. 2 : i < j => i = 1 /\ j = 2
      OBVIOUS
    <3>2. Block("ptes", p) # Owner(Block("table", p))
      BY OwnerIs, BlockIs
    <3> HIDE DEF own
    <3> QED
      BY <2>2, <3>1, <3>2 DEF Ordered
  <2> QED
    BY <2>3, <2>4 DEF Frees
<1>9. ASSUME NEW b, b \in All PROVE b \in TreeHeap /\ Extends(b.path, p) /\ Len(b.path) > m
  BY <1>3, <1>4, <1>9
<1>10. ASSUME NEW b \in AllBlocks, b.path = p PROVE b \notin All
  <2>1. ~(m > m)
    BY <1>1
  <2> QED
    BY <1>9, <1>10, <2>1
<1>11. All \cap TableSet(p) = {} /\ \A y \in TableSet(p) : Owner(y) \notin All
  <2>1. \A kind : Block(kind, p) \notin All
    <3>1. ~(m > m)
      BY <1>1
    <3> QED
      BY <1>9, <3>1, BlockIs
  <2> QED
    BY <2>1, OwnerIs DEF TableSet
<1>12. Below(p) = All \cup TableSet(p)
  <2>1. ASSUME NEW b \in Below(p) PROVE b \in All \cup TableSet(p)
    <3> DEFINE q == b.path
    <3>1. /\ b \in TreeHeap /\ Extends(q, p) /\ b # Block("pte", p)
          /\ b = Block(b.kind, q) /\ b.kind \in {"pte", "table", "ptes"}
          /\ q \in Seq(Indices)
      BY DEF Below, Under, Shape
    <3>2. CASE q = p
      BY <3>1, <3>2 DEF TableSet
    <3>3. CASE Len(q) > m
      <4> DEFINE i == q[m + 1] + 1
      <4>1. q[m + 1] \in Indices
        <5>1. m + 1 \in 1 .. Len(q)
          BY <1>1, <3>1, <3>3
        <5> QED
          BY <3>1, <5>1
      <4>2. i \in 1 .. RADIX /\ q[m + 1] = i - 1
        BY <4>1, Radix DEF Indices
      <4> HIDE DEF i
      <4>3. b \in S[i]
        BY <1>3, <3>1, <3>3, <4>2
      <4> QED
        BY <4>2, <4>3
    <3> HIDE DEF q
    <3>4. q = p \/ Len(q) > m
      BY <1>1, <3>1, ExtendsIs
    <3> QED
      BY <3>2, <3>3, <3>4
  <2>2. ASSUME NEW b \in All PROVE b \in Below(p)
    <3>1. ~(m > m)
      BY <1>1
    <3>2. b # Block("pte", p)
      BY <1>9, <3>1, BlockIs
    <3> QED
      BY <1>9, <3>2 DEF Below, Under
  <2>3. TableSet(p) \subseteq Below(p)
    <3>1. Extends(p, p)
      BY <1>1, ExtendsIs
    <3>2. Block("ptes", p) \in TreeHeap
      BY DEF Shape
    <3> QED
      BY <3>1, <3>2, BlockIs DEF Below, Under, TableSet
  <2> QED
    BY <2>1, <2>2, <2>3
<1> HIDE DEF All, own
<1>13. Frees(FlattenSeq(seqs) \o own, All \cup TableSet(p))
  BY <1>7, <1>8, <1>11, ConcatFrees
<1>14. Body(f, p) = FlattenSeq(seqs) \o own
  BY DEF Body, seqs, own, E
<1> QED
  BY <1>12, <1>13, <1>14

(* Destruction frees the whole table, each block once and none of them     *)
(* before it is read for the last time.                                    *)
LEMMA DestroyIs ==
  ASSUME Shape(TreeHeap)
  PROVE  Frees(DestroyOrder[<<>>], TreeHeap)
<1> DEFINE f == DestroyOrder
           root == <<>>
           Right(p) == Block("table", p) \in TreeHeap => Frees(f[p], Below(p))
<1>1. \A p : Block("table", p) \in heap <=> Block("table", p) \in TreeHeap
  BY BlockIs DEF TreeHeap
<1>2. ASSUME NEW p, Block("table", p) \in TreeHeap PROVE Len(p) # 3
  <2>1. Len(p) \in Nat /\ Len(p) <= 2
    BY <1>2, BlockIs DEF Shape
  <2> QED
    BY <2>1
<1>3. \A p \in Paths : f[p] = Body(f, p)
  <2>1. Shallow
    BY <1>1, <1>2 DEF Shallow
  <2> QED
    BY <2>1, OrderIs
<1> HIDE DEF f
<1>4. ASSUME NEW p \in Paths, \A i \in 1 .. RADIX : Right(Append(p, i - 1))
      PROVE  Right(p)
  BY <1>3, <1>4, TableFrees
<1> HIDE DEF Right
<1>5. \A p \in Paths : Len(p) = 2 => Right(p)
  <2> TAKE p \in Paths
  <2> HAVE Len(p) = 2
  <2>1. ASSUME NEW i \in 1 .. RADIX PROVE Right(Append(p, i - 1))
    <3>1. Len(Append(p, i - 1)) = Len(p) + 1
      BY PathIs
    <3>2. Len(p) + 1 = 3
      OBVIOUS
    <3> QED
      BY <1>2, <3>1, <3>2 DEF Right
  <2> QED
    BY <1>4, <2>1
<1>6. ASSUME NEW p \in Paths, Len(p) < 2,
             \A q \in Paths : Len(q) = Len(p) + 1 => Right(q)
      PROVE  Right(p)
  <2>1. \A i \in 1 .. RADIX : Right(Append(p, i - 1))
    BY <1>6, PathIs
  <2> QED
    BY <1>4, <2>1
<1>7. \A p \in Paths : Len(p) = 1 => Right(p)
  <2> TAKE p \in Paths
  <2> HAVE Len(p) = 1
  <2>1. Len(p) < 2 /\ \A q \in Paths : Len(q) = Len(p) + 1 => Right(q)
    BY <1>5
  <2> QED
    BY <1>6, <2>1
<1>8. root \in Paths /\ Len(root) = 0
  <2>1. root \in Seq(Indices) /\ Len(root) = 0
    OBVIOUS
  <2> HIDE DEF root
  <2>2. root \in [1 .. 0 -> Indices] /\ 0 \in 0 .. 2
    BY <2>1
  <2> QED
    BY <2>1, <2>2 DEF Paths, Indices
<1>9. Right(root)
  <2> HIDE DEF root
  <2>1. Len(root) < 2 /\ \A q \in Paths : Len(q) = Len(root) + 1 => Right(q)
    BY <1>7, <1>8
  <2> QED
    BY <1>6, <1>8, <2>1
<1>10. Block("table", root) \in TreeHeap
  BY DEF Shape, TableSet
<1>11. Below(root) = TreeHeap
  <2> HIDE DEF root
  <2>1. ASSUME NEW b \in TreeHeap PROVE Extends(b.path, root) /\ b # Block("pte", root)
    <3>1. b.path \in Seq(Indices) /\ (b.kind = "pte" => Len(b.path) >= 1)
      BY DEF Shape
    <3>2. 0 <= Len(b.path) /\ ~(0 >= 1) /\ \A i : i \notin 1 .. 0
      BY <3>1
    <3>3. Extends(b.path, root)
      BY <1>8, <3>2 DEF Extends
    <3> QED
      BY <1>8, <3>1, <3>2, <3>3, BlockIs
  <2> QED
    BY <2>1 DEF Below, Under
<1> QED
  BY <1>9, <1>10, <1>11 DEF Right, f

(* CSC369_free of the blocks of such a list, one after the other.          *)
LEMMA DestroyKeeps ==
  ASSUME MallocInv(km), NEW order, NEW S, Frees(order, S), S \subseteq heap,
         DestroyBlocks(order)
  PROVE  MallocInv(km') /\ heap' = heap \ S /\ km'.ok = km.ok
<1>1. Different(order) /\ ToSet(order) \subseteq LiveBlocks(km) /\ ToSet(order) = S
  BY DEF Frees, heap
<1>2. ~ReadsFreed(order)
  BY DEF ReadsFreed, Frees, Ordered, Different
<1>3. km' = CSC369_free(km, order)
  BY <1>2 DEF DestroyBlocks
<1> QED
  BY <1>1, <1>3, FreeKeeps DEF heap

-----------------------------------------------------------------------------
(* The invariant: kmalloc is sound unless one of its assertions failed,    *)
(* and the heap is the tree of the pages that were accessed.               *)
PTInv ==
  /\ km.ok \in BOOLEAN
  /\ km.ok => MallocInv(km)
  /\ phase # "crashed" => km.ok
  /\ touched \in SUBSET PageNumbers
  /\ phase = "new" => heap = {} /\ touched = {}
  /\ phase = "ready" => heap = Tree(touched)
  /\ phase = "destroyed" => heap = {}

LEMMA PTInitInv == PTInit => PTInv
  BY MallocInitInv DEF PTInit, PTInv, heap, CSC369_MallocInit

LEMMA PTNextInv == PTInv /\ [PTNext]_ptVars => PTInv'
<1> SUFFICES ASSUME PTInv, [PTNext]_ptVars PROVE PTInv'
  OBVIOUS
<1>1. CASE CSC369_PageTableCreate
  <2>1. phase = "new" /\ heap = {} /\ touched = {}
    BY <1>1 DEF CSC369_PageTableCreate, PTInv
  <2>2. /\ touched' = touched
        /\ \/ phase' = "crashed" /\ km'.ok = FALSE
           \/ /\ MallocInv(km') /\ km'.ok = km.ok
              /\ \/ phase' = "ready" /\ heap' = heap \cup TableSet(<<>>)
                 \/ phase' = "failed"
    BY <1>1, <2>1, CreateKeeps DEF PTInv
  <2>3. Tree({}) = TableSet(<<>>)
    BY DEF Tree
  <2> QED
    BY <2>1, <2>2, <2>3 DEF PTInv
<1>2. ASSUME NEW va \in Addresses, CSC369_PageTableAllocate(va) \/ AllocateFails(va)
      PROVE  PTInv'
  <2>1. phase = "ready" /\ heap = Tree(touched)
    BY <1>2 DEF CSC369_PageTableAllocate, AllocateFails, PTInv
  <2>2. TreeBuilt
    BY <2>1, TreeFacts DEF TreeBuilt, PTInv
  <2>3. /\ \/ MallocInv(km') /\ km'.ok = km.ok
           \/ km'.ok = FALSE
        /\ CSC369_PageTableAllocate(va) =>
             /\ MallocInv(km') /\ km'.ok = km.ok
             /\ touched' \in SUBSET PageNumbers
             /\ heap' = heap \cup PageChain(PageNumber(va))
    BY <1>2, <2>1, <2>2, AllocateKeeps DEF PTInv
  <2>4. CASE CSC369_PageTableAllocate(va)
    <3>1. touched' = touched \cup {PageNumber(va)} /\ phase' = "ready"
      BY <2>1, <2>4 DEF CSC369_PageTableAllocate
    <3>2. heap' = Tree(touched')
      BY <2>1, <2>3, <2>4, <3>1, TreeFacts DEF PTInv
    <3> QED
      BY <2>1, <2>3, <2>4, <3>1, <3>2 DEF PTInv
  <2>5. CASE AllocateFails(va)
    <3>1. touched' = touched /\ phase' = "crashed"
      BY <2>5 DEF AllocateFails
    <3> QED
      BY <2>1, <2>3, <3>1 DEF PTInv
  <2> QED
    BY <1>2, <2>4, <2>5
<1>3. CASE CSC369_PageTableDestroy
  <2>1. /\ phase = "ready" /\ heap = Tree(touched)
        /\ phase' = "destroyed" /\ touched' = touched
        /\ DestroyBlocks(DestroyOrder[<<>>])
    BY <1>3 DEF CSC369_PageTableDestroy, PTInv
  <2>2. TreeHeap = heap /\ Shape(TreeHeap)
    <3>1. touched \in SUBSET PageNumbers
      BY DEF PTInv
    <3>2. TreeHeap = heap
      BY <2>1, <3>1, TreeFacts DEF TreeHeap
    <3> QED
      BY <2>1, <3>1, <3>2, TreeShape
  <2>3. Frees(DestroyOrder[<<>>], heap)
    BY <2>2, DestroyIs
  <2>4. MallocInv(km') /\ heap' = {} /\ km'.ok = km.ok
    BY <2>1, <2>3, DestroyKeeps DEF PTInv
  <2> QED
    BY <2>1, <2>4 DEF PTInv
<1>4. CASE UNCHANGED ptVars
  BY <1>4 DEF ptVars, PTInv, heap
<1> QED
  BY <1>1, <1>2, <1>3, <1>4 DEF PTNext, PTTerminated

(* The heap is always the tree of the pages accessed so far.               *)
THEOREM PTInvariant == PTSpec => []PTInv
  BY PTInitInv, PTNextInv, PTL DEF PTSpec

-----------------------------------------------------------------------------
(* No two virtual pages share a page table entry, and all the addresses of *)
(* a page lead to the same one: the shifts and masks of                    *)
(* CSC369_PageTableAllocate lose nothing of the page number.               *)
THEOREM EntryPerPageCorrect == PTSpec => []EntryPerPage
<1>1. PTInv => EntryPerPage
  <2> SUFFICES ASSUME PTInv, phase = "ready", NEW va \in Addresses
               PROVE  Entry(va) \in heap <=> PageNumber(va) \in touched
    BY DEF EntryPerPage
  <2> DEFINE n == PageNumber(va)
  <2>1. n \in PageNumbers /\ Entry(va) = Block("pte", Index(n))
    BY AddressIndices, ChainIs
  <2> HIDE DEF n
  <2>2. Entry(va) \in heap <=> n \in touched
    BY <2>1, TreeFacts DEF PTInv
  <2> QED
    BY <2>2 DEF n
<1> QED
  BY <1>1, PTInvariant, PTL

(* CSC369_PageTableAllocate makes a lower level only on the way to a page  *)
(* that is accessed, and CSC369_PageTableCreate only the root.             *)
THEOREM LazyLevelsCorrect == PTSpec => []LazyLevels
<1>1. PTInv => LazyLevels
  BY TreeIs DEF LazyLevels, PTInv
<1> QED
  BY <1>1, PTInvariant, PTL

(* CSC369_PageTableDestroy frees every level of the tree, each block once  *)
(* and after it was last read, so no assertion of CSC369_free fails and    *)
(* CSC369_MallocIsLeakFree finds nothing.                                  *)
THEOREM DestroyFreesAllCorrect == PTSpec => []DestroyFreesAll
<1>1. PTInv => DestroyFreesAll
  BY NoBytes, FS_EmptySet
     DEF DestroyFreesAll, PTInv, MallocInv, heap, CSC369_MallocIsLeakFree
<1> QED
  BY <1>1, PTInvariant, PTL

(* The counters that CSC369_malloc and CSC369_free keep are those of the   *)
(* blocks in use, and the cap on the bytes is kept, until an assertion of  *)
(* CSC369_malloc ends the program.                                         *)
THEOREM AccountingCorrect == PTSpec => []AccountingExact
<1>1. PTInv => AccountingExact
  BY DEF AccountingExact, PTInv, MallocInv, Counts
<1> QED
  BY <1>1, PTInvariant, PTL
=============================================================================
