---------------------------- MODULE Bitmap_proofs ----------------------------
(***************************************************************************)
(* Proofs about the bitmap, for every word size, every range of size_t and *)
(* every number of bits.                                                   *)
(***************************************************************************)
EXTENDS Bitmap, TLAPS

(* Rounding up: either the sum wraps and no word is left, or the words     *)
(* hold n bits and not one of them is superfluous.                         *)
LEMMA WordCount ==
  ASSUME NEW n \in 1 .. SIZE_MOD - 1
  PROVE  LET wc == nwords_for_nbits(n)
         IN  /\ wc \in Nat
             /\ wc > 0 => (wc - 1) * bits_per_word < n /\ n <= wc * bits_per_word
  <1> DEFINE b == bits_per_word
             m == n + b - 1
             r == m % SIZE_MOD
             wc == nwords_for_nbits(n)
  <1>1. b \in Nat /\ b > 0 /\ SIZE_MOD \in Nat /\ SIZE_MOD > b
    BY WordAssumption, SizeModAssumption
  <1>2. m \in Nat /\ m >= b
    BY <1>1
  <1>3. r \in Nat /\ (m < SIZE_MOD => r = m) /\ (m >= SIZE_MOD => r = m - SIZE_MOD)
    BY <1>1, <1>2
  <1>4. wc = r \div b
    BY DEF nwords_for_nbits
  <1>5. wc \in Nat /\ wc * b <= r /\ r < wc * b + b
    <2> HIDE DEF r, m, b
    <2> QED BY <1>1, <1>3, <1>4
  <1>6. CASE m < SIZE_MOD
    <2>1. (wc - 1) * b = wc * b - b
      BY <1>5, <1>1
    <2> QED BY <2>1, <1>1, <1>3, <1>5, <1>6
  <1>7. CASE m >= SIZE_MOD
    <2>1. r < b
      BY <1>1, <1>3, <1>7
    <2>2. wc = 0
      <3> HIDE DEF r, m, b, wc
      <3> QED BY <1>1, <1>3, <1>5, <2>1
    <2> QED BY <2>2, <1>5
  <1> QED BY <1>6, <1>7, <1>1, <1>2

(* The last word is partial exactly when the number of bits is not a       *)
(* multiple of the word size: what BitmapCreate asserts of it.             *)
LEMMA PartialWord ==
  ASSUME NEW n \in 1 .. SIZE_MOD - 1, nwords_for_nbits(n) > n \div bits_per_word
  PROVE  /\ n \div bits_per_word = nwords_for_nbits(n) - 1
         /\ n - (nwords_for_nbits(n) - 1) * bits_per_word > 0
         /\ n - (nwords_for_nbits(n) - 1) * bits_per_word < bits_per_word
  <1> DEFINE b == bits_per_word
             wc == nwords_for_nbits(n)
             q == n \div b
  <1>1. b \in Nat /\ b > 0
    BY WordAssumption
  <1>2. wc \in Nat /\ (wc > 0 => (wc - 1) * b < n /\ n <= wc * b)
    BY WordCount
  <1>3. n \in Nat
    BY SizeModAssumption
  <1>4. q \in Nat /\ q * b <= n /\ n < q * b + b
    <2> HIDE DEF b
    <2> QED BY <1>1, <1>3
  <1>5. wc > q
    OBVIOUS
  <1> HIDE DEF b, wc, q
  <1>6. wc > 0 /\ (wc - 1) * b < n
    BY <1>2, <1>4, <1>5
  <1>7. ~(q < wc - 1)
    <2> SUFFICES ASSUME q + 1 <= wc - 1 PROVE FALSE
      BY <1>2, <1>4
    <2>1. (q + 1) * b <= (wc - 1) * b
      BY <1>1, <1>2, <1>4, <1>6
    <2>2. (q + 1) * b = q * b + b
      BY <1>1, <1>4
    <2> QED BY <2>1, <2>2, <1>1, <1>2, <1>3, <1>4, <1>6
  <1>8. q = wc - 1
    BY <1>2, <1>4, <1>5, <1>7
  <1> QED BY <1>1, <1>2, <1>3, <1>4, <1>6, <1>8 DEF b, wc, q

(* A bit of a word in front of the last one, or of a last word that is     *)
(* not partial, is one of the n bits.                                      *)
LEMMA InsideBits ==
  ASSUME NEW n \in 1 .. SIZE_MOD - 1,
         NEW idx \in 0 .. nwords_for_nbits(n) - 1, NEW offset \in Bits,
         \/ idx < nwords_for_nbits(n) - 1
         \/ nwords_for_nbits(n) <= n \div bits_per_word
  PROVE  idx * bits_per_word + offset < n
  <1> DEFINE b == bits_per_word
             wc == nwords_for_nbits(n)
             q == n \div b
  <1>1. b \in Nat /\ b > 0 /\ n \in Nat
    BY WordAssumption, SizeModAssumption
  <1>2. wc \in Nat /\ (wc > 0 => (wc - 1) * b < n)
    BY WordCount
  <1>3. q \in Nat /\ q * b <= n
    <2> HIDE DEF b
    <2> QED BY <1>1
  <1>4. offset \in Nat /\ offset < b /\ idx \in Nat /\ idx < wc
    BY <1>1, <1>2 DEF Bits
  <1>5. idx < wc - 1 \/ wc <= q
    OBVIOUS
  <1> HIDE DEF b, wc, q
  <1>6. idx * b + offset < (idx + 1) * b
    BY <1>1, <1>4
  <1>7. CASE idx < wc - 1
    <2>1. (idx + 1) * b <= (wc - 1) * b
      BY <1>1, <1>2, <1>4, <1>7
    <2> QED BY <2>1, <1>1, <1>2, <1>4, <1>6 DEF b
  <1>8. CASE wc <= q
    <2>1. (idx + 1) * b <= q * b
      BY <1>1, <1>2, <1>3, <1>4, <1>8
    <2> QED BY <2>1, <1>1, <1>3, <1>4, <1>6 DEF b
  <1> QED BY <1>5, <1>7, <1>8

-----------------------------------------------------------------------------
(* The inductive invariant: LeftoverUsed with the shape of the words, which *)
(* the search for a clear bit needs, and the bound on the index.           *)
BInv ==
  /\ nbits \in 1 .. SIZE_MOD - 1
  /\ words \in [0 .. nwords_for_nbits(nbits) - 1 -> SUBSET Bits]
  /\ LeftoverUsed
  /\ index \in Int /\ index < nbits

LEMMA BInvInit == BitmapInit => BInv
  <1> SUFFICES ASSUME BitmapInit PROVE BInv
    OBVIOUS
  <1> DEFINE wc == nwords_for_nbits(nbits)
             over == nbits - (wc - 1) * bits_per_word
  <1>1. nbits \in 1 .. SIZE_MOD - 1 /\ index = -1
    BY DEF BitmapInit
  <1>2. wc \in Nat
    BY <1>1, WordCount
  <1>3. words = [idx \in 0 .. wc - 1 |->
                   IF idx = wc - 1 /\ wc > nbits \div bits_per_word
                     THEN over .. bits_per_word - 1 ELSE {}]
    BY DEF BitmapInit, CSC369_BitmapCreate
  <1>4. wc > nbits \div bits_per_word => over \in Nat
    <2>1. bits_per_word \in Nat /\ nbits \in Nat
      BY <1>1, WordAssumption, SizeModAssumption
    <2> QED BY <1>1, <1>2, <2>1, PartialWord
  <1>5. words \in [0 .. wc - 1 -> SUBSET Bits]
    <2>1. wc > nbits \div bits_per_word => over .. bits_per_word - 1 \in SUBSET Bits
      BY <1>4, WordAssumption DEF Bits
    <2> HIDE DEF over, wc
    <2> QED BY <1>3, <2>1
  <1>6. LeftoverUsed
    <2> SUFFICES ASSUME NEW idx \in 0 .. wc - 1, NEW offset \in Bits,
                        idx * bits_per_word + offset >= nbits
                 PROVE  offset \in words[idx]
      BY <1>3 DEF LeftoverUsed
    <2>1. bits_per_word \in Nat /\ nbits \in Nat /\ offset \in 0 .. bits_per_word - 1
      BY <1>1, WordAssumption, SizeModAssumption DEF Bits
    <2>2. idx \in Int /\ idx * bits_per_word \in Int
      BY <2>1, <1>2
    <2>3. ~(idx * bits_per_word + offset < nbits)
      BY <2>1, <2>2
    <2>4. ~(idx < wc - 1) /\ ~(wc <= nbits \div bits_per_word)
      BY <2>3, <1>1, InsideBits
    <2>5. nbits \div bits_per_word \in Int
      BY <2>1, WordAssumption
    <2>6. idx = wc - 1 /\ wc > nbits \div bits_per_word
      BY <2>4, <2>2, <2>5, <1>2
    <2>7. words[idx] = over .. bits_per_word - 1
      BY <1>3, <2>6
    <2>8. offset >= over
      <3>1. idx * bits_per_word = (wc - 1) * bits_per_word
        BY <2>6
      <3> QED BY <3>1, <2>1, <2>2
    <2> QED BY <2>1, <2>7, <2>8, <1>4, <2>6
  <1> QED BY <1>1, <1>5, <1>6, SizeModAssumption DEF BInv

LEMMA BInvNext == BInv /\ [BitmapNext]_bitmapVars => BInv'
  <1> SUFFICES ASSUME BInv, [BitmapNext]_bitmapVars PROVE BInv'
    OBVIOUS
  <1> USE DEF BInv
  <1>1. CASE CSC369_BitmapAlloc
    <2> PICK idx \in DOMAIN words, offset \in Bits :
          /\ FindClearBit(idx, offset)
          /\ words' = [words EXCEPT ![idx] = @ \cup {offset}]
          /\ index' = idx * bits_per_word + offset
          /\ UNCHANGED nbits
      BY <1>1 DEF CSC369_BitmapAlloc
    <2>1. words' \in [0 .. nwords_for_nbits(nbits) - 1 -> SUBSET Bits]
      OBVIOUS
    <2>2. LeftoverUsed'
      BY DEF LeftoverUsed
    <2>3. offset \notin words[idx]
      BY DEF FindClearBit
    <2>4. ~(idx * bits_per_word + offset >= nbits)
      BY <2>3 DEF LeftoverUsed
    <2>5. idx \in Int /\ offset \in Int /\ bits_per_word \in Int /\ nbits \in Int
      BY WordAssumption, SizeModAssumption, WordCount DEF Bits
    <2>6. index' \in Int /\ index' < nbits
      BY <2>4, <2>5
    <2> QED BY <2>1, <2>2, <2>6
  <1>2. CASE BitmapAllocFails
    BY <1>2, SizeModAssumption DEF BitmapAllocFails, LeftoverUsed
  <1>3. CASE UNCHANGED bitmapVars
    BY <1>3 DEF bitmapVars, LeftoverUsed
  <1> QED BY <1>1, <1>2, <1>3 DEF BitmapNext

(* Bits beyond the size of the bitmap are marked used, and stay so,        *)
(* whatever the size (csc369_bitutil.c:110-120).                           *)
THEOREM LeftoverCorrect == BitmapSpec => []LeftoverUsed
  <1>1. BInv => LeftoverUsed
    BY DEF BInv
  <1> QED BY <1>1, BInvInit, BInvNext, PTL DEF BitmapSpec

(* The assertions of BitmapCreate and BitmapAlloc never fail: no index     *)
(* outside the swap is handed out (csc369_bitutil.c:114-115, 148).         *)
THEOREM AssertionsHold == BitmapSpec => []BitmapAssertions
  <1>1. BInv => BitmapAssertions
    BY PartialWord DEF BInv, BitmapAssertions
  <1> QED BY <1>1, BInvInit, BInvNext, PTL DEF BitmapSpec
-----------------------------------------------------------------------------
(* The words implement the allocator *)

(* A bit's word and its offset there determine its index, and conversely.  *)
LEMMA IndexOf ==
  ASSUME NEW idx \in Nat, NEW offset \in Bits
  PROVE  /\ idx * bits_per_word + offset \in Nat
         /\ (idx * bits_per_word + offset) \div bits_per_word = idx
         /\ (idx * bits_per_word + offset) % bits_per_word = offset
  <1> DEFINE s == idx * bits_per_word + offset
  <1>1. /\ bits_per_word \in Nat \ {0} /\ offset \in 0 .. bits_per_word - 1
        /\ s \in Nat /\ s = bits_per_word * idx + offset
    BY WordAssumption DEF Bits
  <1> HIDE DEF s
  <1>2. s \div bits_per_word = idx /\ s % bits_per_word = offset
    BY <1>1
  <1> QED BY <1>1, <1>2 DEF s

LEMMA PlaceOf ==
  ASSUME NEW t \in Nat
  PROVE  /\ t \div bits_per_word \in Nat
         /\ t % bits_per_word \in Bits /\ t % bits_per_word \in Nat
         /\ t = (t \div bits_per_word) * bits_per_word + (t % bits_per_word)
  BY WordAssumption DEF Bits

(* The indices handed out.                                                 *)
UsedBits == SetBits \cap (0 .. nbits - 1)

LEMMA UsedBit ==
  ASSUME BInv, NEW t \in 0 .. nbits - 1
  PROVE  t \in UsedBits <=> /\ t \div bits_per_word \in DOMAIN words
                            /\ t % bits_per_word \in words[t \div bits_per_word]
  BY SizeModAssumption DEF BInv, UsedBits, SetBits

(* Unless rounding up has wrapped to no word at all, every one of the      *)
(* nbits bits lies in a word.                                              *)
LEMMA BitHasWord ==
  ASSUME BInv, NEW t \in 0 .. nbits - 1, DOMAIN words # {}
  PROVE  t \div bits_per_word \in DOMAIN words
  <1> DEFINE b == bits_per_word
             wc == nwords_for_nbits(nbits)
             q == t \div b
  <1>1. /\ wc \in Nat /\ (wc > 0 => nbits <= wc * b) /\ b \in Nat \ {0}
        /\ nbits \in Nat /\ t \in Nat /\ t < nbits /\ DOMAIN words = 0 .. wc - 1
    BY WordCount, WordAssumption, SizeModAssumption DEF BInv
  <1>2. q \in Nat /\ q * b <= t
    <2>0. t \in Nat
      BY <1>1
    <2>1. t = q * b + (t % b) /\ t % b \in Nat /\ q \in Nat
      BY <2>0, PlaceOf
    <2> HIDE DEF q
    <2>2. q * b \in Nat
      BY <1>1, <2>1
    <2> QED BY <2>1, <2>2, <1>1
  <1> HIDE DEF b, wc, q
  <1>3. wc > 0
    BY <1>1
  <1>4. ~(wc <= q)
    <2> SUFFICES ASSUME wc <= q PROVE FALSE
      OBVIOUS
    <2>1. wc * b <= q * b
      BY <1>1, <1>2
    <2> QED BY <1>1, <1>2, <1>3, <2>1
  <1>5. q \in 0 .. wc - 1
    BY <1>1, <1>2, <1>4
  <1> QED BY <1>1, <1>5 DEF q, b

(* At the start no index is handed out: the bits of the last word that are *)
(* set lie beyond the nbits bits.                                          *)
LEMMA NoneUsed == BitmapInit => UsedBits = {}
  <1> SUFFICES ASSUME BitmapInit, NEW t \in 0 .. nbits - 1, t \in UsedBits
               PROVE  FALSE
    BY DEF UsedBits
  <1> DEFINE b == bits_per_word
             wc == nwords_for_nbits(nbits)
             over == nbits - (wc - 1) * b
             q == t \div b
             r == t % b
  <1>1. /\ BInv /\ wc \in Nat /\ b \in Nat \ {0} /\ nbits \in Nat /\ t \in Nat
        /\ nbits \in 1 .. SIZE_MOD - 1
    BY BInvInit, WordCount, WordAssumption, SizeModAssumption DEF BInv
  <1>2. q \in Nat /\ r \in Bits /\ r \in Nat /\ t = q * b + r
    BY <1>1, PlaceOf
  <1>3. q \in DOMAIN words /\ r \in words[q]
    BY <1>1, UsedBit
  <1>4. words = [idx \in 0 .. wc - 1 |->
                   IF idx = wc - 1 /\ wc > nbits \div b THEN over .. b - 1 ELSE {}]
    BY DEF BitmapInit, CSC369_BitmapCreate
  <1>5. q = wc - 1 /\ r \in over .. b - 1 /\ wc > nbits \div b
    <2> HIDE DEF over, wc, q, r, b
    <2> QED BY <1>3, <1>4
  <1>6. over \in Int /\ over = nbits - q * b /\ q * b \in Int
    BY <1>1, <1>2, <1>5
  <1> HIDE DEF over, wc, q, r, b
  <1>7. r >= over
    BY <1>1, <1>2, <1>5, <1>6
  <1> QED BY <1>1, <1>2, <1>6, <1>7

(* BitmapAlloc hands out the smallest index not yet used, and marks it.    *)
LEMMA AllocStep ==
  ASSUME BInv, CSC369_BitmapAlloc
  PROVE  \E s \in 0 .. Capacity - 1 : Allocator!SAAlloc(s)
  <1> PICK idx \in DOMAIN words, offset \in Bits :
        /\ FindClearBit(idx, offset)
        /\ words' = [words EXCEPT ![idx] = @ \cup {offset}]
        /\ index' = idx * bits_per_word + offset
        /\ UNCHANGED nbits
    BY DEF CSC369_BitmapAlloc
  <1> DEFINE b == bits_per_word
             s == idx * b + offset
  <1>1. /\ b \in Nat \ {0} /\ nbits \in Nat /\ idx \in Nat
        /\ offset \in Nat /\ offset < b
        /\ words \in [0 .. nwords_for_nbits(nbits) - 1 -> SUBSET Bits]
    BY WordCount, WordAssumption, SizeModAssumption DEF BInv, Bits
  <1>2. s \in Nat /\ s \div b = idx /\ s % b = offset
    BY <1>1, IndexOf
  <1>3. offset \notin words[idx]
    BY DEF FindClearBit
  <1>4. s \in 0 .. nbits - 1
    <2>1. ~(s >= nbits)
      BY <1>3 DEF BInv, LeftoverUsed
    <2> HIDE DEF s
    <2> QED BY <1>1, <1>2, <2>1
  <1>5. Capacity = nbits /\ Capacity' = nbits
    BY <1>1 DEF Capacity
  <1>6. s \notin UsedBits
    BY <1>2, <1>3, <1>4, UsedBit
  <1>7. ASSUME NEW t \in 0 .. nbits - 1, t \notin UsedBits
        PROVE  s <= t
    <2> DEFINE q == t \div b
               r == t % b
    <2>0. t \in Nat
      BY <1>1
    <2>1. t \in Nat /\ q \in Nat /\ r \in Bits /\ r \in Nat /\ t = q * b + r
      BY <2>0, PlaceOf
    <2>2. q \in DOMAIN words /\ r \notin words[q]
      BY <1>7, UsedBit, BitHasWord
    <2> HIDE DEF q, r
    <2>3. ~(q < idx)
      BY <2>1, <2>2, <1>1 DEF FindClearBit, word_all_bits
    <2>4. CASE q = idx
      <3>1. offset <= r
        BY <2>1, <2>2, <2>4 DEF FindClearBit
      <3>2. q * b \in Nat
        BY <1>1, <2>1
      <3> QED BY <1>1, <2>1, <2>4, <3>1, <3>2
    <2>5. CASE idx + 1 <= q
      <3>1. (idx + 1) * b <= q * b
        BY <1>1, <2>1, <2>5
      <3>2. (idx + 1) * b = idx * b + b /\ idx * b \in Nat /\ q * b \in Nat
        BY <1>1, <2>1
      <3> QED BY <1>1, <2>1, <3>1, <3>2
    <2> QED BY <1>1, <2>1, <2>3, <2>4, <2>5
  <1>8. UsedBits' = UsedBits \cup {s}
    <2>1. BInv'
      BY BInvNext DEF BitmapNext
    <2>2. ASSUME NEW t \in 0 .. nbits - 1
          PROVE  t \in UsedBits' <=> t \in UsedBits \/ t = s
      <3> DEFINE q == t \div b
                 r == t % b
      <3>0. t \in Nat
        BY <1>1
      <3>1. t \in Nat /\ q \in Nat /\ r \in Bits /\ t = q * b + r
        BY <3>0, PlaceOf
      <3>2. t \in UsedBits' <=> q \in DOMAIN words' /\ r \in words'[q]
        BY <2>1, SizeModAssumption DEF BInv, UsedBits, SetBits
      <3>3. t \in UsedBits <=> q \in DOMAIN words /\ r \in words[q]
        BY UsedBit
      <3>4. t = s <=> q = idx /\ r = offset
        BY <1>2, <3>1
      <3> HIDE DEF q, r, s
      <3> QED BY <1>1, <3>2, <3>3, <3>4
    <2>3. UsedBits \subseteq 0 .. nbits - 1 /\ UsedBits' \subseteq 0 .. nbits - 1
      BY DEF UsedBits
    <2> QED BY <1>4, <2>2, <2>3
  <1> QED BY <1>4, <1>5, <1>6, <1>7, <1>8 DEF Allocator!SAAlloc, UsedBits

(* BitmapAlloc gives up only when every index is used.                     *)
LEMMA RefuseStep ==
  ASSUME BInv, BitmapAllocFails
  PROVE  Allocator!SARefuse
  <1>1. UsedBits = 0 .. Capacity - 1
    <2>1. CASE DOMAIN words = {}
      <3>1. UsedBits = {}
        BY <2>1 DEF UsedBits, SetBits
      <3> QED BY <2>1, <3>1 DEF Capacity
    <2>2. CASE DOMAIN words # {}
      <3>1. ASSUME NEW t \in 0 .. nbits - 1 PROVE t \in UsedBits
        <4>1. t \in Nat /\ t % bits_per_word \in Bits
          BY PlaceOf, SizeModAssumption DEF BInv
        <4>2. t \div bits_per_word \in DOMAIN words
          BY <2>2, BitHasWord
        <4> QED BY <4>1, <4>2, UsedBit DEF BitmapAllocFails, word_all_bits
      <3> QED BY <2>2, <3>1 DEF Capacity, UsedBits
    <2> QED BY <2>1, <2>2
  <1>2. UNCHANGED <<Capacity, UsedBits>> /\ index' = -1
    BY DEF BitmapAllocFails, Capacity, UsedBits, SetBits
  <1> QED BY <1>1, <1>2 DEF Allocator!SARefuse, UsedBits

(* The words behave as the allocator that the swap takes them for, for     *)
(* every word size and every number of bits: each index is handed out once *)
(* and in order, and -1 is returned only when all are gone.                *)
THEOREM BitmapImplementsAllocator == BitmapSpec => ImplementsSlotAllocator
  <1>1. BitmapInit => Allocator!SAInit
    BY NoneUsed DEF BitmapInit, Allocator!SAInit, UsedBits
  <1>2. BInv /\ [BitmapNext]_bitmapVars
          => [Allocator!SANext]_<<Capacity, UsedBits, index>>
    <2> SUFFICES ASSUME BInv, [BitmapNext]_bitmapVars
                 PROVE  [Allocator!SANext]_<<Capacity, UsedBits, index>>
      OBVIOUS
    <2>1. CASE CSC369_BitmapAlloc
      BY <2>1, AllocStep DEF Allocator!SANext
    <2>2. CASE BitmapAllocFails
      BY <2>2, RefuseStep DEF Allocator!SANext
    <2>3. CASE UNCHANGED bitmapVars
      BY <2>3 DEF bitmapVars, Capacity, UsedBits, SetBits
    <2> QED BY <2>1, <2>2, <2>3 DEF BitmapNext
  <1> QED
    BY <1>1, <1>2, BInvInit, BInvNext, PTL
    DEF BitmapSpec, ImplementsSlotAllocator, Allocator!SASpec, UsedBits
=============================================================================
