------------------------------- MODULE Bitmap -------------------------------
(***************************************************************************)
(* The bitmap of csc369_bitutil.c, word by word.  A word is the set of its *)
(* bits that are 1.  The bitmap never clears a bit: swap space is not      *)
(* given back.  size_t arithmetic wraps at SIZE_MOD.                       *)
(***************************************************************************)
EXTENDS Integers

CONSTANTS
  bits_per_word,  \* bits of a size_t (64)
  SIZE_MOD        \* values of a size_t (2^64)

ASSUME WordAssumption == bits_per_word \in Nat \ {0}
ASSUME SizeModAssumption == SIZE_MOD \in Nat /\ SIZE_MOD > bits_per_word

VARIABLES
  nbits,        \* size asked for: memsim's -s argument
  words,        \* the array of words
  index         \* index handed out by the last BitmapAlloc, -1 if it failed

bitmapVars == <<nbits, words, index>>

Bits == 0 .. bits_per_word - 1
word_all_bits == Bits

(* Rounding up wraps round when n is within a word of the largest size_t.  *)
nwords_for_nbits(n) == ((n + bits_per_word - 1) % SIZE_MOD) \div bits_per_word

(* Faulty variants: the last word is left empty; one bit too few is        *)
(* marked.                                                                 *)
CreateNoLeftover(n) == [idx \in 0 .. nwords_for_nbits(n) - 1 |-> {}]
CreateOffByOne(n) ==
  LET word_count == nwords_for_nbits(n)
      overbits == n - (word_count - 1) * bits_per_word
  IN  [idx \in 0 .. word_count - 1 |->
         IF idx = word_count - 1 /\ word_count > n \div bits_per_word
           THEN overbits + 1 .. bits_per_word - 1
           ELSE {}]

(* CSC369_BitmapCreate: all bits are clear, but those of the last word     *)
(* that lie beyond bit n - 1 are marked in use.                            *)
CSC369_BitmapCreate(n) ==
  LET word_count == nwords_for_nbits(n)
      overbits == n - (word_count - 1) * bits_per_word
  IN  [idx \in 0 .. word_count - 1 |->
         IF idx = word_count - 1 /\ word_count > n \div bits_per_word
           THEN overbits .. bits_per_word - 1
           ELSE {}]

(* memsim refuses a swap of size 0 and takes any other.                    *)
BitmapInit ==
  /\ nbits \in 1 .. SIZE_MOD - 1
  /\ words = CSC369_BitmapCreate(nbits)
  /\ index = -1

(* Faulty variant: the search starts again at the second word.             *)
FindSkipsFirstWord(idx, offset) ==
  /\ idx \in DOMAIN words /\ words[idx] # word_all_bits
  /\ \A i \in DOMAIN words : i < idx /\ i > 0 => words[i] = word_all_bits
  /\ offset \in Bits \ words[idx]
  /\ \A o \in Bits \ words[idx] : offset <= o

(* The first word that is not full, and its first bit that is clear.       *)
FindClearBit(idx, offset) ==
  /\ idx \in DOMAIN words /\ words[idx] # word_all_bits
  /\ \A i \in DOMAIN words : i < idx => words[i] = word_all_bits
  /\ offset \in Bits \ words[idx]
  /\ \A o \in Bits \ words[idx] : offset <= o

CSC369_BitmapAlloc ==
  \E idx \in DOMAIN words, offset \in Bits :
    /\ FindClearBit(idx, offset)
    /\ words' = [words EXCEPT ![idx] = @ \cup {offset}]
    /\ index' = idx * bits_per_word + offset
    /\ UNCHANGED nbits

(* Every word is full: -1 is returned.                                     *)
BitmapAllocFails ==
  /\ \A idx \in DOMAIN words : words[idx] = word_all_bits
  /\ index' = -1
  /\ UNCHANGED <<nbits, words>>

BitmapNext == CSC369_BitmapAlloc \/ BitmapAllocFails

BitmapSpec == BitmapInit /\ [][BitmapNext]_bitmapVars

-----------------------------------------------------------------------------
(* The indices of the bits that are 1.                                     *)
SetBits == {i \in 0 .. SIZE_MOD - 1 :
              /\ i \div bits_per_word \in DOMAIN words
              /\ i % bits_per_word \in words[i \div bits_per_word]}

(* What the bitmap really holds: nothing at all when the size is so large  *)
(* that the number of words wraps round to 0.                              *)
Capacity == IF DOMAIN words = {} THEN 0 ELSE nbits

(* Every bit of the array that is not one of the nbits bits is marked      *)
(* used, at all times, whatever the remainder of nbits by the word size:   *)
(* the search can stop at whole words.                                     *)
LeftoverUsed ==
  \A idx \in DOMAIN words, offset \in Bits :
    idx * bits_per_word + offset >= nbits => offset \in words[idx]

(* The assertions of BitmapAlloc and BitmapCreate: an index handed out is  *)
(* below nbits; the leftover part of the last word is neither empty nor    *)
(* the whole word.                                                         *)
BitmapAssertions ==
  /\ index < nbits
  /\ LET word_count == nwords_for_nbits(nbits)
         overbits == nbits - (word_count - 1) * bits_per_word
     IN  word_count > nbits \div bits_per_word =>
           nbits \div bits_per_word = word_count - 1
             /\ overbits > 0 /\ overbits < bits_per_word

Allocator == INSTANCE SlotAllocator
               WITH size <- Capacity, used <- SetBits \cap (0 .. nbits - 1),
                    result <- index

(* The words behave as the allocator that Swap takes them for: no index is *)
(* handed out twice, none is skipped, and -1 is returned only when all are *)
(* gone.                                                                   *)
ImplementsSlotAllocator == Allocator!SASpec
=============================================================================
