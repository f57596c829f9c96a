-------------------------------- MODULE KHash --------------------------------
(***************************************************************************)
(* khash.h as csc369_kmalloc.c instantiates it (KHASH_MAP_INIT_INT64): an  *)
(* open-addressing hash table with quadratic probing, tombstones and an    *)
(* in-place rehash.  A bucket is its two flag bits together with its key   *)
(* and value; what an empty or deleted bucket still holds is never read,   *)
(* so it is left out.  Of a value, which is the size of a block, matters   *)
(* whether the FREED bit is set ("freed") or not ("size").  The number of  *)
(* buckets is a power of two: "& mask" is "% n_buckets".                   *)
(***************************************************************************)
EXTENDS Integers, FiniteSets, FiniteSetsExt

CONSTANTS
  Keys,         \* pointers
  Hash          \* kh_int64_hash_func

ASSUME HashAssumption == Hash \in [Keys -> Nat]

VARIABLES
  h,            \* the table
  ret           \* *ret of the last kh_put

khVars == <<h, ret>>

Empty == [flag |-> "empty"]
Deleted == [flag |-> "deleted"]
Live(key, val) == [flag |-> "live", key |-> key, val |-> val]
IsLive(b) == b.flag = "live"
Holds(b, key) == IsLive(b) /\ b.key = key

(* The i-th bucket that is looked at: the step grows by one every time.    *)
Probe(n, key, i) == (Hash[key] + (i * (i + 1)) \div 2) % n

(* kh_init: calloc of the whole struct.                                    *)
kh_init == [n_buckets |-> 0, size |-> 0, n_occupied |-> 0, upper_bound |-> 0,
            buckets |-> [i \in {} |-> Empty]]

(* Where the loops of kh_get and kh_put end: at an empty bucket, at the    *)
(* key, or back at the first bucket.                                       *)
ProbeEnd(t, key) ==
  LET Ends(i) == LET b == Probe(t.n_buckets, key, i)
                 IN  \/ t.buckets[b] = Empty
                     \/ Holds(t.buckets[b], key)
                     \/ i > 0 /\ b = Probe(t.n_buckets, key, 0)
  IN  CHOOSE i \in 0 .. 2 * t.n_buckets : Ends(i) /\ \A j \in 0 .. i - 1 : ~Ends(j)

(* kh_get: the bucket of the key, kh_end (n_buckets) if there is none.     *)
kh_get(t, key) ==
  IF t.n_buckets = 0 THEN 0
  ELSE LET b == Probe(t.n_buckets, key, ProbeEnd(t, key))
       IN  IF Holds(t.buckets[b], key) THEN b ELSE t.n_buckets

(* The next power of two, and at least 4 (kroundup32).                     *)
Power[e \in 0 .. 30] == IF e = 0 THEN 1 ELSE 2 * Power[e - 1]
BucketCounts == {Power[e] : e \in 2 .. 30}
kroundup32(n) == Min({m \in BucketCounts : m >= n})

(* kmalloc allocates at most 2^31 bytes in all, in blocks of 8 bytes or    *)
(* more: it never has more than 2^28 pointers.                             *)
ASSUME KeysAssumption ==
  IsFiniteSet(Keys) /\ 2 * Cardinality(Keys) < Power[30]

(* Faulty variant: every bucket may be occupied.                           *)
FullBound(n) == n

(* (khint_t)(n * 0.77 + 0.5)                                               *)
UpperBound(n) == (77 * n + 50) \div 100

-----------------------------------------------------------------------------
(* The rehash works in the old arrays.  In w, "content" are the arrays,    *)
(* "old" the buckets whose element still has to move, "new" the buckets    *)
(* that are taken in the new layout of n buckets, and "hand" is an element *)
(* that was in the way of another, Empty if there is none.                 *)

(* The first bucket for the key that is free in the new layout.            *)
NewBucket(new, n, key) ==
  LET Free(i) == Probe(n, key, i) \notin new
  IN  Probe(n, key, CHOOSE i \in 0 .. n - 1 : Free(i) /\ \A j \in 0 .. i - 1 : ~Free(j))

(* Faulty variant: an element that has not moved yet is overwritten.       *)
OverwriteElement(w, n) ==
  IF w.old = {} THEN w
  ELSE LET element == w.content[Min(w.old)]
           i == NewBucket(w.new, n, element.key)
       IN  [w EXCEPT !.content[i] = element, !.new = @ \cup {i},
                     !.old = @ \ {Min(w.old), i}]

(* One round of the kick-out process: the element in hand is placed, else  *)
(* that of the smallest old bucket.  An element that has not moved yet and *)
(* is in the way is taken in hand.                                         *)
KickOut(w, n) ==
  LET element == IF w.hand = Empty THEN w.content[Min(w.old)] ELSE w.hand
      old == IF w.hand = Empty THEN w.old \ {Min(w.old)} ELSE w.old
      i == NewBucket(w.new, n, element.key)
  IN  [content |-> [w.content EXCEPT ![i] = element],
       old |-> old \ {i},
       new |-> w.new \cup {i},
       hand |-> IF i \in old THEN w.content[i] ELSE Empty]

(* The loop over the old buckets places one element a round.               *)
Rounds(start, n, last) ==
  LET w[k \in 0 .. last] == IF k = 0 THEN start ELSE KickOut(w[k - 1], n)
  IN  w

RehashStart(t, n) ==
  [content |-> [i \in 0 .. Max({n, t.n_buckets}) - 1 |->
                  IF i < t.n_buckets THEN t.buckets[i] ELSE Empty],
   old |-> {i \in DOMAIN t.buckets : IsLive(t.buckets[i])},
   new |-> {}, hand |-> Empty]

Rehash(t, n) ==
  LET start == RehashStart(t, n)
      last == Cardinality(start.old)
      done == Rounds(start, n, last)[last]
  IN  [n_buckets |-> n, size |-> t.size, n_occupied |-> t.size,
       upper_bound |-> UpperBound(n),
       buckets |-> [i \in 0 .. n - 1 |->
                      IF i \in done.new THEN done.content[i] ELSE Empty]]

(* kh_resize: nothing happens when the elements would not fit.             *)
kh_resize(t, new_n_buckets) ==
  LET n == kroundup32(new_n_buckets)
  IN  IF t.size >= UpperBound(n) THEN t ELSE Rehash(t, n)

-----------------------------------------------------------------------------
(* The first part of kh_put: a table that has no room is rehashed in       *)
(* place if most of it is deleted, and grown otherwise.                    *)
NeedsRoom(t) == t.n_occupied >= t.upper_bound
MakeRoom(t) ==
  IF ~NeedsRoom(t) THEN t
  ELSE IF t.n_buckets > 2 * t.size THEN kh_resize(t, t.n_buckets - 1)
  ELSE kh_resize(t, t.n_buckets + 1)

(* Faulty variant: the first deleted bucket is taken at once.              *)
FirstSite(t, key) ==
  Probe(t.n_buckets, key,
        Min({i \in 0 .. ProbeEnd(t, key) :
               ~IsLive(t.buckets[Probe(t.n_buckets, key, i)])
                 \/ i = ProbeEnd(t, key)}))

(* The bucket for the key: its own, else the last deleted one that the     *)
(* search passed, else the empty one that ended it.                        *)
PutBucket(t, key) ==
  LET n == t.n_buckets
      end == ProbeEnd(t, key)
      site == {i \in 0 .. end - 1 : t.buckets[Probe(n, key, i)] = Deleted}
  IN  IF Holds(t.buckets[Probe(n, key, end)], key) \/ site = {}
        THEN Probe(n, key, end) ELSE Probe(n, key, Max(site))

(* kh_put, and the assignment to kh_value that follows it in kmalloc.      *)
kh_put(key) ==
  LET t == MakeRoom(h)
      x == PutBucket(t, key)
      isnew == IF IsLive(t.buckets[x]) THEN 0 ELSE 1
  IN  /\ h' = [t EXCEPT !.size = @ + isnew,
                        !.n_occupied = @ + (IF t.buckets[x] = Empty THEN 1 ELSE 0),
                        !.buckets[x] = IF IsLive(@) THEN [@ EXCEPT !.val = "size"]
                                       ELSE Live(key, "size")]
      /\ ret' = IF t.buckets[x] = Deleted THEN 2 ELSE isnew

(* One of the allocations of kh_resize fails.  The arrays may have grown,  *)
(* which nothing depends on.                                               *)
kh_putFails ==
  /\ NeedsRoom(h)
  /\ ret' = -1
  /\ UNCHANGED h

(* CSC369_free: kh_get, and the FREED bit set in kh_value.                 *)
SetFreed(key) ==
  /\ kh_get(h, key) # h.n_buckets
  /\ h' = [h EXCEPT !.buckets[kh_get(h, key)].val = "freed"]
  /\ UNCHANGED ret

(* kh_del of what kh_get returns.                                          *)
kh_del(key) ==
  /\ kh_get(h, key) # h.n_buckets
  /\ h' = [h EXCEPT !.buckets[kh_get(h, key)] = Deleted, !.size = @ - 1]
  /\ UNCHANGED ret

kh_clear ==
  /\ h' = [h EXCEPT !.buckets = [i \in DOMAIN @ |-> Empty],
                    !.size = 0, !.n_occupied = 0]
  /\ UNCHANGED ret

KHInit == h = kh_init /\ ret = 0

KHNext ==
  \/ \E key \in Keys : kh_put(key) \/ SetFreed(key) \/ kh_del(key)
  \/ kh_putFails
  \/ kh_clear

KHSpec == KHInit /\ [][KHNext]_khVars

-----------------------------------------------------------------------------
Occupied == {i \in DOMAIN h.buckets : h.buckets[i] # Empty}
LiveBuckets == {i \in DOMAIN h.buckets : IsLive(h.buckets[i])}

(* The loops of kh_put, kh_get and kh_resize have no other guard: a search *)
(* ends, and an insertion never lands on another key, because a bucket is  *)
(* always empty.  It is, through tombstones, rehashes and failed rehashes, *)
(* only while the two counters are exact.                                  *)
ProbesEnd ==
  /\ h.size = Cardinality(LiveBuckets)
  /\ h.n_occupied = Cardinality(Occupied)
  /\ h.n_buckets > 0 => Occupied # DOMAIN h.buckets

(* No key is live in two buckets, though kh_put reuses a deleted bucket    *)
(* that comes before the key's own on its way.                             *)
KeysUnique ==
  \A i, j \in LiveBuckets : h.buckets[i].key = h.buckets[j].key => i = j

Lookup(key) ==
  LET x == kh_get(h, key)
  IN  IF x = h.n_buckets THEN "absent" ELSE h.buckets[x].val

Map == INSTANCE PointerMap
         WITH map <- [key \in Keys |-> Lookup(key)],
              ret <- IF ret = 2 THEN 1 ELSE ret

(* The table is the map kmalloc takes it for: what kh_get finds after any  *)
(* sequence of calls is what was put and not deleted, rehashes lose and    *)
(* invent nothing, and a failed insertion leaves the map as it was.        *)
ImplementsPointerMap == Map!PMSpec
=============================================================================
