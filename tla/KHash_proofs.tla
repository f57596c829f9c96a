---------------------------- MODULE KHash_proofs ----------------------------
(***************************************************************************)
(* Proofs about the hash table, for every set of pointers and every hash   *)
(* function.                                                               *)
(***************************************************************************)
EXTENDS KHash, FiniteSetTheorems, FunctionTheorems, WellFoundedInduction, TLAPS

-----------------------------------------------------------------------------
(* Arithmetic *)

(* A nonempty set of natural numbers has a least element.                  *)
LEMMA LeastNat ==
  ASSUME NEW T \in SUBSET Nat, T # {}
  PROVE  \E x \in T : \A y \in T : x <= y
<1>1. \E x \in T : \A y \in T : <<y, x>> \notin OpToRel(<, Nat)
  BY NatLessThanWellFounded, WFMin, Zenon
<1>2. \A x, y \in Nat : <<y, x>> \notin OpToRel(<, Nat) => ~(y < x)
  BY Zenon DEF OpToRel
<1>3. \A x, y \in Nat : ~(y < x) => x <= y
  OBVIOUS
<1> QED
  BY <1>1, <1>2, <1>3

LEMMA ModDivision ==
  ASSUME NEW m \in Nat \ {0}, NEW x \in Nat
  PROVE  /\ x \div m \in Nat /\ x % m \in 0 .. m - 1
         /\ x = m * (x \div m) + (x % m)
OBVIOUS

(* Numbers with the same remainder differ by a multiple.                   *)
LEMMA SameRemainder ==
  ASSUME NEW m \in Nat \ {0}, NEW x \in Nat, NEW y \in Nat, x % m = y % m
  PROVE  \E c \in Int : x - y = m * c
<1> DEFINE q == x \div m
           p == y \div m
           r == x % m
<1>1. q \in Nat /\ p \in Nat /\ r \in Nat /\ x = m * q + r /\ y = m * p + r
  <2>1. x \div m \in Nat /\ x % m \in Nat /\ x = m * (x \div m) + (x % m)
    BY ONLY m \in Nat \ {0}, x \in Nat, ModDivision
  <2>2. y \div m \in Nat /\ y = m * (y \div m) + (y % m)
    BY ONLY m \in Nat \ {0}, y \in Nat, ModDivision
  <2> QED
    BY <2>1, <2>2
<1> HIDE DEF q, p, r
<1>2. m * (q - p) = m * q - m * p /\ q - p \in Int /\ m * q \in Int /\ m * p \in Int
  BY ONLY <1>1, m \in Nat
<1>3. x - y = m * (q - p)
  BY ONLY <1>1, <1>2
<1> QED
  BY <1>2, <1>3

(* What the definition of Power asks of it up to e.                        *)
Doubles(g, e) == g = [k \in 0 .. e |-> IF k = 0 THEN 1 ELSE 2 * g[k - 1]]

LEMMA DoublesExists ==
  ASSUME NEW e \in Nat
  PROVE  \E g : Doubles(g, e)
<1> DEFINE T == {j \in Nat : ~ \E g : Doubles(g, j)}
<1> SUFFICES ASSUME T # {} PROVE FALSE
  OBVIOUS
<1>1. PICK j \in T : \A y \in T : j <= y
  <2> HIDE DEF T
  <2>1. T \in SUBSET Nat
    BY DEF T
  <2> QED
    BY <2>1, LeastNat
<1>2. j # 0
  <2>1. Doubles([k \in 0 .. 0 |-> 1], 0)
    BY DEF Doubles
  <2> QED
    BY <1>1, <2>1
<1>3. PICK g : Doubles(g, j - 1)
  BY <1>1, <1>2
<1> DEFINE f == [k \in 0 .. j |-> IF k = 0 THEN 1 ELSE 2 * g[k - 1]]
<1>4. \A k \in 0 .. j - 1 : f[k] = g[k]
  BY <1>1, <1>3 DEF Doubles
<1>5. Doubles(f, j)
  <2>1. \A k \in 0 .. j : k # 0 => k - 1 \in 0 .. j - 1
    BY <1>1
  <2>2. \A k \in 0 .. j : k # 0 => f[k] = 2 * f[k - 1]
    BY <1>4, <2>1
  <2> QED
    BY <2>2 DEF Doubles
<1> QED
  BY <1>1, <1>5

LEMMA PowerStep ==
  /\ Power[0] = 1
  /\ \A e \in 1 .. 30 : Power[e] = 2 * Power[e - 1]
<1>1. Power = CHOOSE g : Doubles(g, 30)
  BY Zenon DEF Power, Doubles
<1>2. Doubles(Power, 30)
  BY <1>1, DoublesExists
<1> HIDE DEF Power
<1> QED
  BY <1>2 DEF Doubles

LEMMA PowerIs ==
  ASSUME NEW e \in 0 .. 30
  PROVE  Power[e] \in Nat \ {0}
<1> DEFINE T == {j \in 0 .. 30 : Power[j] \notin Nat \ {0}}
<1> SUFFICES ASSUME T # {} PROVE FALSE
  OBVIOUS
<1>1. PICK j \in T : \A y \in T : j <= y
  <2> HIDE DEF T
  <2>1. T \in SUBSET Nat
    BY DEF T
  <2> QED
    BY <2>1, LeastNat
<1>2. j # 0
  BY PowerStep
<1>3. j - 1 \in 0 .. 30 /\ j - 1 < j /\ j \in 1 .. 30
  BY <1>1, <1>2
<1>4. Power[j - 1] \in Nat \ {0}
  BY <1>1, <1>3
<1> QED
  BY <1>3, <1>4, PowerStep

(* An odd factor of a multiple of a power of two can be left out.          *)
Divides(p, b) == \E d \in Int : b = p * d
DividesOut(p) ==
  \A a, b, c \in Int : a % 2 = 1 /\ a * b = p * c => Divides(p, b)

LEMMA OddFactorStep ==
  ASSUME NEW p \in Nat \ {0}, DividesOut(p)
  PROVE  DividesOut(2 * p)
<1> SUFFICES ASSUME NEW a \in Int, NEW b \in Int, NEW c \in Int,
                    a % 2 = 1, a * b = (2 * p) * c
             PROVE  Divides(2 * p, b)
  BY DEF DividesOut
<1>1. PICK g \in Int : a = 2 * g + 1
  <2>1. a = 2 * (a \div 2) + (a % 2) /\ a \div 2 \in Int
    BY ONLY a \in Int
  <2> QED
    BY <2>1
<1>2. PICK z \in Int : z = g * b
  OBVIOUS
<1>3. PICK y \in Int : y = p * c
  OBVIOUS
<1>4. a * b = 2 * z + b
  <2>1. (2 * g + 1) * b = 2 * (g * b) + b
    BY ONLY g \in Int, b \in Int
  <2> QED
    BY <1>1, <1>2, <2>1
<1>5. (2 * p) * c = 2 * y
  <2>1. (2 * p) * c = 2 * (p * c)
    BY ONLY p \in Nat, c \in Int
  <2> QED
    BY <1>3, <2>1
<1>6. b = 2 * (y - z) /\ y - z \in Int
  <2>1. 2 * z + b = 2 * y
    BY <1>4, <1>5
  <2> QED
    BY ONLY <2>1, b \in Int, y \in Int, z \in Int
<1>7. PICK f \in Int : f = y - z
  BY <1>6
<1>8. a * f = p * c
  <2>1. a * (2 * f) = 2 * (a * f) /\ a * f \in Int
    BY ONLY a \in Int, f \in Int
  <2>2. a * b = a * (2 * f)
    BY <1>6, <1>7
  <2>3. 2 * (a * f) = 2 * y
    BY <1>5, <2>1, <2>2
  <2>4. a * f = y
    BY ONLY <2>1, <2>3, y \in Int
  <2> QED
    BY <1>3, <2>4
<1>9. PICK d \in Int : f = p * d
  <2>1. Divides(p, f)
    BY ONLY <1>8, DividesOut(p), a % 2 = 1, a \in Int, f \in Int, c \in Int
    DEF DividesOut
  <2> QED
    BY ONLY <2>1 DEF Divides
<1>10. b = (2 * p) * d
  <2>1. 2 * (p * d) = (2 * p) * d
    BY ONLY p \in Nat, d \in Int
  <2> QED
    BY <1>6, <1>7, <1>9, <2>1
<1> QED
  BY ONLY <1>10, d \in Int DEF Divides

LEMMA OddFactor ==
  ASSUME NEW e \in 0 .. 30
  PROVE  DividesOut(Power[e])
<1> DEFINE T == {j \in 0 .. 30 : ~DividesOut(Power[j])}
<1> SUFFICES ASSUME T # {} PROVE FALSE
  OBVIOUS
<1>1. PICK j \in T : \A y \in T : j <= y
  <2> HIDE DEF T
  <2>1. T \in SUBSET Nat
    BY DEF T
  <2> QED
    BY <2>1, LeastNat
<1>2. j # 0
  <2>1. DividesOut(1)
    BY DEF DividesOut, Divides
  <2> QED
    BY <1>1, <2>1, PowerStep
<1>3. j - 1 \in 0 .. 30 /\ j - 1 < j /\ j \in 1 .. 30
  BY <1>1, <1>2
<1>4. DividesOut(Power[j - 1])
  BY <1>1, <1>3
<1>5. Power[j - 1] \in Nat \ {0} /\ Power[j] = 2 * Power[j - 1]
  BY <1>3, PowerIs, PowerStep
<1>6. DividesOut(2 * Power[j - 1])
  BY ONLY <1>4, <1>5, OddFactorStep
<1> QED
  BY <1>1, <1>5, <1>6

LEMMA NoMultiple ==
  ASSUME NEW p \in Nat \ {0}, NEW s \in 1 .. p - 1
  PROVE  ~Divides(p, s)
<1> SUFFICES ASSUME NEW d \in Int, s = p * d PROVE FALSE
  BY DEF Divides
<1>1. CASE d <= 0
  <2>1. p * d <= 0
    BY ONLY <1>1, p \in Nat, d \in Int
  <2> QED
    BY <2>1
<1>2. CASE d >= 1
  <2>1. p * d >= p
    BY ONLY <1>2, p \in Nat, d \in Int
  <2> QED
    BY <2>1
<1> QED
  BY <1>1, <1>2

-----------------------------------------------------------------------------
(* The probe sequence *)

(* How far the i-th bucket looked at is from the first.                    *)
Offset(i) == (i * (i + 1)) \div 2

LEMMA OffsetIs ==
  ASSUME NEW i \in Nat
  PROVE  Offset(i) \in Nat /\ 2 * Offset(i) = i * (i + 1)
<1>1. PICK x \in Nat : i * (i + 1) = 2 * x
  <2> DEFINE g == i \div 2
  <2>1. g \in Nat /\ (i = 2 * g \/ i = 2 * g + 1)
    OBVIOUS
  <2> HIDE DEF g
  <2>2. CASE i = 2 * g
    <3>1. (2 * g) * (i + 1) = 2 * (g * (i + 1)) /\ g * (i + 1) \in Nat
      BY ONLY <2>1, i \in Nat
    <3> QED
      BY <2>2, <3>1
  <2>3. CASE i = 2 * g + 1
    <3>1. i + 1 = 2 * (g + 1) /\ g + 1 \in Nat
      BY ONLY <2>1, <2>3
    <3>2. i * (2 * (g + 1)) = 2 * (i * (g + 1)) /\ i * (g + 1) \in Nat
      BY ONLY <3>1, i \in Nat
    <3> QED
      BY <3>1, <3>2
  <2> QED
    BY <2>1, <2>2, <2>3
<1>2. (2 * x) \div 2 = x
  OBVIOUS
<1> QED
  BY <1>1, <1>2 DEF Offset

LEMMA BucketCountIs ==
  ASSUME NEW n \in BucketCounts
  PROVE  /\ n \in Nat /\ n >= 4 /\ DividesOut(2 * n)
         /\ \E x \in Nat \ {0} : n = 4 * x
<1>1. PICK e \in 2 .. 30 : n = Power[e]
  BY DEF BucketCounts
<1>2. e \in 0 .. 30 /\ e \in 1 .. 30 /\ e - 1 \in 1 .. 30 /\ e - 2 \in 0 .. 30
      /\ e - 1 - 1 = e - 2
  OBVIOUS
<1>3. Power[e - 2] \in Nat \ {0} /\ Power[e] \in Nat \ {0} /\ DividesOut(Power[e])
  BY <1>2, PowerIs, OddFactor
<1>4. Power[e] = 2 * Power[e - 1] /\ Power[e - 1] = 2 * Power[e - 2]
  BY <1>2, PowerStep
<1>5. n = 4 * Power[e - 2]
  BY <1>1, <1>3, <1>4
<1>6. DividesOut(2 * n)
  BY <1>1, <1>3, OddFactorStep
<1> QED
  BY <1>1, <1>3, <1>5, <1>6

LEMMA OffsetsDiffer ==
  ASSUME NEW n \in Nat \ {0}, DividesOut(2 * n),
         NEW i \in 0 .. n - 1, NEW j \in 0 .. n - 1, i < j,
         NEW c \in Int, Offset(j) - Offset(i) = n * c
  PROVE  FALSE
<1> DEFINE a == j - i
           b == j + i + 1
<1>1. /\ a \in Int /\ b \in Int /\ i \in Nat /\ j \in Nat
      /\ a \in 1 .. 2 * n - 1 /\ b \in 1 .. 2 * n - 1
  OBVIOUS
<1>2. a * b = j * (j + 1) - i * (i + 1)
  BY ONLY <1>1 DEF a, b
<1>3. a * b = (2 * n) * c
  <2>1. /\ Offset(i) \in Nat /\ 2 * Offset(i) = i * (i + 1)
        /\ Offset(j) \in Nat /\ 2 * Offset(j) = j * (j + 1)
    BY ONLY <1>1, OffsetIs
  <2>2. (2 * n) * c = 2 * (n * c) /\ n * c \in Int
    BY ONLY n \in Nat, c \in Int
  <2> HIDE DEF a, b
  <2>3. j * (j + 1) - i * (i + 1) = 2 * (n * c)
    BY <2>1, <2>2
  <2> QED
    BY <1>2, <2>2, <2>3
<1>4. a % 2 = 1 \/ b % 2 = 1
  BY ONLY <1>1 DEF a, b
<1>5. b * a = a * b
  BY ONLY <1>1
<1>6. 2 * n \in Nat \ {0}
  OBVIOUS
<1> HIDE DEF a, b
<1>7. Divides(2 * n, a) \/ Divides(2 * n, b)
  BY <1>1, <1>3, <1>4, <1>5 DEF DividesOut
<1> QED
  BY ONLY <1>1, <1>6, <1>7, NoMultiple

LEMMA ProbeIs ==
  ASSUME NEW n \in BucketCounts, NEW key \in Keys, NEW i \in Nat
  PROVE  Probe(n, key, i) \in 0 .. n - 1 /\ Probe(n, key, i) = (Hash[key] + Offset(i)) % n
<1>1. n \in Nat \ {0}
  BY BucketCountIs
<1>2. Hash[key] \in Nat /\ Offset(i) \in Nat
  BY HashAssumption, OffsetIs
<1>3. Probe(n, key, i) = (Hash[key] + Offset(i)) % n
  BY DEF Probe, Offset
<1>4. (Hash[key] + Offset(i)) % n \in 0 .. n - 1
  <2>1. PICK x \in Nat : x = Hash[key] + Offset(i)
    BY <1>2
  <2> QED
    BY ONLY <1>1, <2>1, x \in Nat, ModDivision
<1> QED
  BY <1>3, <1>4

(* The probes of a key meet every bucket before they meet one again: this  *)
(* is what the growing step and the power of two are for.                  *)
LEMMA ProbeInjective ==
  ASSUME NEW n \in BucketCounts, NEW key \in Keys,
         NEW i \in 0 .. n - 1, NEW j \in 0 .. n - 1,
         Probe(n, key, i) = Probe(n, key, j)
  PROVE  i = j
<1>1. n \in Nat \ {0} /\ DividesOut(2 * n)
  BY BucketCountIs
<1>2. i \in Nat /\ j \in Nat
  BY <1>1
<1>3. Hash[key] \in Nat /\ Offset(i) \in Nat /\ Offset(j) \in Nat
  BY <1>2, HashAssumption, OffsetIs
<1>4. (Hash[key] + Offset(i)) % n = (Hash[key] + Offset(j)) % n
  BY <1>2, ProbeIs
<1>5. PICK x \in Nat, y \in Nat : x = Hash[key] + Offset(i) /\ y = Hash[key] + Offset(j)
  BY <1>3
<1>6. x % n = y % n
  BY <1>4, <1>5
<1>7. PICK c \in Int : y - x = n * c
  BY ONLY <1>1, <1>6, x \in Nat, y \in Nat, SameRemainder
<1>8. PICK d \in Int : x - y = n * d
  BY ONLY <1>1, <1>6, x \in Nat, y \in Nat, SameRemainder
<1>9. Offset(j) - Offset(i) = n * c /\ Offset(i) - Offset(j) = n * d
  BY <1>3, <1>5, <1>7, <1>8
<1>10. ~(i < j)
  BY ONLY <1>1, <1>9, i \in 0 .. n - 1, j \in 0 .. n - 1, c \in Int, OffsetsDiffer
<1>11. ~(j < i)
  BY ONLY <1>1, <1>9, i \in 0 .. n - 1, j \in 0 .. n - 1, d \in Int, OffsetsDiffer
<1> QED
  BY <1>2, <1>10, <1>11

(* So a set that is smaller than the table leaves one of them out.         *)
LEMMA ProbeLeaves ==
  ASSUME NEW n \in BucketCounts, NEW key \in Keys,
         NEW S \in SUBSET (0 .. n - 1), Cardinality(S) < n
  PROVE  \E i \in 0 .. n - 1 : Probe(n, key, i) \notin S
<1> SUFFICES ASSUME \A i \in 0 .. n - 1 : Probe(n, key, i) \in S PROVE FALSE
  OBVIOUS
<1>1. n \in Nat \ {0}
  BY BucketCountIs
<1>2. IsFiniteSet(0 .. n - 1) /\ Cardinality(0 .. n - 1) = n
  <2>1. 0 \in Int /\ n - 1 \in Int /\ ~(0 > n - 1) /\ n - 1 - 0 + 1 = n
    BY <1>1
  <2> QED
    BY <2>1, FS_Interval
<1>3. IsFiniteSet(S)
  BY <1>2, FS_Subset
<1> DEFINE f == [i \in 0 .. n - 1 |-> Probe(n, key, i)]
<1>4. f \in [0 .. n - 1 -> S]
  OBVIOUS
<1>5. \A i, j \in 0 .. n - 1 : f[i] = f[j] => i = j
  BY ProbeInjective
<1> HIDE DEF f
<1>6. PICK D : D = 0 .. n - 1
  OBVIOUS
<1>7. \E x, y \in D : x # y /\ f[x] = f[y]
  <2>1. IsFiniteSet(D) /\ IsFiniteSet(S) /\ Cardinality(S) < Cardinality(D) /\ f \in [D -> S]
    BY <1>2, <1>3, <1>4, <1>6
  <2> QED
    BY ONLY <2>1, FS_PigeonHole
<1> QED
  BY <1>5, <1>6, <1>7

-----------------------------------------------------------------------------
(* Tables *)

Entries == {"size", "freed"}
Bucket == {Empty, Deleted} \cup {Live(key, val) : key \in Keys, val \in Entries}

LEMMA BucketIs ==
  /\ ~IsLive(Empty) /\ ~IsLive(Deleted) /\ Empty # Deleted
  /\ \A b \in Bucket : IsLive(b) \/ b = Empty \/ b = Deleted
  /\ \A b \in Bucket : IsLive(b) => b.key \in Keys /\ b.val \in Entries
                                    /\ b = Live(b.key, b.val)
  /\ \A key \in Keys, val \in Entries :
       /\ Live(key, val) \in Bucket /\ IsLive(Live(key, val))
       /\ Live(key, val).key = key /\ Live(key, val).val = val
  /\ Empty \in Bucket /\ Deleted \in Bucket
<1>1. ~IsLive(Empty) /\ ~IsLive(Deleted) /\ Empty # Deleted
  BY DEF IsLive, Empty, Deleted
<1>2. \A key, val : /\ IsLive(Live(key, val))
                    /\ Live(key, val).key = key /\ Live(key, val).val = val
  BY DEF IsLive, Live
<1>3. ASSUME NEW b \in Bucket
      PROVE  b = Empty \/ b = Deleted
               \/ \E key \in Keys, val \in Entries : b = Live(key, val)
  BY DEF Bucket
<1>4. \A key \in Keys, val \in Entries : Live(key, val) \in Bucket
  BY DEF Bucket
<1>5. Empty \in Bucket /\ Deleted \in Bucket
  BY DEF Bucket
<1>6. ASSUME NEW b \in Bucket, IsLive(b)
      PROVE  b.key \in Keys /\ b.val \in Entries /\ b = Live(b.key, b.val)
  BY <1>1, <1>2, <1>3, <1>6
<1> QED
  BY <1>1, <1>2, <1>3, <1>4, <1>5, <1>6

LiveIn(B) == {b \in DOMAIN B : IsLive(B[b])}
OccupiedIn(B) == {b \in DOMAIN B : B[b] # Empty}

(* The search for the key passes its first i buckets.                      *)
Passes(n, B, key, i) == \A j \in 0 .. i - 1 : B[Probe(n, key, j)] # Empty

(* The search for what bucket b holds comes to b.                          *)
Reached(n, B, b) ==
  \E i \in 0 .. n - 1 : Probe(n, B[b].key, i) = b /\ Passes(n, B, B[b].key, i)

AllReached(n, B) == \A b \in LiveIn(B) : Reached(n, B, b)
AllDiffer(B) == \A a, b \in LiveIn(B) : B[a].key = B[b].key => a = b

(* What holds of a table between two calls.                                *)
WellFormed(t) ==
  /\ t = [n_buckets |-> t.n_buckets, size |-> t.size, n_occupied |-> t.n_occupied,
          upper_bound |-> t.upper_bound, buckets |-> t.buckets]
  /\ t.n_buckets \in {0} \cup BucketCounts
  /\ t.buckets \in [0 .. t.n_buckets - 1 -> Bucket]
  /\ AllReached(t.n_buckets, t.buckets) /\ AllDiffer(t.buckets)
  /\ t.size = Cardinality(LiveIn(t.buckets))
  /\ t.n_occupied = Cardinality(OccupiedIn(t.buckets))
  /\ t.upper_bound = IF t.n_buckets = 0 THEN 0 ELSE UpperBound(t.n_buckets)
  /\ t.n_occupied <= t.upper_bound

(* The inductive invariant.                                                *)
KHInv == WellFormed(h) /\ ret \in {-1, 0, 1, 2}

LEMMA UpperBoundIs ==
  ASSUME NEW n \in BucketCounts
  PROVE  UpperBound(n) \in Nat /\ UpperBound(n) < n /\ UpperBound(n) >= 3
<1>1. n \in Nat /\ n >= 4
  BY BucketCountIs
<1> QED
  BY <1>1 DEF UpperBound

LEMMA BucketsFinite ==
  ASSUME NEW n \in {0} \cup BucketCounts, NEW B \in [0 .. n - 1 -> Bucket]
  PROVE  /\ IsFiniteSet(LiveIn(B)) /\ Cardinality(LiveIn(B)) \in Nat
         /\ IsFiniteSet(OccupiedIn(B)) /\ Cardinality(OccupiedIn(B)) \in Nat
         /\ LiveIn(B) \subseteq OccupiedIn(B) /\ OccupiedIn(B) \subseteq 0 .. n - 1
         /\ Cardinality(LiveIn(B)) <= Cardinality(OccupiedIn(B))
<1>1. n \in Nat
  BY BucketCountIs
<1>2. IsFiniteSet(0 .. n - 1)
  <2>1. 0 \in Int /\ n - 1 \in Int
    BY <1>1
  <2> QED
    BY <2>1, FS_Interval
<1>3. LiveIn(B) \subseteq OccupiedIn(B) /\ OccupiedIn(B) \subseteq 0 .. n - 1
  BY BucketIs DEF LiveIn, OccupiedIn
<1>4. IsFiniteSet(OccupiedIn(B))
  BY <1>2, <1>3, FS_Subset
<1>5. IsFiniteSet(LiveIn(B)) /\ Cardinality(LiveIn(B)) <= Cardinality(OccupiedIn(B))
  BY <1>3, <1>4, FS_Subset
<1> QED
  BY <1>3, <1>4, <1>5, FS_CardinalityType

(* Where a search ends                                                     *)
LEMMA SearchEnds ==
  ASSUME NEW t, NEW n \in BucketCounts, NEW B \in [0 .. n - 1 -> Bucket],
         t.n_buckets = n, t.buckets = B, Cardinality(OccupiedIn(B)) < n,
         NEW key \in Keys
  PROVE  LET e == ProbeEnd(t, key)
         IN  /\ e \in 0 .. n - 1
             /\ B[Probe(n, key, e)] = Empty \/ Holds(B[Probe(n, key, e)], key)
             /\ \A j \in 0 .. e - 1 : /\ B[Probe(n, key, j)] # Empty
                                      /\ ~Holds(B[Probe(n, key, j)], key)
<1>1. n \in Nat /\ n >= 4
  BY BucketCountIs
<1> DEFINE Stop(i) == B[Probe(n, key, i)] = Empty \/ Holds(B[Probe(n, key, i)], key)
           T == {i \in 0 .. n - 1 : Stop(i)}
<1>2. T # {}
  <2>1. OccupiedIn(B) \in SUBSET (0 .. n - 1)
    BY BucketsFinite
  <2>2. PICK i \in 0 .. n - 1 : Probe(n, key, i) \notin OccupiedIn(B)
    BY <2>1, ProbeLeaves
  <2>3. Probe(n, key, i) \in 0 .. n - 1
    BY <1>1, ProbeIs
  <2>4. B[Probe(n, key, i)] = Empty
    BY <2>2, <2>3 DEF OccupiedIn
  <2> QED
    BY <2>4
<1>3. PICK m \in T : \A y \in T : m <= y
  <2>1. T \in SUBSET Nat
    BY <1>1
  <2> HIDE DEF T
  <2> QED
    BY <1>2, <2>1, LeastNat
<1>4. m \in 0 .. n - 1 /\ Stop(m) /\ \A j \in 0 .. m - 1 : ~Stop(j)
  <2>1. \A j \in 0 .. m - 1 : j \in 0 .. n - 1 /\ ~(m <= j)
    BY <1>1, <1>3
  <2> QED
    BY <1>3, <2>1
<1> HIDE DEF T
<1> DEFINE Ends(i) == Stop(i) \/ (i > 0 /\ Probe(n, key, i) = Probe(n, key, 0))
           First(i) == Ends(i) /\ \A j \in 0 .. i - 1 : ~Ends(j)
<1>5. ProbeEnd(t, key) = CHOOSE i \in 0 .. 2 * n : First(i)
  BY DEF ProbeEnd
<1>6. First(m)
  <2>1. ASSUME NEW j \in 0 .. m - 1 PROVE ~Ends(j)
    <3>1. j \in 0 .. n - 1 /\ 0 \in 0 .. n - 1
      BY <1>1, <1>4
    <3>2. j > 0 => Probe(n, key, j) # Probe(n, key, 0)
      BY <3>1, ProbeInjective
    <3> QED
      BY <1>4, <3>2
  <2> QED
    BY <1>4, <2>1
<1>7. m \in 0 .. 2 * n
  BY <1>1, <1>4
<1> HIDE DEF Stop
<1>8. ASSUME NEW i \in 0 .. 2 * n, First(i) PROVE i = m
  <2>1. i < m => i \in 0 .. m - 1
    BY <1>1, <1>4
  <2>2. m < i => m \in 0 .. i - 1
    BY <1>1, <1>4
  <2>3. i \in Int /\ m \in Int
    BY <1>1, <1>4
  <2> HIDE DEF Ends
  <2>4. ~(i < m) /\ ~(m < i)
    BY <1>6, <1>8, <2>1, <2>2
  <2> QED
    BY <2>3, <2>4
<1> HIDE DEF First
<1>9. ProbeEnd(t, key) = m
  BY <1>5, <1>6, <1>7, <1>8
<1> QED
  BY <1>4, <1>9 DEF Stop

(* kh_get finds the bucket of a key that is in the table, and no other.    *)
LEMMA GetFinds ==
  ASSUME NEW t, WellFormed(t), NEW key \in Keys
  PROVE  /\ \A b \in LiveIn(t.buckets) : t.buckets[b].key = key => kh_get(t, key) = b
         /\ (\A b \in LiveIn(t.buckets) : t.buckets[b].key # key)
              => kh_get(t, key) = t.n_buckets
         /\ \A b \in LiveIn(t.buckets) : b # t.n_buckets
<1> DEFINE n == t.n_buckets
           B == t.buckets
<1>1. CASE n = 0
  <2>1. LiveIn(B) = {}
    BY <1>1 DEF WellFormed, LiveIn
  <2> QED
    BY <1>1, <2>1 DEF kh_get
<1>2. CASE n # 0
  <2>1. n \in BucketCounts /\ n \in Nat /\ B \in [0 .. n - 1 -> Bucket]
        /\ AllReached(n, B) /\ AllDiffer(B)
    BY <1>2, BucketCountIs DEF WellFormed
  <2>2. Cardinality(OccupiedIn(B)) < n
    <3>1. /\ Cardinality(OccupiedIn(B)) \in Nat /\ UpperBound(n) \in Nat
          /\ UpperBound(n) < n
      BY <2>1, BucketsFinite, UpperBoundIs
    <3>2. Cardinality(OccupiedIn(B)) <= UpperBound(n)
      BY <1>2 DEF WellFormed
    <3> QED
      BY <2>1, <3>1, <3>2
  <2> DEFINE e == ProbeEnd(t, key)
             x == Probe(n, key, e)
  <2> HIDE DEF n, B
  <2>3. /\ e \in 0 .. n - 1 /\ (B[x] = Empty \/ Holds(B[x], key))
        /\ \A j \in 0 .. e - 1 : /\ B[Probe(n, key, j)] # Empty
                                 /\ ~Holds(B[Probe(n, key, j)], key)
    <3>1. t.n_buckets = n /\ t.buckets = B
      BY DEF n, B
    <3> QED
      BY ONLY <2>1, <2>2, <3>1, key \in Keys, SearchEnds
  <2>4. kh_get(t, key) = IF Holds(B[x], key) THEN x ELSE n
    BY <1>2 DEF kh_get, n, B
  <2>5. x \in 0 .. n - 1
    BY <2>1, <2>3, ProbeIs
  <2> HIDE DEF e, x
  <2>6. ASSUME NEW b \in LiveIn(B), B[b].key = key
        PROVE  kh_get(t, key) = b
    <3>1. PICK i \in 0 .. n - 1 : Probe(n, key, i) = b /\ Passes(n, B, key, i)
      BY <2>1, <2>6 DEF AllReached, Reached
    <3>2. Holds(B[b], key)
      BY <2>6 DEF LiveIn, Holds
    <3>3. ~(i < e)
      <4>1. i < e => i \in 0 .. e - 1
        BY <2>1, <2>3
      <4> QED
        BY <2>3, <3>1, <3>2, <4>1
    <3>4. e < i => B[x] # Empty
      <4>1. e < i => e \in 0 .. i - 1
        BY <2>1, <2>3
      <4> QED
        BY <3>1, <4>1 DEF Passes, x
    <3>5. e = i => x = b
      BY <3>1 DEF x
    <3>6. Holds(B[x], key)
      BY <2>1, <2>3, <3>2, <3>3, <3>4, <3>5
    <3>7. x = b
      BY <2>1, <2>5, <2>6, <3>6 DEF AllDiffer, LiveIn, Holds
    <3> QED
      BY <2>4, <3>6, <3>7
  <2>7. ASSUME \A b \in LiveIn(B) : B[b].key # key PROVE kh_get(t, key) = n
    <3>1. ~Holds(B[x], key)
      BY <2>1, <2>5, <2>7 DEF LiveIn, Holds
    <3> QED
      BY <2>4, <3>1
  <2>8. \A b \in LiveIn(B) : b # n
    BY <2>1 DEF LiveIn
  <2> QED
    BY <2>6, <2>7, <2>8 DEF n, B
<1> QED
  BY <1>1, <1>2

(* What is in the table, and what kmalloc reads of it.                     *)
Contents(B) == {B[b] : b \in LiveIn(B)}
Find(t, key) ==
  IF kh_get(t, key) = t.n_buckets THEN "absent" ELSE t.buckets[kh_get(t, key)].val

LEMMA FindIs ==
  ASSUME NEW t, WellFormed(t), NEW key \in Keys
  PROVE  /\ \A r \in Contents(t.buckets) : r.key = key => Find(t, key) = r.val
         /\ (\A r \in Contents(t.buckets) : r.key # key) => Find(t, key) = "absent"
<1>1. ASSUME NEW r \in Contents(t.buckets), r.key = key PROVE Find(t, key) = r.val
  <2>1. PICK b \in LiveIn(t.buckets) : r = t.buckets[b]
    BY <1>1 DEF Contents
  <2>2. kh_get(t, key) = b /\ b # t.n_buckets
    BY <1>1, <2>1, GetFinds
  <2> QED
    BY <2>1, <2>2 DEF Find
<1>2. ASSUME \A r \in Contents(t.buckets) : r.key # key PROVE Find(t, key) = "absent"
  <2>1. \A b \in LiveIn(t.buckets) : t.buckets[b].key # key
    BY <1>2 DEF Contents
  <2>2. kh_get(t, key) = t.n_buckets
    BY <2>1, GetFinds
  <2> QED
    BY <2>2 DEF Find
<1> QED
  BY <1>1, <1>2

(* Tables with the same contents are the same map.                         *)
LEMMA SameContents ==
  ASSUME NEW t, WellFormed(t), NEW u, WellFormed(u),
         Contents(t.buckets) = Contents(u.buckets), NEW key \in Keys
  PROVE  Find(t, key) = Find(u, key)
<1>1. CASE \E r \in Contents(t.buckets) : r.key = key
  BY <1>1, FindIs
<1>2. CASE \A r \in Contents(t.buckets) : r.key # key
  BY <1>2, FindIs
<1> QED
  BY <1>1, <1>2

(* A table never runs full.                                                *)
LEMMA HasEmpty ==
  ASSUME NEW t, WellFormed(t), t.n_buckets # 0
  PROVE  /\ t.n_buckets \in BucketCounts /\ t.n_buckets \in Nat
         /\ t.buckets \in [0 .. t.n_buckets - 1 -> Bucket]
         /\ Cardinality(OccupiedIn(t.buckets)) < t.n_buckets
<1> DEFINE n == t.n_buckets
           B == t.buckets
<1>1. n \in BucketCounts /\ n \in Nat /\ B \in [0 .. n - 1 -> Bucket]
  BY BucketCountIs DEF WellFormed
<1>2. /\ Cardinality(OccupiedIn(B)) \in Nat /\ UpperBound(n) \in Nat
      /\ UpperBound(n) < n
  BY <1>1, BucketsFinite, UpperBoundIs
<1>3. Cardinality(OccupiedIn(B)) <= UpperBound(n)
  BY DEF WellFormed
<1> QED
  BY <1>1, <1>2, <1>3

(* Buckets that fill up hide nothing.                                      *)
LEMMA ReachedKept ==
  ASSUME NEW n \in BucketCounts,
         NEW B \in [0 .. n - 1 -> Bucket], NEW C \in [0 .. n - 1 -> Bucket],
         \A b \in 0 .. n - 1 : B[b] # Empty => C[b] # Empty,
         NEW b \in 0 .. n - 1, B[b].key \in Keys, C[b].key = B[b].key,
         Reached(n, B, b)
  PROVE  Reached(n, C, b)
<1>1. n \in Nat
  BY BucketCountIs
<1>2. PICK i \in 0 .. n - 1 : Probe(n, B[b].key, i) = b /\ Passes(n, B, B[b].key, i)
  BY DEF Reached
<1>3. ASSUME NEW j \in 0 .. i - 1 PROVE C[Probe(n, B[b].key, j)] # Empty
  <2>1. j \in Nat
    BY <1>1
  <2>2. Probe(n, B[b].key, j) \in 0 .. n - 1
    BY <2>1, ProbeIs
  <2> QED
    BY <1>2, <2>2 DEF Passes
<1>4. Passes(n, C, C[b].key, i)
  BY <1>3 DEF Passes
<1> QED
  BY <1>2, <1>4 DEF Reached

(* Where kh_put puts a key: on itself or, if it is not there, on a bucket  *)
(* that the search for it comes to.                                        *)
LEMMA PutBucketIs ==
  ASSUME NEW t, WellFormed(t), t.n_buckets # 0, NEW key \in Keys
  PROVE  LET B == t.buckets
             n == t.n_buckets
             x == PutBucket(t, key)
         IN  /\ x \in 0 .. n - 1
             /\ \/ Holds(B[x], key)
                \/ /\ ~IsLive(B[x]) /\ \A b \in LiveIn(B) : B[b].key # key
                   /\ \E i \in 0 .. n - 1 : Probe(n, key, i) = x /\ Passes(n, B, key, i)
<1> DEFINE n == t.n_buckets
           B == t.buckets
           e == ProbeEnd(t, key)
           site == {i \in 0 .. e - 1 : B[Probe(n, key, i)] = Deleted}
<1>1. n \in BucketCounts /\ n \in Nat /\ B \in [0 .. n - 1 -> Bucket]
      /\ Cardinality(OccupiedIn(B)) < n
  BY HasEmpty
<1>2. PutBucket(t, key) = IF Holds(B[Probe(n, key, e)], key) \/ site = {}
                            THEN Probe(n, key, e) ELSE Probe(n, key, Max(site))
  BY DEF PutBucket
<1>3. AllReached(n, B) /\ AllDiffer(B)
  BY DEF WellFormed
<1>4. t.n_buckets = n /\ t.buckets = B
  OBVIOUS
<1> HIDE DEF n, B
<1>5. /\ e \in 0 .. n - 1
      /\ (B[Probe(n, key, e)] = Empty \/ Holds(B[Probe(n, key, e)], key))
      /\ \A j \in 0 .. e - 1 : /\ B[Probe(n, key, j)] # Empty
                               /\ ~Holds(B[Probe(n, key, j)], key)
  BY ONLY <1>1, <1>4, key \in Keys, SearchEnds
<1> HIDE DEF e
<1>6. \A i \in 0 .. n - 1 : Probe(n, key, i) \in 0 .. n - 1
  BY <1>1, ProbeIs
<1>7. \A i \in 0 .. e : Passes(n, B, key, i) /\ i \in 0 .. n - 1
  BY <1>1, <1>5 DEF Passes
<1>8. CASE Holds(B[Probe(n, key, e)], key)
  BY <1>2, <1>5, <1>6, <1>8 DEF n, B
<1>9. CASE ~Holds(B[Probe(n, key, e)], key)
  <2>1. B[Probe(n, key, e)] = Empty
    BY <1>5, <1>9
  <2>2. ASSUME NEW b \in LiveIn(B), B[b].key = key PROVE FALSE
    <3>1. PICK i \in 0 .. n - 1 : Probe(n, key, i) = b /\ Passes(n, B, key, i)
      BY <1>3, <2>2 DEF AllReached, Reached
    <3>2. Holds(B[b], key)
      BY <2>2 DEF LiveIn, Holds
    <3>3. ~(i < e)
      <4>1. i < e => i \in 0 .. e - 1
        BY <1>1, <1>5
      <4> QED
        BY <1>5, <3>1, <3>2, <4>1
    <3>4. ~(e < i)
      <4>1. e < i => e \in 0 .. i - 1
        BY <1>1, <1>5
      <4> QED
        BY <2>1, <3>1, <4>1 DEF Passes
    <3>5. e = i
      BY <1>1, <1>5, <3>3, <3>4
    <3> QED
      BY <1>9, <3>1, <3>2, <3>5
  <2>3. PICK i \in 0 .. e : PutBucket(t, key) = Probe(n, key, i) /\ ~IsLive(B[Probe(n, key, i)])
    <3>1. CASE site = {}
      <4>1. e \in 0 .. e
        BY <1>1, <1>5
      <4> QED
        BY <1>2, <2>1, <3>1, <4>1, BucketIs
    <3>2. CASE site # {}
      <4>1. Max(site) \in site
        <5>1. \E x \in site : \A y \in site : x >= y
          <6> DEFINE T == {z \in Nat : e - z \in site}
          <6>1. PICK y \in site : TRUE
            BY <3>2
          <6>2. e - y \in Nat /\ e - (e - y) = y
            BY <1>1, <1>5
          <6>3. T # {} /\ T \in SUBSET Nat
            BY <6>2
          <6> HIDE DEF T
          <6>4. PICK z \in T : \A w \in T : z <= w
            BY <6>3, LeastNat
          <6>5. e - z \in site
            BY DEF T
          <6>6. ASSUME NEW w \in site PROVE e - z >= w
            <7>1. e - w \in Nat /\ e - (e - w) = w
              BY <1>1, <1>5
            <7>2. e - w \in T
              BY <7>1 DEF T
            <7>3. z <= e - w /\ z \in Nat
              BY <6>4, <7>2 DEF T
            <7> QED
              BY <1>1, <1>5, <7>3
          <6> QED
            BY <6>5, <6>6
        <5> HIDE DEF site
        <5> QED
          BY <5>1 DEF Max
      <4>2. Max(site) \in 0 .. e /\ B[Probe(n, key, Max(site))] = Deleted
        BY <1>1, <1>5, <4>1
      <4>3. PICK i \in 0 .. e : i = Max(site)
        BY <4>2
      <4>4. PutBucket(t, key) = Probe(n, key, i)
        BY ONLY <1>2, <1>9, <3>2, <4>3
      <4>5. ~IsLive(Deleted)
        BY BucketIs
      <4>6. ~IsLive(B[Probe(n, key, i)])
        BY ONLY <4>2, <4>3, <4>5
      <4> QED
        BY ONLY <4>3, <4>4, <4>6
    <3> QED
      BY <3>1, <3>2
  <2>4. i \in 0 .. n - 1 /\ Passes(n, B, key, i) /\ Probe(n, key, i) \in 0 .. n - 1
    BY <1>6, <1>7
  <2> QED
    BY <2>2, <2>3, <2>4 DEF n, B
<1> QED
  BY <1>8, <1>9

TableOf(n, s, o, B) ==
  [n_buckets |-> n, size |-> s, n_occupied |-> o, upper_bound |-> UpperBound(n),
   buckets |-> B]

LEMMA TableIs ==
  ASSUME NEW n \in BucketCounts, NEW B \in [0 .. n - 1 -> Bucket], NEW s, NEW o,
         AllReached(n, B), AllDiffer(B),
         s = Cardinality(LiveIn(B)), o = Cardinality(OccupiedIn(B)), o <= UpperBound(n)
  PROVE  /\ WellFormed(TableOf(n, s, o, B)) /\ TableOf(n, s, o, B).buckets = B
         /\ TableOf(n, s, o, B).n_buckets = n
<1>1. n # 0
  BY BucketCountIs
<1>2. /\ TableOf(n, s, o, B).n_buckets = n /\ TableOf(n, s, o, B).size = s
      /\ TableOf(n, s, o, B).n_occupied = o /\ TableOf(n, s, o, B).buckets = B
      /\ TableOf(n, s, o, B).upper_bound = UpperBound(n)
  BY DEF TableOf
<1>3. TableOf(n, s, o, B) =
        [n_buckets |-> n, size |-> s, n_occupied |-> o,
         upper_bound |-> UpperBound(n), buckets |-> B]
  BY DEF TableOf
<1> QED
  BY <1>1, <1>2, <1>3 DEF WellFormed

LEMMA TableParts ==
  ASSUME NEW t, WellFormed(t), t.n_buckets # 0
  PROVE  /\ t = TableOf(t.n_buckets, t.size, t.n_occupied, t.buckets)
         /\ t.n_buckets \in BucketCounts /\ t.buckets \in [0 .. t.n_buckets - 1 -> Bucket]
         /\ AllReached(t.n_buckets, t.buckets) /\ AllDiffer(t.buckets)
         /\ t.size = Cardinality(LiveIn(t.buckets)) /\ t.size \in Nat
         /\ t.n_occupied = Cardinality(OccupiedIn(t.buckets)) /\ t.n_occupied \in Nat
         /\ t.n_occupied <= UpperBound(t.n_buckets)
<1>1. t.n_buckets \in BucketCounts /\ t.buckets \in [0 .. t.n_buckets - 1 -> Bucket]
  BY DEF WellFormed
<1>2. /\ Cardinality(LiveIn(t.buckets)) \in Nat
      /\ Cardinality(OccupiedIn(t.buckets)) \in Nat
  BY <1>1, BucketsFinite
<1> QED
  BY <1>1, <1>2 DEF WellFormed, TableOf

(* C is B with the key added in x, its value set in x, or deleted from x.  *)
Sound(n, C) == C \in [0 .. n - 1 -> Bucket] /\ AllReached(n, C) /\ AllDiffer(C)
Inserted(B, C, x, key) ==
  /\ LiveIn(C) = LiveIn(B) \cup {x} /\ x \notin LiveIn(B)
  /\ OccupiedIn(C) = OccupiedIn(B) \cup {x}
  /\ (x \in OccupiedIn(B) <=> B[x] # Empty)
  /\ Contents(C) = Contents(B) \cup {Live(key, "size")}
Updated(B, C, x, val) ==
  /\ LiveIn(C) = LiveIn(B) /\ OccupiedIn(C) = OccupiedIn(B)
  /\ Contents(C) = {r \in Contents(B) : r.key # B[x].key} \cup {Live(B[x].key, val)}
Removed(B, C, x) ==
  /\ LiveIn(C) = LiveIn(B) \ {x} /\ OccupiedIn(C) = OccupiedIn(B)
  /\ Contents(C) = {r \in Contents(B) : r.key # B[x].key}

(* A key that is not in the table is added in a bucket its search comes to.*)
LEMMA InsertKey ==
  ASSUME NEW n \in BucketCounts, NEW B \in [0 .. n - 1 -> Bucket],
         AllReached(n, B), AllDiffer(B), NEW key \in Keys,
         NEW x \in 0 .. n - 1, ~IsLive(B[x]), \A b \in LiveIn(B) : B[b].key # key,
         NEW i \in 0 .. n - 1, Probe(n, key, i) = x, Passes(n, B, key, i),
         NEW C, C = [B EXCEPT ![x] = Live(key, "size")]
  PROVE  Sound(n, C) /\ Inserted(B, C, x, key)
<1> DEFINE r == Live(key, "size")
<1>1. r \in Bucket /\ IsLive(r) /\ r.key = key /\ r # Empty
  BY BucketIs DEF Entries
<1>2. C \in [0 .. n - 1 -> Bucket] /\ C[x] = r /\ \A b \in 0 .. n - 1 : b # x => C[b] = B[b]
  BY <1>1
<1> HIDE DEF r
<1>3. LiveIn(C) = LiveIn(B) \cup {x} /\ x \notin LiveIn(B)
  BY <1>1, <1>2 DEF LiveIn
<1>4. OccupiedIn(C) = OccupiedIn(B) \cup {x} /\ (x \in OccupiedIn(B) <=> B[x] # Empty)
  BY <1>1, <1>2 DEF OccupiedIn
<1>5. \A b \in LiveIn(B) : C[b] = B[b] /\ b \in 0 .. n - 1 /\ b # x /\ B[b].key \in Keys
  BY <1>2, <1>3, BucketIs DEF LiveIn
<1>6. AllDiffer(C)
  BY <1>1, <1>2, <1>3, <1>5 DEF AllDiffer
<1>7. Contents(C) = Contents(B) \cup {r}
  <2>1. ASSUME NEW q \in Contents(C) PROVE q \in Contents(B) \cup {r}
    <3>1. PICK b \in LiveIn(C) : q = C[b]
      BY DEF Contents
    <3>2. b = x \/ b \in LiveIn(B)
      BY <1>3
    <3> QED
      BY <1>2, <1>5, <3>1, <3>2 DEF Contents
  <2>2. r \in Contents(C)
    BY <1>2, <1>3 DEF Contents
  <2>3. ASSUME NEW q \in Contents(B) PROVE q \in Contents(C)
    BY <1>3, <1>5 DEF Contents
  <2> QED
    BY <2>1, <2>2, <2>3
<1>8. \A b \in 0 .. n - 1 : B[b] # Empty => C[b] # Empty
  BY <1>1, <1>2
<1>9. ASSUME NEW b \in LiveIn(C) PROVE Reached(n, C, b)
  <2>1. CASE b = x
    <3>1. \A j \in 0 .. i - 1 : C[Probe(n, key, j)] # Empty
      <4>1. \A j \in 0 .. i - 1 : j \in Nat
        BY BucketCountIs
      <4>2. \A j \in 0 .. i - 1 : Probe(n, key, j) \in 0 .. n - 1
        BY <4>1, ProbeIs
      <4> QED
        BY <1>8, <4>2 DEF Passes
    <3> QED
      BY <1>1, <1>2, <2>1, <3>1 DEF Reached, Passes
  <2>2. CASE b # x
    <3>1. b \in LiveIn(B)
      BY <1>3, <2>2
    <3>2. Reached(n, B, b) /\ b \in 0 .. n - 1 /\ B[b].key \in Keys /\ C[b].key = B[b].key
      BY <1>5, <3>1 DEF AllReached
    <3>3. C \in [0 .. n - 1 -> Bucket]
      BY <1>2
    <3> QED
      BY ONLY <1>8, <3>2, <3>3, ReachedKept, n \in BucketCounts,
              B \in [0 .. n - 1 -> Bucket]
  <2> QED
    BY <2>1, <2>2
<1> QED
  BY <1>2, <1>3, <1>4, <1>6, <1>7, <1>9 DEF AllReached, Sound, Inserted, r

(* The value of a key that is in the table is set.                         *)
LEMMA SetValue ==
  ASSUME NEW n \in BucketCounts, NEW B \in [0 .. n - 1 -> Bucket],
         AllReached(n, B), AllDiffer(B), NEW x \in LiveIn(B), NEW val \in Entries,
         NEW C, C = [B EXCEPT ![x] = Live(B[x].key, val)]
  PROVE  Sound(n, C) /\ Updated(B, C, x, val)
<1> DEFINE key == B[x].key
           s == Live(key, val)
<1>1. x \in 0 .. n - 1 /\ IsLive(B[x]) /\ key \in Keys
  BY BucketIs DEF LiveIn
<1>2. s \in Bucket /\ IsLive(s) /\ s.key = key /\ s # Empty /\ B[x] # Empty
  BY <1>1, BucketIs
<1>3. C \in [0 .. n - 1 -> Bucket] /\ C[x] = s /\ \A b \in 0 .. n - 1 : b # x => C[b] = B[b]
  BY <1>1, <1>2
<1> HIDE DEF s
<1>4. LiveIn(C) = LiveIn(B) /\ OccupiedIn(C) = OccupiedIn(B)
  BY <1>1, <1>2, <1>3 DEF LiveIn, OccupiedIn
<1>5. \A b \in LiveIn(B) : b \in 0 .. n - 1 /\ C[b].key = B[b].key /\ B[b].key \in Keys
  BY <1>2, <1>3, BucketIs DEF LiveIn
<1>6. AllDiffer(C)
  BY <1>4, <1>5 DEF AllDiffer
<1>7. \A b \in 0 .. n - 1 : B[b] # Empty => C[b] # Empty
  BY <1>2, <1>3
<1>8. AllReached(n, C)
  <2>1. ASSUME NEW b \in LiveIn(B) PROVE Reached(n, C, b)
    <3>1. Reached(n, B, b) /\ b \in 0 .. n - 1 /\ B[b].key \in Keys /\ C[b].key = B[b].key
      BY <1>5 DEF AllReached
    <3> QED
      BY <1>3, <1>7, <3>1, ReachedKept
  <2> QED
    BY <1>4, <2>1 DEF AllReached
<1>9. Contents(C) = {r \in Contents(B) : r.key # key} \cup {s}
  <2>1. ASSUME NEW b \in LiveIn(B), b # x PROVE C[b] = B[b] /\ B[b].key # key
    BY <1>3, <1>5, <2>1 DEF AllDiffer
  <2>2. ASSUME NEW r \in Contents(C) PROVE r = s \/ (r \in Contents(B) /\ r.key # key)
    BY <1>3, <1>4, <2>1 DEF Contents
  <2>3. s \in Contents(C)
    BY <1>3, <1>4 DEF Contents
  <2>4. ASSUME NEW r \in Contents(B), r.key # key PROVE r \in Contents(C)
    <3>1. PICK b \in LiveIn(B) : r = B[b]
      BY DEF Contents
    <3>2. b # x
      BY <2>4, <3>1
    <3> QED
      BY <1>4, <2>1, <3>1, <3>2 DEF Contents
  <2> QED
    BY <2>2, <2>3, <2>4
<1> QED
  BY <1>3, <1>4, <1>6, <1>8, <1>9 DEF Sound, Updated, s

(* A key is deleted.                                                       *)
LEMMA DeleteKey ==
  ASSUME NEW n \in BucketCounts, NEW B \in [0 .. n - 1 -> Bucket],
         AllReached(n, B), AllDiffer(B), NEW x \in LiveIn(B),
         NEW C, C = [B EXCEPT ![x] = Deleted]
  PROVE  Sound(n, C) /\ Removed(B, C, x)
<1>1. x \in 0 .. n - 1 /\ IsLive(B[x]) /\ B[x] # Empty
  BY BucketIs DEF LiveIn
<1>2. Deleted \in Bucket /\ ~IsLive(Deleted) /\ Deleted # Empty
  BY BucketIs
<1>3. C \in [0 .. n - 1 -> Bucket] /\ C[x] = Deleted
      /\ \A b \in 0 .. n - 1 : b # x => C[b] = B[b]
  BY <1>1, <1>2
<1>4. LiveIn(C) = LiveIn(B) \ {x} /\ OccupiedIn(C) = OccupiedIn(B)
  BY <1>1, <1>2, <1>3 DEF LiveIn, OccupiedIn
<1>5. \A b \in LiveIn(C) : b \in 0 .. n - 1 /\ b \in LiveIn(B) /\ C[b] = B[b] /\ B[b].key \in Keys
  BY <1>3, <1>4, BucketIs DEF LiveIn
<1>6. AllDiffer(C)
  BY <1>5 DEF AllDiffer
<1>7. \A b \in 0 .. n - 1 : B[b] # Empty => C[b] # Empty
  BY <1>2, <1>3
<1>8. AllReached(n, C)
  <2>1. ASSUME NEW b \in LiveIn(C) PROVE Reached(n, C, b)
    <3>1. Reached(n, B, b) /\ b \in 0 .. n - 1 /\ B[b].key \in Keys /\ C[b].key = B[b].key
      BY <1>5 DEF AllReached
    <3> QED
      BY <1>3, <1>7, <3>1, ReachedKept
  <2> QED
    BY <2>1 DEF AllReached
<1>9. Contents(C) = {r \in Contents(B) : r.key # B[x].key}
  <2>1. ASSUME NEW r \in Contents(C) PROVE r \in Contents(B) /\ r.key # B[x].key
    BY <1>4, <1>5 DEF Contents, AllDiffer
  <2>2. ASSUME NEW r \in Contents(B), r.key # B[x].key PROVE r \in Contents(C)
    <3>1. PICK b \in LiveIn(B) : r = B[b]
      BY DEF Contents
    <3>2. b \in LiveIn(C)
      BY <1>4, <2>2, <3>1
    <3> QED
      BY <1>5, <3>1, <3>2 DEF Contents
  <2> QED
    BY <2>1, <2>2
<1> QED
  BY <1>3, <1>4, <1>6, <1>8, <1>9 DEF Sound, Removed

-----------------------------------------------------------------------------
(* Rehashing *)

LEMMA MinIn ==
  ASSUME NEW T \in SUBSET Nat, T # {}
  PROVE  Min(T) \in T
<1>1. \E x \in T : \A y \in T : x <= y
  BY LeastNat
<1> QED
  BY <1>1 DEF Min

(* The search for the key in the new layout passes taken buckets only.     *)
NewPath(n, N, key, b) ==
  \E i \in 0 .. n - 1 : /\ Probe(n, key, i) = b
                        /\ \A j \in 0 .. i - 1 : Probe(n, key, j) \in N

LEMMA NewBucketIs ==
  ASSUME NEW n \in BucketCounts, NEW N \in SUBSET (0 .. n - 1), Cardinality(N) < n,
         NEW key \in Keys
  PROVE  /\ NewBucket(N, n, key) \in (0 .. n - 1) \ N
         /\ NewPath(n, N, key, NewBucket(N, n, key))
<1>1. n \in Nat
  BY BucketCountIs
<1> DEFINE Free(i) == Probe(n, key, i) \notin N
           T == {i \in 0 .. n - 1 : Free(i)}
           First(i) == Free(i) /\ \A j \in 0 .. i - 1 : ~Free(j)
<1>2. T # {} /\ T \in SUBSET Nat
  BY <1>1, ProbeLeaves
<1>3. PICK m \in T : \A y \in T : m <= y
  <2> HIDE DEF T
  <2> QED
    BY <1>2, LeastNat
<1>4. m \in 0 .. n - 1 /\ First(m)
  <2>1. \A j \in 0 .. m - 1 : j \in 0 .. n - 1 /\ ~(m <= j)
    BY <1>1, <1>3
  <2> QED
    BY <1>3, <2>1
<1> DEFINE i == CHOOSE x \in 0 .. n - 1 : First(x)
<1>5. NewBucket(N, n, key) = Probe(n, key, i)
  BY DEF NewBucket
<1>6. i \in 0 .. n - 1 /\ First(i)
  <2> HIDE DEF First
  <2> QED
    BY <1>4
<1> HIDE DEF i
<1>7. Probe(n, key, i) \in 0 .. n - 1
  BY <1>1, <1>6, ProbeIs
<1> QED
  BY <1>5, <1>6, <1>7 DEF NewPath

(* What holds before every round, given the arrays C, the old buckets O,   *)
(* the new ones N and the element H in hand: of the c elements in S, k     *)
(* have been placed, and none is lost or there twice.                      *)
Held(H) == IF H = Empty THEN {} ELSE {H}
HandDiffers(C, Q, H) == H # Empty => \A b \in Q : C[b].key # H.key
Moving(C, O, N, H, m, n, S, c, k) ==
  /\ C \in [0 .. m - 1 -> Bucket]
  /\ O \in SUBSET (0 .. m - 1) /\ N \in SUBSET (0 .. n - 1) /\ O \cap N = {}
  /\ \A b \in O \cup N : IsLive(C[b])
  /\ H = Empty \/ (H \in Bucket /\ IsLive(H))
  /\ \A a, b \in O \cup N : C[a].key = C[b].key => a = b
  /\ HandDiffers(C, O \cup N, H)
  /\ S = {C[b] : b \in O \cup N} \cup Held(H)
  /\ IsFiniteSet(O) /\ IsFiniteSet(N) /\ Cardinality(N) = k
  /\ Cardinality(O) + (IF H = Empty THEN 0 ELSE 1) = c - k
  /\ \A b \in N : NewPath(n, N, C[b].key, b)

(* An element is in hand when it is placed.                                *)
LEMMA TakeInHand ==
  ASSUME NEW m \in Nat, NEW n, NEW C, NEW O, NEW N, NEW S,
         NEW c \in Nat, NEW k \in Nat, k < c,
         Moving(C, O, N, Empty, m, n, S, c, k)
  PROVE  /\ Min(O) \in O
         /\ Moving(C, O \ {Min(O)}, N, C[Min(O)], m, n, S, c, k)
<1> DEFINE j == Min(O)
           H == C[j]
           P == O \ {j}
<1>1. /\ C \in [0 .. m - 1 -> Bucket] /\ O \in SUBSET (0 .. m - 1)
      /\ O \cap N = {} /\ IsFiniteSet(O)
      /\ \A b \in O \cup N : IsLive(C[b])
      /\ \A a, b \in O \cup N : C[a].key = C[b].key => a = b
      /\ S = {C[b] : b \in O \cup N}
  BY DEF Moving, Held
<1>2. Cardinality(O) \in Nat /\ Cardinality(O) = c - k
  <2>1. Cardinality(O) \in Nat
    BY <1>1, FS_CardinalityType
  <2>2. Cardinality(O) + 0 = c - k
    BY DEF Moving
  <2> QED
    BY <2>1, <2>2
<1>3. j \in O
  <2>1. O # {}
    BY <1>2, FS_EmptySet
  <2>2. O \in SUBSET Nat
    BY <1>1
  <2> QED
    BY <2>1, <2>2, MinIn
<1> HIDE DEF j
<1>4. H \in Bucket /\ IsLive(H) /\ H # Empty
  BY <1>1, <1>3, BucketIs
<1>5. IsFiniteSet(P) /\ Cardinality(P) + 1 = c - k
  <2>1. IsFiniteSet(P) /\ Cardinality(P) = Cardinality(O) - 1
    BY <1>1, <1>3, FS_RemoveElement
  <2> QED
    BY <1>2, <2>1
<1>6. \A b \in P \cup N : C[b].key # H.key
  BY <1>1, <1>3
<1>7. S = {C[b] : b \in P \cup N} \cup {H}
  BY <1>1, <1>3
<1>8. Moving(C, P, N, H, m, n, S, c, k)
  <2>1. /\ N \in SUBSET (0 .. n - 1) /\ IsFiniteSet(N) /\ Cardinality(N) = k
        /\ \A b \in N : NewPath(n, N, C[b].key, b)
    BY DEF Moving
  <2>2. /\ P \in SUBSET (0 .. m - 1) /\ P \cap N = {}
        /\ \A b \in P \cup N : IsLive(C[b])
        /\ \A a, b \in P \cup N : C[a].key = C[b].key => a = b
    BY <1>1
  <2> HIDE DEF P, H
  <2> QED
    BY <1>1, <1>4, <1>5, <1>6, <1>7, <2>1, <2>2 DEF Moving, Held, HandDiffers
<1> QED
  BY <1>3, <1>8 DEF j

(* The element in hand is placed, and what was in its way is taken.        *)
LEMMA PlaceInHand ==
  ASSUME NEW m \in Nat, NEW n \in BucketCounts, n <= m, NEW C, NEW O, NEW N, NEW H,
         NEW S, NEW c \in Nat, NEW k \in Nat, k < c, c < n, H # Empty,
         Moving(C, O, N, H, m, n, S, c, k),
         NEW i, i = NewBucket(N, n, H.key)
  PROVE  Moving([C EXCEPT ![i] = H], O \ {i}, N \cup {i},
                IF i \in O THEN C[i] ELSE Empty, m, n, S, c, k + 1)
<1> DEFINE D == [C EXCEPT ![i] = H]
           P == O \ {i}
           Q == N \cup {i}
           G == IF i \in O THEN C[i] ELSE Empty
<1>1. /\ C \in [0 .. m - 1 -> Bucket]
      /\ O \in SUBSET (0 .. m - 1) /\ N \in SUBSET (0 .. n - 1) /\ O \cap N = {}
      /\ \A b \in O \cup N : IsLive(C[b])
      /\ H \in Bucket /\ IsLive(H)
  BY DEF Moving
<1>2. /\ \A a, b \in O \cup N : C[a].key = C[b].key => a = b
      /\ \A b \in O \cup N : C[b].key # H.key
      /\ S = {C[b] : b \in O \cup N} \cup {H}
  BY DEF Moving, HandDiffers, Held
<1>3. /\ IsFiniteSet(O) /\ IsFiniteSet(N) /\ Cardinality(N) = k
      /\ Cardinality(O) + 1 = c - k /\ Cardinality(O) \in Nat
      /\ \A b \in N : NewPath(n, N, C[b].key, b)
  BY FS_CardinalityType DEF Moving
<1>4. n \in Nat /\ Cardinality(N) < n
  BY <1>3, BucketCountIs
<1>5. H.key \in Keys /\ H # Empty
  BY <1>1, BucketIs
<1>6. i \in 0 .. n - 1 /\ i \notin N /\ NewPath(n, N, H.key, i)
  BY <1>1, <1>4, <1>5, NewBucketIs
<1>7. i \in 0 .. m - 1
  BY <1>4, <1>6
<1>8. /\ D \in [0 .. m - 1 -> Bucket] /\ D[i] = H
      /\ \A b \in 0 .. m - 1 : b # i => D[b] = C[b]
  BY <1>1, <1>7
<1>9. 0 .. n - 1 \subseteq 0 .. m - 1
  BY <1>4
<1>10. \A b \in P \cup Q : b = i \/ (b # i /\ b \in O \cup N /\ D[b] = C[b])
  BY <1>1, <1>8, <1>9
<1> HIDE DEF D
<1>11. P \in SUBSET (0 .. m - 1) /\ Q \in SUBSET (0 .. n - 1) /\ P \cap Q = {}
  BY <1>1, <1>6
<1>12. \A b \in P \cup Q : IsLive(D[b])
  BY <1>1, <1>8, <1>10
<1>13. \A a, b \in P \cup Q : D[a].key = D[b].key => a = b
  BY <1>2, <1>8, <1>10
<1>14. G = Empty \/ (G \in Bucket /\ IsLive(G))
  BY <1>1
<1>15. HandDiffers(D, P \cup Q, G)
  BY <1>2, <1>8, <1>10 DEF HandDiffers
<1>16. S = {D[b] : b \in P \cup Q} \cup Held(G)
  <2>1. CASE i \in O
    <3>1. G = C[i] /\ C[i] # Empty
      BY <1>1, <2>1, BucketIs
    <3>2. O \cup N = P \cup Q
      BY <2>1
    <3>3. ASSUME NEW s \in S PROVE s \in {D[b] : b \in P \cup Q} \cup {C[i]}
      <4>1. s = H \/ \E b \in O \cup N : s = C[b]
        BY <1>2
      <4> QED
        BY <1>8, <1>10, <3>2, <4>1
    <3>4. ASSUME NEW b \in P \cup Q PROVE D[b] \in S
      BY <1>2, <1>8, <1>10
    <3>5. C[i] \in S
      BY <1>2, <2>1
    <3> QED
      BY <3>1, <3>3, <3>4, <3>5 DEF Held
  <2>2. CASE i \notin O
    <3>1. G = Empty /\ P = O
      BY <2>2
    <3>2. ASSUME NEW s \in S PROVE s \in {D[b] : b \in P \cup Q}
      <4>1. s = H \/ \E b \in O \cup N : s = C[b]
        BY <1>2
      <4>2. \A b \in O \cup N : b \in P \cup Q /\ b # i
        BY <1>6, <2>2
      <4> QED
        BY <1>8, <1>10, <4>1, <4>2
    <3>3. ASSUME NEW b \in P \cup Q PROVE D[b] \in S
      BY <1>2, <1>8, <1>10
    <3> QED
      BY <3>1, <3>2, <3>3 DEF Held
  <2> QED
    BY <2>1, <2>2
<1>17. IsFiniteSet(Q) /\ Cardinality(Q) = k + 1
  BY <1>3, <1>6, FS_AddElement
<1>18. IsFiniteSet(P) /\ Cardinality(P) + (IF G = Empty THEN 0 ELSE 1) = c - (k + 1)
  <2>1. CASE i \in O
    <3>1. IsFiniteSet(P) /\ Cardinality(P) = Cardinality(O) - 1
      BY <1>3, <2>1, FS_RemoveElement
    <3>2. G # Empty
      BY <1>1, <2>1, BucketIs
    <3> QED
      BY <1>3, <3>1, <3>2
  <2>2. CASE i \notin O
    <3>1. P = O /\ G = Empty
      BY <2>2
    <3> QED
      BY <1>3, <3>1
  <2> QED
    BY <2>1, <2>2
<1>19. ASSUME NEW b \in Q PROVE NewPath(n, Q, D[b].key, b)
  <2>1. NewPath(n, N, D[b].key, b)
    BY <1>3, <1>6, <1>8, <1>10
  <2> QED
    BY <2>1 DEF NewPath
<1> HIDE DEF P, Q, G
<1>20. Moving(D, P, Q, G, m, n, S, c, k + 1)
  BY <1>8, <1>11, <1>12, <1>13, <1>14, <1>15, <1>16, <1>17, <1>18, <1>19 DEF Moving
<1> QED
  BY <1>20 DEF D, P, Q, G

(* A round places one element.                                             *)
MovingState(w, m, n, S, c, k) ==
  Moving(w.content, w.old, w.new, w.hand, m, n, S, c, k)

LEMMA KickOutMoves ==
  ASSUME NEW m \in Nat, NEW n \in BucketCounts, n <= m, NEW w, NEW S,
         NEW c \in Nat, NEW k \in Nat, k < c, c < n, MovingState(w, m, n, S, c, k)
  PROVE  MovingState(KickOut(w, n), m, n, S, c, k + 1)
<1> DEFINE H == IF w.hand = Empty THEN w.content[Min(w.old)] ELSE w.hand
           O == IF w.hand = Empty THEN w.old \ {Min(w.old)} ELSE w.old
           i == NewBucket(w.new, n, H.key)
           C == w.content
           N == w.new
<1>1. Moving(C, w.old, N, w.hand, m, n, S, c, k)
  BY DEF MovingState
<1>2. KickOut(w, n) = [content |-> [C EXCEPT ![i] = H], old |-> O \ {i},
                       new |-> N \cup {i}, hand |-> IF i \in O THEN C[i] ELSE Empty]
  BY DEF KickOut
<1>3. Moving(C, O, N, H, m, n, S, c, k) /\ H # Empty
  <2>1. CASE w.hand = Empty
    <3>1. Moving(C, w.old, N, Empty, m, n, S, c, k)
      BY <1>1, <2>1
    <3> DEFINE P == w.old
    <3> HIDE DEF C, N, P
    <3>2. Min(P) \in P /\ Moving(C, P \ {Min(P)}, N, C[Min(P)], m, n, S, c, k)
      <4>1. Moving(C, P, N, Empty, m, n, S, c, k)
        BY <3>1 DEF P
      <4> QED
        BY <4>1, TakeInHand
    <3>3. C \in [0 .. m - 1 -> Bucket] /\ P \subseteq 0 .. m - 1 /\ \A b \in P : IsLive(C[b])
      BY <3>1 DEF Moving, P
    <3>4. C[Min(P)] # Empty
      BY <3>2, <3>3, BucketIs
    <3>5. H = C[Min(P)] /\ O = P \ {Min(P)}
      BY <2>1 DEF P, C
    <3> QED
      BY <3>2, <3>4, <3>5
  <2>2. CASE w.hand # Empty
    BY <1>1, <2>2
  <2> QED
    BY <2>1, <2>2
<1> HIDE DEF H, O, C, N
<1>4. Moving([C EXCEPT ![i] = H], O \ {i}, N \cup {i},
             IF i \in O THEN C[i] ELSE Empty, m, n, S, c, k + 1)
  <2>1. PICK j : j = NewBucket(N, n, H.key)
    OBVIOUS
  <2>2. i = j
    BY <2>1 DEF N
  <2> HIDE DEF i
  <2> QED
    BY <1>3, <2>1, <2>2, PlaceInHand
<1> HIDE DEF i
<1>5. /\ KickOut(w, n).content = [C EXCEPT ![i] = H] /\ KickOut(w, n).old = O \ {i}
      /\ KickOut(w, n).new = N \cup {i}
      /\ KickOut(w, n).hand = IF i \in O THEN C[i] ELSE Empty
  BY <1>2
<1> QED
  BY <1>4, <1>5 DEF MovingState

(* What the definition of Rounds asks of it up to last.                    *)
Kicks(g, start, n, last) ==
  g = [k \in 0 .. last |-> IF k = 0 THEN start ELSE KickOut(g[k - 1], n)]

LEMMA KicksExists ==
  ASSUME NEW start, NEW n, NEW last \in Nat
  PROVE  \E g : Kicks(g, start, n, last)
<1> DEFINE T == {j \in Nat : ~ \E g : Kicks(g, start, n, j)}
<1> SUFFICES ASSUME T # {} PROVE FALSE
  OBVIOUS
<1>1. PICK j \in T : \A y \in T : j <= y
  <2> HIDE DEF T
  <2>1. T \in SUBSET Nat
    BY DEF T
  <2> QED
    BY <2>1, LeastNat
<1>2. j # 0
  <2>1. Kicks([k \in 0 .. 0 |-> start], start, n, 0)
    BY DEF Kicks
  <2> QED
    BY <1>1, <2>1
<1>3. PICK g : Kicks(g, start, n, j - 1)
  BY <1>1, <1>2
<1> DEFINE f == [k \in 0 .. j |-> IF k = 0 THEN start ELSE KickOut(g[k - 1], n)]
<1>4. \A k \in 0 .. j - 1 : f[k] = g[k]
  BY <1>1, <1>3 DEF Kicks
<1>5. Kicks(f, start, n, j)
  <2>1. \A k \in 0 .. j : k # 0 => k - 1 \in 0 .. j - 1
    BY <1>1
  <2>2. \A k \in 0 .. j : k # 0 => f[k] = KickOut(f[k - 1], n)
    BY <1>4, <2>1
  <2> QED
    BY <2>2 DEF Kicks
<1> QED
  BY <1>1, <1>5

LEMMA RoundsMove ==
  ASSUME NEW start, NEW m \in Nat, NEW n \in BucketCounts, n <= m, NEW S,
         NEW c \in Nat, c < n, MovingState(start, m, n, S, c, 0)
  PROVE  MovingState(Rounds(start, n, c)[c], m, n, S, c, c)
<1> DEFINE w == Rounds(start, n, c)
           T == {j \in 0 .. c : ~MovingState(w[j], m, n, S, c, j)}
<1>1. w = CHOOSE g : Kicks(g, start, n, c)
  BY Zenon DEF Rounds, Kicks
<1>2. Kicks(w, start, n, c)
  BY <1>1, KicksExists
<1> HIDE DEF w
<1>3. w[0] = start /\ \A j \in 1 .. c : w[j] = KickOut(w[j - 1], n)
  BY <1>2 DEF Kicks
<1>4. T = {}
  <2> SUFFICES ASSUME T # {} PROVE FALSE
    OBVIOUS
  <2>1. PICK j \in T : \A y \in T : j <= y
    <3> HIDE DEF T
    <3>1. T \in SUBSET Nat
      BY DEF T
    <3> QED
      BY <3>1, LeastNat
  <2>2. j # 0
    BY <1>3
  <2>3. PICK i \in Nat : i = j - 1
    BY <2>1, <2>2
  <2>4. i \in 0 .. c /\ i < j /\ i < c /\ j \in 1 .. c /\ j = i + 1
    BY <2>1, <2>2, <2>3
  <2>5. MovingState(w[i], m, n, S, c, i)
    BY <2>1, <2>4
  <2>6. MovingState(KickOut(w[i], n), m, n, S, c, i + 1)
    BY <2>4, <2>5, KickOutMoves
  <2>7. w[j] = KickOut(w[i], n)
    BY <1>3, <2>3, <2>4
  <2> QED
    BY <2>1, <2>4, <2>6, <2>7
<1>5. c \in 0 .. c
  OBVIOUS
<1> QED
  BY <1>4, <1>5 DEF w

(* The larger of the old and the new number of buckets.                    *)
LEMMA LargerIs ==
  ASSUME NEW a \in Nat, NEW b \in Nat
  PROVE  Max({a, b}) \in Nat /\ a <= Max({a, b}) /\ b <= Max({a, b})
<1>1. \E x \in {a, b} : \A y \in {a, b} : x >= y
  <2>1. CASE a >= b
    BY <2>1
  <2>2. CASE b >= a
    BY <2>2
  <2> QED
    BY <2>1, <2>2
<1>2. Max({a, b}) \in {a, b} /\ \A y \in {a, b} : Max({a, b}) >= y
  BY <1>1 DEF Max
<1> QED
  BY <1>2

LEMMA StartMoves ==
  ASSUME NEW t, WellFormed(t), NEW n \in BucketCounts
  PROVE  /\ RehashStart(t, n).old = LiveIn(t.buckets)
         /\ MovingState(RehashStart(t, n), Max({n, t.n_buckets}), n,
                        Contents(t.buckets), t.size, 0)
<1> DEFINE m == Max({n, t.n_buckets})
           B == t.buckets
           O == LiveIn(B)
           C == [i \in 0 .. m - 1 |-> IF i < t.n_buckets THEN B[i] ELSE Empty]
           w == RehashStart(t, n)
<1>1. /\ t.n_buckets \in {0} \cup BucketCounts /\ B \in [0 .. t.n_buckets - 1 -> Bucket]
      /\ AllDiffer(B) /\ t.size = Cardinality(O)
  BY DEF WellFormed
<1>2. n \in Nat /\ t.n_buckets \in Nat
  BY <1>1, BucketCountIs
<1>3. m \in Nat /\ n <= m /\ t.n_buckets <= m
  BY <1>2, LargerIs
<1>4. w.content = C /\ w.old = O /\ w.new = {} /\ w.hand = Empty
  BY DEF RehashStart, LiveIn
<1>5. IsFiniteSet(O) /\ O \subseteq 0 .. t.n_buckets - 1 /\ Cardinality(O) \in Nat
  <2> HIDE DEF B
  <2> QED
    BY <1>1, BucketsFinite
<1> HIDE DEF m, w
<1>6. C \in [0 .. m - 1 -> Bucket]
  BY <1>1, <1>2, <1>3, BucketIs
<1>7. \A b \in O : b \in 0 .. m - 1 /\ C[b] = B[b]
  BY <1>2, <1>3, <1>5
<1> HIDE DEF C
<1>8. \A b \in O : IsLive(C[b])
  BY <1>7 DEF LiveIn
<1>9. \A a, b \in O : C[a].key = C[b].key => a = b
  BY <1>1, <1>7 DEF AllDiffer
<1>10. Contents(B) = {C[b] : b \in O}
  BY <1>7 DEF Contents
<1> DEFINE S == Contents(B)
           N == {}
<1>11. IsFiniteSet(N) /\ Cardinality(N) = 0
  BY FS_EmptySet
<1>12. /\ O \in SUBSET (0 .. m - 1) /\ N \in SUBSET (0 .. n - 1) /\ O \cap N = {}
       /\ O \cup N = O
  BY <1>7
<1>13. \A b \in N : NewPath(n, N, C[b].key, b)
  OBVIOUS
<1>14. Cardinality(O) + 0 = t.size - 0
  BY <1>1, <1>5
<1>15. S = {C[b] : b \in O \cup N} \cup Held(Empty)
  BY <1>10, <1>12 DEF Held
<1> HIDE DEF O, N, S, B
<1>16. Moving(C, O, N, Empty, m, n, S, t.size, 0)
  BY <1>5, <1>6, <1>8, <1>9, <1>11, <1>12, <1>13, <1>14, <1>15 DEF Moving, HandDiffers
<1>17. MovingState(w, m, n, S, t.size, 0)
  BY <1>4, <1>16 DEF MovingState, N
<1> QED
  BY <1>4, <1>17 DEF w, O, S, m, B

(* After the last round every element is where its search comes to it.     *)
LEMMA RehashIs ==
  ASSUME NEW t, WellFormed(t), NEW n \in BucketCounts, t.size < UpperBound(n)
  PROVE  /\ WellFormed(Rehash(t, n)) /\ Rehash(t, n).n_buckets = n
         /\ Contents(Rehash(t, n).buckets) = Contents(t.buckets)
         /\ Rehash(t, n).n_occupied < Rehash(t, n).upper_bound
<1> DEFINE m == Max({n, t.n_buckets})
           c == t.size
           S == Contents(t.buckets)
           start == RehashStart(t, n)
           done == Rounds(start, n, c)[c]
           C == done.content
           N == done.new
           B == [i \in 0 .. n - 1 |-> IF i \in N THEN C[i] ELSE Empty]
<1>1. /\ t.n_buckets \in {0} \cup BucketCounts
      /\ t.buckets \in [0 .. t.n_buckets - 1 -> Bucket]
      /\ c = Cardinality(LiveIn(t.buckets))
  BY DEF WellFormed
<1>2. n \in Nat /\ t.n_buckets \in Nat /\ c \in Nat
  <2>1. Cardinality(LiveIn(t.buckets)) \in Nat
    BY <1>1, BucketsFinite
  <2> QED
    BY <1>1, <2>1, BucketCountIs
<1>3. m \in Nat /\ n <= m
  BY <1>2, LargerIs
<1>4. UpperBound(n) \in Nat /\ UpperBound(n) < n /\ c < n
  BY <1>2, UpperBoundIs
<1>5. start.old = LiveIn(t.buckets) /\ MovingState(start, m, n, S, c, 0)
  BY StartMoves
<1>6. Rehash(t, n) = TableOf(n, c, c, B)
  <2>1. Cardinality(start.old) = c
    BY <1>1, <1>5
  <2> QED
    BY <2>1 DEF Rehash, TableOf
<1> HIDE DEF m, S, start
<1>7. MovingState(done, m, n, S, c, c)
  <2> HIDE DEF c
  <2> QED
    BY <1>2, <1>3, <1>4, <1>5, RoundsMove
<1> HIDE DEF done
<1>8. Moving(C, done.old, N, done.hand, m, n, S, c, c)
  BY <1>7 DEF MovingState
<1>9. done.old = {} /\ done.hand = Empty
  <2>1. IsFiniteSet(done.old) /\ Cardinality(done.old) \in Nat
    BY <1>8, FS_CardinalityType DEF Moving
  <2>2. Cardinality(done.old) + (IF done.hand = Empty THEN 0 ELSE 1) = c - c
    BY <1>8 DEF Moving
  <2>3. Cardinality(done.old) = 0 /\ done.hand = Empty
    BY <1>2, <2>1, <2>2
  <2> QED
    BY <2>1, <2>3, FS_EmptySet
<1>10. /\ C \in [0 .. m - 1 -> Bucket] /\ N \in SUBSET (0 .. n - 1)
       /\ \A b \in N : IsLive(C[b]) /\ NewPath(n, N, C[b].key, b)
       /\ \A a, b \in N : C[a].key = C[b].key => a = b
       /\ S = {C[b] : b \in N} /\ Cardinality(N) = c
  BY <1>8, <1>9 DEF Moving, Held
<1> HIDE DEF C, N
<1>11. \A b \in N : b \in 0 .. n - 1 /\ b \in 0 .. m - 1 /\ B[b] = C[b]
                    /\ B[b] \in Bucket /\ B[b] # Empty
  BY <1>2, <1>3, <1>10, BucketIs
<1>12. B \in [0 .. n - 1 -> Bucket]
  BY <1>11, BucketIs
<1>13. \A b \in 0 .. n - 1 : b \notin N => B[b] = Empty
  OBVIOUS
<1>14. DOMAIN B = 0 .. n - 1
  OBVIOUS
<1> HIDE DEF B
<1>15. LiveIn(B) = N /\ OccupiedIn(B) = N
  <2>1. ~IsLive(Empty)
    BY BucketIs
  <2>2. ASSUME NEW b \in 0 .. n - 1
        PROVE  (b \in N <=> IsLive(B[b])) /\ (b \in N <=> B[b] # Empty)
    <3>1. CASE b \in N
      BY <1>10, <1>11, <3>1
    <3>2. CASE b \notin N
      BY <1>13, <2>1, <3>2
    <3> QED
      BY <3>1, <3>2
  <2> QED
    BY <1>10, <1>14, <2>2 DEF LiveIn, OccupiedIn
<1>16. AllDiffer(B)
  BY <1>10, <1>11, <1>15 DEF AllDiffer
<1>17. AllReached(n, B)
  <2>1. ASSUME NEW b \in N PROVE Reached(n, B, b)
    <3>1. NewPath(n, N, B[b].key, b)
      BY <1>10, <1>11
    <3> QED
      BY <1>11, <3>1 DEF NewPath, Reached, Passes
  <2> QED
    BY <1>15, <2>1 DEF AllReached
<1>18. Contents(B) = S
  <2>1. {B[b] : b \in N} = {C[b] : b \in N}
    <3>1. ASSUME NEW b \in N PROVE B[b] = C[b]
      BY <1>11
    <3> QED
      BY ONLY <3>1
  <2> QED
    BY <1>10, <1>15, <2>1 DEF Contents
<1>19. c <= UpperBound(n)
  BY <1>2, <1>4
<1>20. WellFormed(TableOf(n, c, c, B))
  BY <1>10, <1>12, <1>15, <1>16, <1>17, <1>19, TableIs
<1>21. /\ TableOf(n, c, c, B).n_buckets = n /\ TableOf(n, c, c, B).buckets = B
       /\ TableOf(n, c, c, B).n_occupied = c
       /\ TableOf(n, c, c, B).upper_bound = UpperBound(n)
  BY DEF TableOf
<1> QED
  BY <1>6, <1>18, <1>20, <1>21 DEF S

-----------------------------------------------------------------------------
(* Making room *)

(* A table holds at most every key.                                        *)
LEMMA SizeBound ==
  ASSUME NEW t, WellFormed(t)
  PROVE  /\ t.size \in Nat /\ t.n_occupied \in Nat /\ t.size <= t.n_occupied
         /\ Cardinality(Keys) \in Nat /\ t.size <= Cardinality(Keys)
<1> DEFINE B == t.buckets
           L == LiveIn(B)
<1>1. /\ t.n_buckets \in {0} \cup BucketCounts /\ B \in [0 .. t.n_buckets - 1 -> Bucket]
      /\ AllDiffer(B) /\ t.size = Cardinality(L) /\ t.n_occupied = Cardinality(OccupiedIn(B))
  BY DEF WellFormed
<1> HIDE DEF B
<1>2. /\ IsFiniteSet(L) /\ Cardinality(L) \in Nat /\ Cardinality(OccupiedIn(B)) \in Nat
      /\ Cardinality(L) <= Cardinality(OccupiedIn(B))
  BY <1>1, BucketsFinite
<1>3. IsFiniteSet(Keys) /\ Cardinality(Keys) \in Nat
  BY KeysAssumption, FS_CardinalityType
<1> DEFINE f == [b \in L |-> B[b].key]
<1>4. f \in [L -> Keys]
  BY <1>1, BucketIs DEF LiveIn
<1>5. \A a, b \in L : f[a] = f[b] => a = b
  BY <1>1 DEF AllDiffer
<1> HIDE DEF f, L
<1>6. ~(Cardinality(Keys) < Cardinality(L))
  <2> SUFFICES ASSUME Cardinality(Keys) < Cardinality(L) PROVE FALSE
    OBVIOUS
  <2>1. \E x, y \in L : x # y /\ f[x] = f[y]
    BY ONLY <1>2, <1>3, <1>4, Cardinality(Keys) < Cardinality(L), FS_PigeonHole
  <2> QED
    BY <1>5, <2>1
<1> QED
  BY <1>1, <1>2, <1>3, <1>6

LEMMA RoundUpIs ==
  ASSUME NEW x \in Nat, \E m \in BucketCounts : m >= x
  PROVE  kroundup32(x) \in BucketCounts /\ kroundup32(x) >= x
<1> DEFINE T == {m \in BucketCounts : m >= x}
<1>1. T # {} /\ T \in SUBSET Nat
  BY BucketCountIs
<1>2. Min(T) \in T
  <2> HIDE DEF T
  <2> QED
    BY <1>1, MinIn
<1> QED
  BY <1>2 DEF kroundup32

(* A table that is at its bound is rehashed, and then has room.            *)
LEMMA MakeRoomIs ==
  ASSUME NEW t, WellFormed(t)
  PROVE  /\ WellFormed(MakeRoom(t)) /\ MakeRoom(t).n_buckets # 0
         /\ Contents(MakeRoom(t).buckets) = Contents(t.buckets)
         /\ MakeRoom(t).n_occupied < MakeRoom(t).upper_bound
<1> DEFINE n == t.n_buckets
<1>1. /\ t.size \in Nat /\ t.n_occupied \in Nat /\ t.size <= t.n_occupied
      /\ Cardinality(Keys) \in Nat /\ t.size <= Cardinality(Keys)
  BY SizeBound
<1>2. /\ n \in {0} \cup BucketCounts /\ t.n_occupied <= t.upper_bound
      /\ t.upper_bound = IF n = 0 THEN 0 ELSE UpperBound(n)
  BY DEF WellFormed
<1>3. n \in Nat /\ t.upper_bound \in Nat
  BY <1>2, BucketCountIs, UpperBoundIs
<1>4. CASE ~NeedsRoom(t)
  <2>1. MakeRoom(t) = t
    BY <1>4 DEF MakeRoom
  <2>2. t.n_occupied < t.upper_bound
    BY <1>1, <1>3, <1>4 DEF NeedsRoom
  <2>3. n # 0
    BY <1>1, <1>2, <2>2
  <2> QED
    BY <2>1, <2>2, <2>3
<1>5. CASE NeedsRoom(t)
  <2> DEFINE x == IF n > 2 * t.size THEN n - 1 ELSE n + 1
             r == kroundup32(x)
  <2>1. MakeRoom(t) = kh_resize(t, x)
    BY <1>5 DEF MakeRoom
  <2>2. x \in Nat /\ \E m \in BucketCounts : m >= x
    <3>1. CASE n > 2 * t.size
      <4>1. n \in BucketCounts
        BY <1>1, <1>2, <3>1
      <4>2. x \in Nat /\ n >= x
        BY <1>1, <1>3, <3>1
      <4> QED
        BY <4>1, <4>2
    <3>2. CASE ~(n > 2 * t.size)
      <4>1. Power[30] \in BucketCounts /\ Power[30] \in Nat
        <5>1. 30 \in 2 .. 30 /\ 30 \in 0 .. 30
          OBVIOUS
        <5> QED
          BY <5>1, PowerIs DEF BucketCounts
      <4>2. n <= 2 * t.size /\ 2 * t.size <= 2 * Cardinality(Keys)
        BY <1>1, <1>3, <3>2
      <4>3. x \in Nat /\ Power[30] >= x
        <5>1. 2 * Cardinality(Keys) < Power[30]
          BY KeysAssumption
        <5>2. x = n + 1
          BY <3>2
        <5> HIDE DEF x, n
        <5> QED
          BY ONLY <1>1, <1>3, <4>1, <4>2, <5>1, <5>2
      <4> QED
        BY <4>1, <4>3
    <3> QED
      BY <3>1, <3>2
  <2>3. r \in BucketCounts /\ r >= x
    <3> HIDE DEF x
    <3> QED
      BY <2>2, RoundUpIs
  <2>4. r \in Nat /\ r >= 4
    BY <2>3, BucketCountIs
  <2>5. t.size < UpperBound(r)
    <3>1. CASE n = 0
      <4>1. t.size = 0
        BY <1>1, <1>2, <3>1
      <4> QED
        BY <2>3, <4>1, UpperBoundIs
    <3>2. CASE n # 0
      <4>1. n \in BucketCounts
        BY <1>2, <3>2
      <4>2. PICK p \in Nat : n = 4 * p
        BY <4>1, BucketCountIs
      <4>3. PICK q \in Nat : r = 4 * q
        BY <2>3, BucketCountIs
      <4>4. CASE n > 2 * t.size
        <5>1. r >= n - 1
          BY <2>3, <4>4
        <5> HIDE DEF r
        <5> QED
          BY <1>1, <4>2, <4>3, <4>4, <5>1, <2>4 DEF UpperBound
      <4>5. CASE ~(n > 2 * t.size)
        <5>1. r >= n + 1
          BY <2>3, <4>5
        <5>2. t.size <= UpperBound(n)
          <6>1. t.n_occupied <= UpperBound(n) /\ UpperBound(n) \in Nat
            BY <1>2, <3>2, <4>1, UpperBoundIs
          <6> QED
            BY <1>1, <6>1
        <5> HIDE DEF r
        <5>3. r >= n + 4
          BY <1>3, <4>2, <4>3, <5>1
        <5>4. UpperBound(n) < UpperBound(r)
          BY <1>3, <2>4, <5>3 DEF UpperBound
        <5>5. UpperBound(n) \in Nat /\ UpperBound(r) \in Nat
          BY <2>3, <4>1, UpperBoundIs DEF r
        <5> QED
          BY <1>1, <5>2, <5>4, <5>5
      <4> QED
        BY <4>4, <4>5
    <3> QED
      BY <3>1, <3>2
  <2>6. ~(t.size >= UpperBound(r))
    BY <1>1, <2>3, <2>5, UpperBoundIs
  <2>7. MakeRoom(t) = Rehash(t, r)
    BY <2>1, <2>6 DEF kh_resize
  <2> HIDE DEF r
  <2> QED
    BY <2>3, <2>4, <2>5, <2>7, RehashIs
<1> QED
  BY <1>4, <1>5

-----------------------------------------------------------------------------
(* The operations *)

(* What contents say of a key.                                             *)
LEMMA FindChanges ==
  ASSUME NEW t, WellFormed(t), NEW u, WellFormed(u), NEW key \in Keys, NEW val \in Entries,
         Contents(u.buckets) = {r \in Contents(t.buckets) : r.key # key} \cup {Live(key, val)}
  PROVE  \A k \in Keys : Find(u, k) = IF k = key THEN val ELSE Find(t, k)
<1> DEFINE s == Live(key, val)
<1>1. s.key = key /\ s.val = val
  BY BucketIs
<1> HIDE DEF s
<1>2. Find(u, key) = val
  BY <1>1, FindIs DEF s
<1>3. ASSUME NEW k \in Keys, k # key PROVE Find(u, k) = Find(t, k)
  <2>1. \A r : r.key = k => (r \in Contents(u.buckets) <=> r \in Contents(t.buckets))
    BY <1>1, <1>3 DEF s
  <2>2. CASE \E r \in Contents(t.buckets) : r.key = k
    BY <2>1, <2>2, FindIs
  <2>3. CASE \A r \in Contents(t.buckets) : r.key # k
    <3>1. \A r \in Contents(u.buckets) : r.key # k
      BY <2>1, <2>3
    <3> QED
      BY <2>3, <3>1, FindIs
  <2> QED
    BY <2>2, <2>3
<1> QED
  BY <1>2, <1>3

LEMMA FindTyped ==
  ASSUME NEW t, WellFormed(t), NEW key \in Keys
  PROVE  /\ Find(t, key) \in Entries \cup {"absent"}
         /\ (\E b \in LiveIn(t.buckets) : t.buckets[b].key = key) <=> Find(t, key) # "absent"
<1>1. t.buckets \in [0 .. t.n_buckets - 1 -> Bucket]
  BY DEF WellFormed
<1>2. \A r \in Contents(t.buckets) : r.val \in Entries
  <2> SUFFICES ASSUME NEW r \in Contents(t.buckets) PROVE r.val \in Entries
    OBVIOUS
  <2>1. PICK b \in LiveIn(t.buckets) : r = t.buckets[b]
    BY DEF Contents
  <2>2. r \in Bucket /\ IsLive(r)
    BY <1>1, <2>1 DEF LiveIn
  <2> QED
    BY <2>2, BucketIs
<1>3. "absent" \notin Entries
  BY DEF Entries
<1>4. (\E b \in LiveIn(t.buckets) : t.buckets[b].key = key)
        <=> \E r \in Contents(t.buckets) : r.key = key
  BY DEF Contents
<1>5. CASE \E r \in Contents(t.buckets) : r.key = key
  BY <1>2, <1>3, <1>4, <1>5, FindIs
<1>6. CASE \A r \in Contents(t.buckets) : r.key # key
  BY <1>4, <1>6, FindIs
<1> QED
  BY <1>5, <1>6

(* kh_put after room was made.                                             *)
PutTable(t, key) ==
  LET x == PutBucket(t, key)
      isnew == IF IsLive(t.buckets[x]) THEN 0 ELSE 1
  IN  [t EXCEPT !.size = @ + isnew,
                !.n_occupied = @ + (IF t.buckets[x] = Empty THEN 1 ELSE 0),
                !.buckets[x] = IF IsLive(@) THEN [@ EXCEPT !.val = "size"]
                               ELSE Live(key, "size")]
PutRet(t, key) ==
  LET x == PutBucket(t, key)
      isnew == IF IsLive(t.buckets[x]) THEN 0 ELSE 1
  IN  IF t.buckets[x] = Deleted THEN 2 ELSE isnew

LEMMA PutTableIs ==
  ASSUME NEW t, WellFormed(t), t.n_buckets # 0, t.n_occupied < t.upper_bound,
         NEW key \in Keys
  PROVE  /\ WellFormed(PutTable(t, key)) /\ PutRet(t, key) \in {0, 1, 2}
         /\ \A k \in Keys : Find(PutTable(t, key), k) = IF k = key THEN "size" ELSE Find(t, k)
         /\ PutRet(t, key) = 0 <=> Find(t, key) # "absent"
<1> DEFINE n == t.n_buckets
           B == t.buckets
           x == PutBucket(t, key)
           e == IF IsLive(B[x]) THEN [B[x] EXCEPT !.val = "size"] ELSE Live(key, "size")
           C == [B EXCEPT ![x] = e]
           s == t.size + (IF IsLive(B[x]) THEN 0 ELSE 1)
           o == t.n_occupied + (IF B[x] = Empty THEN 1 ELSE 0)
<1>1. /\ t = TableOf(n, t.size, t.n_occupied, B)
      /\ n \in BucketCounts /\ B \in [0 .. n - 1 -> Bucket]
      /\ AllReached(n, B) /\ AllDiffer(B)
      /\ t.size = Cardinality(LiveIn(B)) /\ t.size \in Nat
      /\ t.n_occupied = Cardinality(OccupiedIn(B)) /\ t.n_occupied \in Nat
  BY TableParts
<1>2. t.n_occupied < UpperBound(n) /\ UpperBound(n) \in Nat
  <2>1. t.upper_bound = UpperBound(n)
    BY DEF WellFormed
  <2> QED
    BY <1>1, <2>1, UpperBoundIs
<1>3. /\ x \in 0 .. n - 1
      /\ \/ Holds(B[x], key)
         \/ /\ ~IsLive(B[x]) /\ \A b \in LiveIn(B) : B[b].key # key
            /\ \E i \in 0 .. n - 1 : Probe(n, key, i) = x /\ Passes(n, B, key, i)
  BY PutBucketIs
<1>4. PutTable(t, key) = TableOf(n, s, o, C)
  <2> HIDE DEF x
  <2>1. PutTable(t, key) = [t EXCEPT !.size = s, !.n_occupied = o, !.buckets = C]
    BY DEF PutTable, x
  <2> HIDE DEF s, o, C, n, B
  <2>2. PICK a, b : a = t.size /\ b = t.n_occupied
    OBVIOUS
  <2>3. t = [n_buckets |-> n, size |-> a, n_occupied |-> b,
             upper_bound |-> UpperBound(n), buckets |-> B]
    BY <1>1, <2>2 DEF TableOf
  <2> QED
    BY <2>1, <2>3 DEF TableOf
<1>5. PutRet(t, key) = IF B[x] = Deleted THEN 2 ELSE IF IsLive(B[x]) THEN 0 ELSE 1
  BY DEF PutRet
<1>6. t.n_buckets = n /\ t.buckets = B
  OBVIOUS
<1> HIDE DEF x, n, B
<1>7. "size" \in Entries
  BY DEF Entries
<1>8. CASE Holds(B[x], key)
  <2>1. x \in LiveIn(B) /\ IsLive(B[x]) /\ B[x].key = key /\ B[x] # Empty /\ B[x] # Deleted
    BY <1>1, <1>3, <1>8, BucketIs DEF Holds, LiveIn
  <2>2. e = Live(key, "size")
    <3>1. B[x] = Live(key, B[x].val)
      BY <1>1, <1>3, <2>1, BucketIs
    <3> QED
      BY <2>1, <3>1 DEF Live
  <2>3. C = [B EXCEPT ![x] = Live(B[x].key, "size")]
    BY <2>1, <2>2
  <2> HIDE DEF C
  <2>4. Sound(n, C) /\ Updated(B, C, x, "size")
    BY <1>1, <1>7, <2>1, <2>3, SetValue
  <2>5. s = Cardinality(LiveIn(C)) /\ o = Cardinality(OccupiedIn(C)) /\ o <= UpperBound(n)
    BY <1>1, <1>2, <2>1, <2>4 DEF Updated
  <2> HIDE DEF s, o
  <2>6. WellFormed(TableOf(n, s, o, C)) /\ TableOf(n, s, o, C).buckets = C
    BY <1>1, <2>4, <2>5, TableIs DEF Sound
  <2> DEFINE u == PutTable(t, key)
  <2>7. WellFormed(u) /\ u.buckets = C
    BY <1>4, <2>6
  <2>8. Contents(u.buckets) = {r \in Contents(t.buckets) : r.key # key} \cup {Live(key, "size")}
    BY <1>6, <2>1, <2>4, <2>7 DEF Updated
  <2> HIDE DEF u
  <2>9. \A k \in Keys : Find(u, k) = IF k = key THEN "size" ELSE Find(t, k)
    BY ONLY WellFormed(t), key \in Keys, <1>7, <2>7, <2>8, FindChanges
  <2>10. PutRet(t, key) = 0 /\ Find(t, key) # "absent"
    BY <1>5, <1>6, <2>1, FindTyped
  <2> QED
    BY <2>7, <2>9, <2>10 DEF u
<1>9. CASE ~Holds(B[x], key)
  <2>1. ~IsLive(B[x]) /\ \A b \in LiveIn(B) : B[b].key # key
    BY <1>3, <1>9
  <2>2. PICK i \in 0 .. n - 1 : Probe(n, key, i) = x /\ Passes(n, B, key, i)
    BY <1>3, <1>9
  <2>3. C = [B EXCEPT ![x] = Live(key, "size")]
    BY <2>1
  <2> HIDE DEF C
  <2>4. Sound(n, C) /\ Inserted(B, C, x, key)
    BY <1>1, <1>3, <2>1, <2>2, <2>3, InsertKey
  <2>5. IsFiniteSet(LiveIn(B)) /\ IsFiniteSet(OccupiedIn(B))
    BY <1>1, BucketsFinite
  <2>6. s = Cardinality(LiveIn(C))
    <3>1. PICK L : L = LiveIn(B)
      OBVIOUS
    <3>2. Cardinality(L \cup {x}) = Cardinality(L) + 1
      BY <2>4, <2>5, <3>1, FS_AddElement DEF Inserted
    <3> QED
      BY <1>1, <2>1, <2>4, <3>1, <3>2 DEF Inserted
  <2>7. o = Cardinality(OccupiedIn(C)) /\ o <= UpperBound(n)
    <3>1. CASE B[x] = Empty
      <4>1. PICK L : L = OccupiedIn(B)
        OBVIOUS
      <4>2. Cardinality(L \cup {x}) = Cardinality(L) + 1
        BY <2>4, <2>5, <3>1, <4>1, FS_AddElement DEF Inserted
      <4>3. o = Cardinality(OccupiedIn(C)) /\ o = t.n_occupied + 1
        BY <1>1, <2>4, <3>1, <4>1, <4>2 DEF Inserted
      <4> QED
        BY <1>1, <1>2, <4>3
    <3>2. CASE B[x] # Empty
      <4>1. OccupiedIn(C) = OccupiedIn(B)
        BY <2>4, <3>2 DEF Inserted
      <4> QED
        BY <1>1, <1>2, <3>2, <4>1
    <3> QED
      BY <3>1, <3>2
  <2> HIDE DEF s, o
  <2>8. WellFormed(TableOf(n, s, o, C)) /\ TableOf(n, s, o, C).buckets = C
    BY <1>1, <2>4, <2>6, <2>7, TableIs DEF Sound
  <2> DEFINE u == PutTable(t, key)
  <2>9. WellFormed(u) /\ u.buckets = C
    BY <1>4, <2>8
  <2>10. Contents(B) = {r \in Contents(B) : r.key # key}
    BY <2>1 DEF Contents
  <2>11. Contents(u.buckets) = {r \in Contents(t.buckets) : r.key # key} \cup {Live(key, "size")}
    BY <1>6, <2>4, <2>9, <2>10 DEF Inserted
  <2> HIDE DEF u
  <2>12. \A k \in Keys : Find(u, k) = IF k = key THEN "size" ELSE Find(t, k)
    BY ONLY WellFormed(t), key \in Keys, <1>7, <2>9, <2>11, FindChanges
  <2>13. PutRet(t, key) \in {1, 2} /\ Find(t, key) = "absent"
    BY <1>5, <1>6, <2>1, FindTyped
  <2> QED
    BY <2>9, <2>12, <2>13 DEF u
<1> QED
  BY <1>8, <1>9

(* What kh_get returns, if it is not kh_end.                               *)
LEMMA GetIs ==
  ASSUME NEW t, WellFormed(t), NEW key \in Keys, kh_get(t, key) # t.n_buckets
  PROVE  /\ t.n_buckets # 0 /\ kh_get(t, key) \in LiveIn(t.buckets)
         /\ t.buckets[kh_get(t, key)].key = key
<1>1. PICK b \in LiveIn(t.buckets) : t.buckets[b].key = key
  BY GetFinds
<1>2. kh_get(t, key) = b
  BY <1>1, GetFinds
<1>3. t.n_buckets # 0
  BY <1>1 DEF WellFormed, LiveIn
<1> QED
  BY <1>1, <1>2, <1>3

FreedTable(t, key) == [t EXCEPT !.buckets[kh_get(t, key)].val = "freed"]
DelTable(t, key) == [t EXCEPT !.buckets[kh_get(t, key)] = Deleted, !.size = @ - 1]
ClearTable(t) ==
  [t EXCEPT !.buckets = [i \in DOMAIN @ |-> Empty], !.size = 0, !.n_occupied = 0]

LEMMA FreedTableIs ==
  ASSUME NEW t, WellFormed(t), NEW key \in Keys, kh_get(t, key) # t.n_buckets
  PROVE  /\ WellFormed(FreedTable(t, key)) /\ Find(t, key) # "absent"
         /\ \A k \in Keys : Find(FreedTable(t, key), k) = IF k = key THEN "freed" ELSE Find(t, k)
<1> DEFINE n == t.n_buckets
           B == t.buckets
           x == kh_get(t, key)
           C == [B EXCEPT ![x] = Live(B[x].key, "freed")]
           u == FreedTable(t, key)
<1>1. n # 0 /\ x \in LiveIn(B) /\ B[x].key = key
  BY GetIs
<1>2. /\ t = TableOf(n, t.size, t.n_occupied, B)
      /\ n \in BucketCounts /\ B \in [0 .. n - 1 -> Bucket]
      /\ AllReached(n, B) /\ AllDiffer(B)
      /\ t.size = Cardinality(LiveIn(B)) /\ t.n_occupied = Cardinality(OccupiedIn(B))
      /\ t.n_occupied <= UpperBound(n)
  BY <1>1, TableParts
<1>3. "freed" \in Entries
  BY DEF Entries
<1> HIDE DEF x
<1>4. C = [B EXCEPT ![x].val = "freed"]
  <2>1. B[x] \in Bucket /\ IsLive(B[x])
    BY <1>1, <1>2 DEF LiveIn
  <2>2. B[x] = Live(B[x].key, B[x].val)
    BY <2>1, BucketIs
  <2>3. [B[x] EXCEPT !.val = "freed"] = Live(B[x].key, "freed")
    <3>1. PICK a, b : a = B[x].key /\ b = B[x].val
      OBVIOUS
    <3>2. B[x] = [flag |-> "live", key |-> a, val |-> b]
      BY <2>2, <3>1 DEF Live
    <3> QED
      BY <3>1, <3>2 DEF Live
  <2> QED
    BY <2>3
<1>5. u = [t EXCEPT !.buckets = C]
  BY <1>4 DEF FreedTable, x
<1>6. t.n_buckets = n /\ t.buckets = B
  OBVIOUS
<1> HIDE DEF n, B, C, u
<1>7. u = TableOf(n, t.size, t.n_occupied, C)
  <2>1. PICK a, b : a = t.size /\ b = t.n_occupied
    OBVIOUS
  <2>2. t = [n_buckets |-> n, size |-> a, n_occupied |-> b,
             upper_bound |-> UpperBound(n), buckets |-> B]
    BY <1>2, <2>1 DEF TableOf
  <2> QED
    BY <1>5, <2>1, <2>2 DEF TableOf
<1>8. C = [B EXCEPT ![x] = Live(B[x].key, "freed")]
  BY DEF C
<1>9. Sound(n, C) /\ Updated(B, C, x, "freed")
  BY <1>1, <1>2, <1>3, <1>8, SetValue
<1>10. WellFormed(u) /\ u.buckets = C
  BY <1>2, <1>7, <1>9, TableIs DEF Sound, Updated
<1>11. Contents(u.buckets) = {r \in Contents(t.buckets) : r.key # key} \cup {Live(key, "freed")}
  BY <1>1, <1>6, <1>9, <1>10 DEF Updated
<1>12. \A k \in Keys : Find(u, k) = IF k = key THEN "freed" ELSE Find(t, k)
  BY ONLY WellFormed(t), key \in Keys, <1>3, <1>10, <1>11, FindChanges
<1>13. Find(t, key) # "absent"
  BY <1>1, <1>6, FindTyped
<1> QED
  BY <1>10, <1>12, <1>13 DEF u

LEMMA DelTableIs ==
  ASSUME NEW t, WellFormed(t), NEW key \in Keys, kh_get(t, key) # t.n_buckets
  PROVE  /\ WellFormed(DelTable(t, key))
         /\ \A k \in Keys : Find(DelTable(t, key), k) = IF k = key THEN "absent" ELSE Find(t, k)
<1> DEFINE n == t.n_buckets
           B == t.buckets
           x == kh_get(t, key)
           C == [B EXCEPT ![x] = Deleted]
           u == DelTable(t, key)
<1>1. n # 0 /\ x \in LiveIn(B) /\ B[x].key = key
  BY GetIs
<1>2. /\ t = TableOf(n, t.size, t.n_occupied, B)
      /\ n \in BucketCounts /\ B \in [0 .. n - 1 -> Bucket]
      /\ AllReached(n, B) /\ AllDiffer(B)
      /\ t.size = Cardinality(LiveIn(B)) /\ t.n_occupied = Cardinality(OccupiedIn(B))
      /\ t.n_occupied <= UpperBound(n)
  BY <1>1, TableParts
<1>3. u = [t EXCEPT !.buckets = C, !.size = t.size - 1]
  BY DEF DelTable
<1>4. t.n_buckets = n /\ t.buckets = B
  OBVIOUS
<1> HIDE DEF n, B, C, u, x
<1> DEFINE s == t.size - 1
           o == t.n_occupied
<1>5. u = TableOf(n, s, o, C)
  <2>1. PICK a, b : a = t.size /\ b = t.n_occupied
    OBVIOUS
  <2>2. t = [n_buckets |-> n, size |-> a, n_occupied |-> b,
             upper_bound |-> UpperBound(n), buckets |-> B]
    BY <1>2, <2>1 DEF TableOf
  <2>3. u = [t EXCEPT !.buckets = C, !.size = s] /\ o = b
    BY <1>3, <2>1
  <2> HIDE DEF s, o
  <2> QED
    BY <2>2, <2>3 DEF TableOf
<1>6. C = [B EXCEPT ![x] = Deleted]
  BY DEF C
<1>7. Sound(n, C) /\ Removed(B, C, x)
  BY <1>1, <1>2, <1>6, DeleteKey
<1>8. s = Cardinality(LiveIn(C))
  <2>1. PICK L : L = LiveIn(B)
    OBVIOUS
  <2>2. IsFiniteSet(L)
    BY <1>2, <2>1, BucketsFinite
  <2>3. Cardinality(L \ {x}) = Cardinality(L) - 1
    BY <1>1, <2>1, <2>2, FS_RemoveElement
  <2> QED
    BY <1>2, <1>7, <2>1, <2>3 DEF Removed
<1>9. WellFormed(u) /\ u.buckets = C
  <2>1. o = Cardinality(OccupiedIn(C)) /\ o <= UpperBound(n)
    BY <1>2, <1>7 DEF Removed
  <2> HIDE DEF s, o
  <2> QED
    BY <1>2, <1>5, <1>7, <1>8, <2>1, TableIs DEF Sound
<1>10. Contents(u.buckets) = {r \in Contents(t.buckets) : r.key # key}
  BY <1>1, <1>4, <1>7, <1>9 DEF Removed
<1>11. Find(u, key) = "absent"
  BY <1>9, <1>10, FindIs
<1>12. ASSUME NEW k \in Keys, k # key PROVE Find(u, k) = Find(t, k)
  <2>1. \A r : r.key = k => (r \in Contents(u.buckets) <=> r \in Contents(t.buckets))
    BY <1>10, <1>12
  <2>2. CASE \E r \in Contents(t.buckets) : r.key = k
    BY <1>9, <2>1, <2>2, FindIs
  <2>3. CASE \A r \in Contents(t.buckets) : r.key # k
    <3>1. \A r \in Contents(u.buckets) : r.key # k
      BY <2>1, <2>3
    <3> QED
      BY <1>9, <2>3, <3>1, FindIs
  <2> QED
    BY <2>2, <2>3
<1> QED
  BY <1>9, <1>11, <1>12 DEF u

LEMMA ClearTableIs ==
  ASSUME NEW t, WellFormed(t)
  PROVE  WellFormed(ClearTable(t)) /\ \A k \in Keys : Find(ClearTable(t), k) = "absent"
<1> DEFINE n == t.n_buckets
           C == [i \in 0 .. n - 1 |-> Empty]
           u == ClearTable(t)
<1>1. /\ t = [n_buckets |-> n, size |-> t.size, n_occupied |-> t.n_occupied,
              upper_bound |-> t.upper_bound, buckets |-> t.buckets]
      /\ n \in {0} \cup BucketCounts /\ DOMAIN t.buckets = 0 .. n - 1
      /\ t.upper_bound = IF n = 0 THEN 0 ELSE UpperBound(n)
  BY DEF WellFormed
<1>2. u = [t EXCEPT !.buckets = C, !.size = 0, !.n_occupied = 0]
  BY <1>1 DEF ClearTable
<1>3. C \in [0 .. n - 1 -> Bucket] /\ LiveIn(C) = {} /\ OccupiedIn(C) = {}
  BY BucketIs DEF LiveIn, OccupiedIn
<1> HIDE DEF n, C, u
<1>4. u = [n_buckets |-> n, size |-> 0, n_occupied |-> 0,
           upper_bound |-> t.upper_bound, buckets |-> C]
  <2>1. PICK a, b, d, B : a = t.size /\ b = t.n_occupied /\ d = t.upper_bound /\ B = t.buckets
    OBVIOUS
  <2>2. t = [n_buckets |-> n, size |-> a, n_occupied |-> b, upper_bound |-> d, buckets |-> B]
    BY <1>1, <2>1
  <2>3. u = [n_buckets |-> n, size |-> 0, n_occupied |-> 0, upper_bound |-> d, buckets |-> C]
    BY ONLY <1>2, <2>2
  <2> QED
    BY <2>1, <2>3
<1>5. Cardinality({}) = 0
  BY FS_EmptySet
<1>6. AllReached(n, C) /\ AllDiffer(C)
  BY <1>3 DEF AllReached, AllDiffer
<1>7. 0 <= t.upper_bound
  BY <1>1, UpperBoundIs
<1>8. /\ u.n_buckets = n /\ u.size = 0 /\ u.n_occupied = 0
      /\ u.upper_bound = t.upper_bound /\ u.buckets = C
  BY <1>4
<1>9. WellFormed(u)
  BY <1>1, <1>3, <1>4, <1>5, <1>6, <1>7, <1>8 DEF WellFormed
<1>10. Contents(u.buckets) = {}
  BY <1>3, <1>8 DEF Contents
<1> QED
  BY <1>9, <1>10, FindIs DEF u

(* The table starts without buckets.                                       *)
LEMMA InitTableIs ==
  WellFormed(kh_init) /\ \A k \in Keys : Find(kh_init, k) = "absent"
<1> DEFINE C == [i \in {} |-> Empty]
<1>1. C \in [0 .. 0 - 1 -> Bucket] /\ LiveIn(C) = {} /\ OccupiedIn(C) = {}
  BY DEF LiveIn, OccupiedIn
<1>2. kh_init = [n_buckets |-> 0, size |-> 0, n_occupied |-> 0, upper_bound |-> 0,
                 buckets |-> C]
  BY DEF kh_init
<1> HIDE DEF C
<1>3. Cardinality({}) = 0
  BY FS_EmptySet
<1>4. AllReached(0, C) /\ AllDiffer(C)
  BY <1>1 DEF AllReached, AllDiffer
<1>5. /\ kh_init.n_buckets = 0 /\ kh_init.size = 0 /\ kh_init.n_occupied = 0
      /\ kh_init.upper_bound = 0 /\ kh_init.buckets = C
  BY <1>2
<1>6. WellFormed(kh_init)
  <2> DEFINE t == kh_init
  <2>1. t = [n_buckets |-> t.n_buckets, size |-> t.size, n_occupied |-> t.n_occupied,
             upper_bound |-> t.upper_bound, buckets |-> t.buckets]
    BY <1>2, <1>5
  <2> HIDE DEF t
  <2>2. /\ t.n_buckets = 0 /\ t.size = 0 /\ t.n_occupied = 0
        /\ t.upper_bound = 0 /\ t.buckets = C
    BY <1>5 DEF t
  <2>3. t.buckets \in [0 .. t.n_buckets - 1 -> Bucket]
    BY <1>1, <2>2
  <2>4. t.size = Cardinality(LiveIn(t.buckets))
    BY <1>1, <1>3, <2>2
  <2>5. t.n_occupied = Cardinality(OccupiedIn(t.buckets)) /\ t.n_occupied <= t.upper_bound
    <3>1. t.n_occupied <= t.upper_bound
      BY ONLY <2>2
    <3> QED
      BY <1>1, <1>3, <2>2, <3>1
  <2>6. AllReached(t.n_buckets, t.buckets) /\ AllDiffer(t.buckets)
    BY <1>4, <2>2
  <2>7. WellFormed(t)
    BY <2>1, <2>2, <2>3, <2>4, <2>5, <2>6, Zenon DEF WellFormed
  <2> QED
    BY <2>7 DEF t
<1>7. Contents(kh_init.buckets) = {}
  BY <1>1, <1>5 DEF Contents
<1> QED
  BY <1>6, <1>7, FindIs

-----------------------------------------------------------------------------
(* The theorems *)

(* What a step does to the table and to the map it stands for.             *)
MapOf(t) == [key \in Keys |-> Find(t, key)]

LEMMA PutStep ==
  ASSUME KHInv, NEW key \in Keys, kh_put(key)
  PROVE  /\ KHInv' /\ MapOf(h') = [MapOf(h) EXCEPT ![key] = "size"]
         /\ ret' \in {0, 1, 2} /\ (ret' = 0 <=> MapOf(h)[key] # "absent")
<1>1. PICK a, g : a = h /\ g = h'
  OBVIOUS
<1> DEFINE t == MakeRoom(a)
<1>2. WellFormed(a)
  BY <1>1 DEF KHInv
<1>3. g = PutTable(t, key) /\ ret' = PutRet(t, key)
  BY <1>1 DEF kh_put, PutTable, PutRet
<1>4. /\ WellFormed(t) /\ t.n_buckets # 0 /\ Contents(t.buckets) = Contents(a.buckets)
      /\ t.n_occupied < t.upper_bound
  BY <1>2, MakeRoomIs
<1> HIDE DEF t
<1>5. /\ WellFormed(g) /\ ret' \in {0, 1, 2}
      /\ \A k \in Keys : Find(g, k) = IF k = key THEN "size" ELSE Find(t, k)
      /\ ret' = 0 <=> Find(t, key) # "absent"
  BY <1>3, <1>4, PutTableIs
<1>6. \A k \in Keys : Find(t, k) = Find(a, k)
  BY <1>2, <1>4, SameContents
<1>7. MapOf(g) = [MapOf(a) EXCEPT ![key] = "size"] /\ MapOf(a)[key] = Find(t, key)
  BY <1>5, <1>6 DEF MapOf
<1> QED
  BY <1>1, <1>5, <1>7 DEF KHInv

LEMMA FreedStep ==
  ASSUME KHInv, NEW key \in Keys, SetFreed(key)
  PROVE  /\ KHInv' /\ MapOf(h') = [MapOf(h) EXCEPT ![key] = "freed"]
         /\ MapOf(h)[key] # "absent"
<1>1. PICK t, g : t = h /\ g = h'
  OBVIOUS
<1>2. WellFormed(t) /\ kh_get(t, key) # t.n_buckets /\ g = FreedTable(t, key)
  BY <1>1 DEF KHInv, SetFreed, FreedTable
<1>3. /\ WellFormed(g) /\ Find(t, key) # "absent"
      /\ \A k \in Keys : Find(g, k) = IF k = key THEN "freed" ELSE Find(t, k)
  BY <1>2, FreedTableIs
<1>4. MapOf(g) = [MapOf(t) EXCEPT ![key] = "freed"] /\ MapOf(t)[key] # "absent"
  BY <1>3 DEF MapOf
<1> QED
  BY <1>1, <1>3, <1>4 DEF KHInv, SetFreed

LEMMA DelStep ==
  ASSUME KHInv, NEW key \in Keys, kh_del(key)
  PROVE  KHInv' /\ MapOf(h') = [MapOf(h) EXCEPT ![key] = "absent"]
<1>1. PICK t, g : t = h /\ g = h'
  OBVIOUS
<1>2. WellFormed(t) /\ kh_get(t, key) # t.n_buckets /\ g = DelTable(t, key)
  BY <1>1 DEF KHInv, kh_del, DelTable
<1>3. /\ WellFormed(g)
      /\ \A k \in Keys : Find(g, k) = IF k = key THEN "absent" ELSE Find(t, k)
  BY <1>2, DelTableIs
<1>4. MapOf(g) = [MapOf(t) EXCEPT ![key] = "absent"]
  BY <1>3 DEF MapOf
<1> QED
  BY <1>1, <1>3, <1>4 DEF KHInv, kh_del

LEMMA ClearStep ==
  ASSUME KHInv, kh_clear
  PROVE  KHInv' /\ MapOf(h') = [key \in Keys |-> "absent"]
<1>1. PICK t, g : t = h /\ g = h'
  OBVIOUS
<1>2. WellFormed(t) /\ g = ClearTable(t)
  BY <1>1 DEF KHInv, kh_clear, ClearTable
<1>3. WellFormed(g) /\ \A k \in Keys : Find(g, k) = "absent"
  BY <1>2, ClearTableIs
<1>4. MapOf(g) = [key \in Keys |-> "absent"]
  BY <1>3 DEF MapOf
<1> QED
  BY <1>1, <1>3, <1>4 DEF KHInv, kh_clear

LEMMA FailStep ==
  ASSUME KHInv, kh_putFails
  PROVE  KHInv' /\ MapOf(h') = MapOf(h) /\ ret' = -1
BY DEF KHInv, kh_putFails

(* Every call of kh_put, kh_del, kh_clear and every write through kh_value *)
(* leaves a table in which the counters are exact, a bucket is empty, no   *)
(* key is live twice, and every live key is on the way of its own search.  *)
THEOREM KHashInvariant == KHSpec => []KHInv
<1>1. KHInit => KHInv
  BY InitTableIs DEF KHInit, KHInv
<1>2. KHInv /\ [KHNext]_khVars => KHInv'
  <2> SUFFICES ASSUME KHInv, [KHNext]_khVars PROVE KHInv'
    OBVIOUS
  <2>1. ASSUME NEW key \in Keys, kh_put(key) PROVE KHInv'
    BY <2>1, PutStep
  <2>2. ASSUME NEW key \in Keys, SetFreed(key) PROVE KHInv'
    BY <2>2, FreedStep
  <2>3. ASSUME NEW key \in Keys, kh_del(key) PROVE KHInv'
    BY <2>3, DelStep
  <2>4. CASE kh_putFails
    BY <2>4, FailStep
  <2>5. CASE kh_clear
    BY <2>5, ClearStep
  <2>6. CASE UNCHANGED khVars
    BY <2>6 DEF khVars, KHInv
  <2> QED
    BY <2>1, <2>2, <2>3, <2>4, <2>5, <2>6 DEF KHNext
<1> QED
  BY <1>1, <1>2, PTL DEF KHSpec

(* The loops of kh_get, kh_put and kh_resize end: the counters that decide *)
(* when kh_put makes room are exact, and an allocated table always has an  *)
(* empty bucket, whatever the pointers hash to.                            *)
THEOREM ProbesEndCorrect == KHSpec => []ProbesEnd
<1>1. KHInv => ProbesEnd
  <2> SUFFICES ASSUME KHInv PROVE ProbesEnd
    OBVIOUS
  <2>1. PICK t : t = h
    OBVIOUS
  <2>2. WellFormed(t)
    BY <2>1 DEF KHInv
  <2>3. /\ t.size = Cardinality(LiveIn(t.buckets))
        /\ t.n_occupied = Cardinality(OccupiedIn(t.buckets))
    BY <2>2 DEF WellFormed
  <2>4. t.n_buckets > 0 => OccupiedIn(t.buckets) # DOMAIN t.buckets
    <3> SUFFICES ASSUME t.n_buckets > 0, OccupiedIn(t.buckets) = DOMAIN t.buckets PROVE FALSE
      OBVIOUS
    <3>1. t.n_buckets # 0
      OBVIOUS
    <3>2. /\ t.n_buckets \in Nat /\ DOMAIN t.buckets = 0 .. t.n_buckets - 1
          /\ Cardinality(OccupiedIn(t.buckets)) < t.n_buckets
      BY <2>2, <3>1, HasEmpty
    <3>3. Cardinality(0 .. t.n_buckets - 1) = t.n_buckets
      <4>1. /\ 0 \in Int /\ t.n_buckets - 1 \in Int /\ ~(0 > t.n_buckets - 1)
            /\ t.n_buckets - 1 - 0 + 1 = t.n_buckets
        BY <3>1, <3>2
      <4> QED
        BY <4>1, FS_Interval
    <3> QED
      BY <3>2, <3>3
  <2>5. LiveBuckets = LiveIn(t.buckets) /\ Occupied = OccupiedIn(t.buckets)
    BY <2>1 DEF LiveBuckets, Occupied, LiveIn, OccupiedIn
  <2> QED
    BY <2>1, <2>3, <2>4, <2>5 DEF ProbesEnd
<1> QED
  BY <1>1, KHashInvariant, PTL

(* kh_put never makes a second live bucket of a key, though it puts a key  *)
(* in a deleted bucket before the end of its search.                       *)
THEOREM KeysUniqueCorrect == KHSpec => []KeysUnique
<1>1. KHInv => KeysUnique
  <2> SUFFICES ASSUME KHInv PROVE KeysUnique
    OBVIOUS
  <2>1. AllDiffer(h.buckets)
    BY DEF KHInv, WellFormed
  <2>2. LiveBuckets = LiveIn(h.buckets)
    BY DEF LiveBuckets, LiveIn
  <2> QED
    BY <2>1, <2>2 DEF AllDiffer, KeysUnique
<1> QED
  BY <1>1, KHashInvariant, PTL

(* khash is the map that kmalloc takes it for: kh_get finds what was put   *)
(* and not deleted since, through every rehash, and a failed kh_put leaves *)
(* it as it was.                                                           *)
THEOREM KHashImplementsPointerMap == KHSpec => ImplementsPointerMap
<1> DEFINE map == [key \in Keys |-> Lookup(key)]
           result == IF ret = 2 THEN 1 ELSE ret
<1>1. map = MapOf(h) /\ map' = MapOf(h')
  <2>1. \A key \in Keys : Lookup(key) = Find(h, key)
    BY DEF Lookup, Find
  <2>2. \A key \in Keys : Lookup(key)' = Find(h', key)
    BY DEF Lookup, Find
  <2> QED
    BY <2>1, <2>2 DEF MapOf
<1>2. KHInit => Map!PMInit
  <2> SUFFICES ASSUME KHInit PROVE Map!PMInit
    OBVIOUS
  <2>1. MapOf(h) = [key \in Keys |-> "absent"]
    BY InitTableIs DEF KHInit, MapOf
  <2>2. ret = 0
    BY DEF KHInit
  <2> QED
    BY <1>1, <2>1, <2>2 DEF Map!PMInit
<1>3. KHInv /\ [KHNext]_khVars => [Map!PMNext]_<<map, result>>
  <2> SUFFICES ASSUME KHInv, [KHNext]_khVars PROVE [Map!PMNext]_<<map, result>>
    OBVIOUS
  <2> USE <1>1
  <2> HIDE DEF map
  <2>1. ASSUME NEW key \in Keys, kh_put(key) PROVE Map!PMPut(key)
    <3>1. /\ map' = [map EXCEPT ![key] = "size"]
          /\ ret' \in {0, 1, 2} /\ (ret' = 0 <=> map[key] # "absent")
      BY <2>1, PutStep
    <3>2. result' = IF map[key] = "absent" THEN 1 ELSE 0
      BY <3>1
    <3> QED
      BY <3>1, <3>2 DEF Map!PMPut, map
  <2>2. ASSUME NEW key \in Keys, SetFreed(key) PROVE Map!PMSetFreed(key)
    <3>1. map' = [map EXCEPT ![key] = "freed"] /\ map[key] # "absent"
      BY <2>2, FreedStep
    <3>2. result' = result
      BY <2>2 DEF SetFreed
    <3> QED
      BY <3>1, <3>2 DEF Map!PMSetFreed, map
  <2>3. ASSUME NEW key \in Keys, kh_del(key) PROVE Map!PMDel(key)
    <3>1. map' = [map EXCEPT ![key] = "absent"]
      BY <2>3, DelStep
    <3>2. result' = result
      BY <2>3 DEF kh_del
    <3> QED
      BY <3>1, <3>2 DEF Map!PMDel, map
  <2>4. ASSUME kh_putFails PROVE Map!PMPutFails
    <3>1. map' = map /\ result' = -1
      BY <2>4, FailStep
    <3> QED
      BY <3>1 DEF Map!PMPutFails, map
  <2>5. ASSUME kh_clear PROVE Map!PMClear
    <3>1. map' = [key \in Keys |-> "absent"]
      BY <2>5, ClearStep
    <3>2. result' = result
      BY <2>5 DEF kh_clear
    <3> QED
      BY <3>1, <3>2 DEF Map!PMClear, map
  <2>6. CASE UNCHANGED khVars
    <3>1. map' = map /\ result' = result
      BY <2>6 DEF khVars
    <3> QED
      BY <3>1
  <2> QED
    BY <2>1, <2>2, <2>3, <2>4, <2>5, <2>6 DEF KHNext, Map!PMNext
<1> HIDE DEF map, result
<1> QED
  BY <1>2, <1>3, KHashInvariant, PTL DEF KHSpec, ImplementsPointerMap, Map!PMSpec, map, result
=============================================================================
