------------------------- MODULE PolicyClock_proofs -------------------------
(***************************************************************************)
(* Proofs about the Clock policy, for every memory size, swap size and set *)
(* of pages, whatever the disk does.                                       *)
(***************************************************************************)
EXTENDS PolicyClock, MemSim_proofs, SequenceTheorems

-----------------------------------------------------------------------------
(* The ring of frames *)

Clocks == [next : [Frames -> Frames \cup {NULL}], prev : [Frames -> Frames \cup {NULL}],
           list : Frames \cup {NULL}, hand : Frames \cup {NULL}]

(* w is the ring of the frames of on, m in number, read from frame x.      *)
Reads(c, on, x, w, m) ==
  /\ Ring(c, Frames, w, m)
  /\ w[0] = x /\ OnRing(w, m) = on /\ m = Cardinality(on)

(* The ring links the frames of on; list and hand are among them.  The     *)
(* other frames are unlinked.                                              *)
ClockRing(c, on) ==
  /\ on = {} => c.list = NULL
  /\ on # {} => c.list \in on /\ \E w, m : Reads(c, on, c.hand, w, m)
  /\ \A f \in Frames \ on : c.next[f] = NULL

LEMMA ClockPointers ==
  ASSUME NEW c \in Clocks
  PROVE  Pointers(c, Frames) /\ NULL \notin Frames
BY NullPointerAssumption DEF Clocks, Pointers

(* A nonempty ring is one read from any of its frames.                     *)
LEMMA ReadFrom ==
  ASSUME NEW c, NEW on, on # {}, ClockRing(c, on), NEW x \in on
  PROVE  \E w, m : Reads(c, on, x, w, m)
<1>1. PICK w, m : Reads(c, on, c.hand, w, m)
  BY DEF ClockRing
<1>2. Ring(c, Frames, w, m) /\ x \in OnRing(w, m)
  BY <1>1 DEF Reads
<1>3. PICK v : Ring(c, Frames, v, m) /\ v[0] = x /\ OnRing(v, m) = OnRing(w, m)
  BY <1>2, RotateRing
<1> QED
  BY <1>1, <1>3 DEF Reads

(* The hand and its neighbours are on the ring, linked both ways.          *)
LEMMA HandOnRing ==
  ASSUME NEW c, NEW on, on # {}, ClockRing(c, on)
  PROVE  /\ c.hand \in on /\ c.next[c.hand] \in on /\ c.prev[c.hand] \in on
         /\ c.prev[c.next[c.hand]] = c.hand /\ c.next[c.prev[c.hand]] = c.hand
         /\ on \subseteq Frames
         /\ \A f \in on : c.next[f] \in on /\ c.prev[c.next[f]] = f
<1>1. PICK w, m : Reads(c, on, c.hand, w, m)
  BY DEF ClockRing
<1>2. /\ Ring(c, Frames, w, m) /\ w[0] = c.hand /\ OnRing(w, m) = on
      /\ m \in Nat \ {0} /\ w[m] = w[0]
  BY <1>1 DEF Reads, Ring
<1>3. on \subseteq Frames /\ \A k \in 0 .. m : w[k] \in on
  BY <1>2, RingNodes
<1>4. ASSUME NEW k \in 0 .. m - 1
      PROVE  /\ c.next[w[k]] = w[k + 1] /\ c.prev[w[k + 1]] = w[k]
             /\ w[k] \in on /\ w[k + 1] \in on
  <2>1. k \in 0 .. m /\ k + 1 \in 0 .. m
    BY <1>2
  <2> QED
    BY <1>2, <1>3, <2>1 DEF Ring
<1>5. \A f \in on : c.next[f] \in on /\ c.prev[c.next[f]] = f
  BY <1>2, <1>4 DEF OnRing
<1>6. c.prev[c.hand] \in on /\ c.next[c.prev[c.hand]] = c.hand
  <2>1. m - 1 \in 0 .. m - 1 /\ (m - 1) + 1 = m
    BY <1>2
  <2> QED
    BY <1>2, <1>4, <2>1
<1>7. c.hand \in on
  BY <1>2, <1>3
<1> QED
  BY <1>3, <1>5, <1>6, <1>7

(* A ring stays one when only list and hand move along it.                 *)
LEMMA HandMoves ==
  ASSUME NEW c, NEW on, on # {}, ClockRing(c, on), NEW r,
         r.next = c.next, r.prev = c.prev, r.list \in on, r.hand \in on
  PROVE  ClockRing(r, on)
<1>1. PICK w, m : Reads(c, on, r.hand, w, m)
  BY ReadFrom
<1>2. Ring(r, Frames, w, m)
  BY <1>1, RingKept DEF Reads
<1> QED
  BY <1>1, <1>2 DEF ClockRing, Reads

LEMMA AdvanceKeeps ==
  ASSUME NEW c \in Clocks, NEW on, on # {}, ClockRing(c, on)
  PROVE  Advance(c) \in Clocks /\ ClockRing(Advance(c), on)
<1>1. c.next[c.hand] \in on /\ c.list \in on /\ on \subseteq Frames
  BY HandOnRing DEF ClockRing
<1>2. /\ Advance(c) \in Clocks /\ Advance(c).next = c.next
      /\ Advance(c).prev = c.prev /\ Advance(c).list = c.list
      /\ Advance(c).hand = c.next[c.hand]
  BY <1>1 DEF Advance, Clocks
<1> QED
  BY <1>1, <1>2, HandMoves

(* The first frame becomes a ring of its own.                              *)
LEMMA FirstReference ==
  ASSUME NEW c \in Clocks, ClockRing(c, {}), NEW f \in Frames
  PROVE  LET r == CSC369_PolicyClockOnRef(c, f)
         IN  /\ r \in Clocks /\ ClockRing(r, {f})
             /\ r.list = r.next[r.hand] /\ r.list = f
<1> DEFINE r == CSC369_PolicyClockOnRef(c, f)
           w == [k \in 0 .. 1 |-> f]
<1>1. c.list = NULL /\ \A g \in Frames : c.next[g] = NULL
  BY DEF ClockRing
<1>2. /\ r \in Clocks /\ r.next[f] = f /\ r.prev[f] = f /\ r.list = f /\ r.hand = f
      /\ \A g \in Frames \ {f} : r.next[g] = NULL
  BY <1>1 DEF CSC369_PolicyClockOnRef, list_init, list_entry_init, Clocks
<1> HIDE DEF r
<1>3. w \in [0 .. 1 -> Frames] /\ w[0] = f /\ w[1] = f
  OBVIOUS
<1> HIDE DEF w
<1>4. 1 - 1 = 0 /\ 0 .. 0 = {0} /\ 0 + 1 = 1
  OBVIOUS
<1>5. Ring(r, Frames, w, 1) /\ OnRing(w, 1) = {f}
  BY <1>2, <1>3, <1>4 DEF Ring, OnRing
<1>6. Cardinality({f}) = 1
  BY FS_Singleton
<1>7. ClockRing(r, {f})
  BY <1>2, <1>3, <1>5, <1>6 DEF ClockRing, Reads
<1> QED
  BY <1>2, <1>7 DEF r

(* A further frame goes in before list, and the hand moves onto it.        *)
LEMMA NewReference ==
  ASSUME NEW c \in Clocks, NEW on, on # {}, ClockRing(c, on),
         NEW f \in Frames \ on
  PROVE  LET r == CSC369_PolicyClockOnRef(c, f)
         IN  /\ r \in Clocks /\ ClockRing(r, on \cup {f})
             /\ r.list = r.next[r.hand]
             /\ \E w, m : /\ Reads(c, on, c.list, w, m)
                         /\ Reads(r, on \cup {f}, r.list,
                                  Inserted(w, m, m, f), m + 1)
<1> DEFINE d == list_entry_init(c, f)
           s == list_add_tail(d, c.list, f)
           r == [s EXCEPT !.hand = f]
<1>1. /\ c.list \in on /\ on \subseteq Frames /\ c.next[f] = NULL
      /\ NULL \notin Frames
  BY HandOnRing, ClockPointers DEF ClockRing
<1>2. CSC369_PolicyClockOnRef(c, f) = r
  BY <1>1 DEF CSC369_PolicyClockOnRef, list_entry_is_linked
<1>3. /\ d \in Clocks /\ d.list = c.list
      /\ \A g \in Frames \ {f} : d.next[g] = c.next[g] /\ d.prev[g] = c.prev[g]
  BY DEF list_entry_init, Clocks
<1> HIDE DEF d
<1>4. PICK w, m : Reads(c, on, c.list, w, m)
  BY <1>1, ReadFrom
<1>5. Ring(d, Frames, w, m)
  BY <1>1, <1>3, <1>4, RingKept DEF Reads
<1>6. /\ m \in Nat \ {0} /\ d.prev[w[0]] = w[m - 1] /\ w[m] = w[0]
      /\ w \in [0 .. m -> Frames]
  BY <1>5, RingEnds DEF Ring
<1>7. s = list_insert(d, f, w[m - 1], w[m])
  BY <1>4, <1>6 DEF list_add_tail, Reads
<1> DEFINE p == w[m - 1]
           q == w[m]
<1>8. p \in Frames /\ q \in Frames /\ f # p /\ f # q
  <2>1. m - 1 \in 0 .. m - 1 /\ m - 1 \in 0 .. m /\ m \in 0 .. m
    BY <1>6
  <2>2. w[m - 1] \in on /\ w[m] \in on
    BY <1>4, <2>1, RingNodes DEF Reads
  <2> QED
    BY <1>1, <2>2
<1>9. s \in Clocks /\ s.list = c.list /\ r \in Clocks
      /\ r.next = s.next /\ r.prev = s.prev /\ r.list = s.list /\ r.hand = f
  <2>1. s = list_insert(d, f, p, q)
    BY <1>7
  <2> HIDE DEF p, q, s
  <2>2. s \in Clocks /\ s.list = c.list
    BY <1>3, <1>8, <2>1 DEF list_insert, Clocks
  <2> QED
    BY <2>2 DEF Clocks
<1>10. PICK k \in 1 .. m : k = m
  BY <1>6
<1> DEFINE u == Inserted(w, m, k, f)
<1>11. /\ Ring(s, Frames, u, m + 1) /\ u[0] = w[0] /\ u[k] = f
       /\ OnRing(u, m + 1) = on \cup {f}
       /\ \A x \in Frames \ (on \cup {f}) : s.next[x] = d.next[x]
  <2>1. LET t == list_insert(d, f, w[k - 1], w[k])
        IN  /\ Ring(t, Frames, u, m + 1)
            /\ u[0] = w[0] /\ u[k] = f
            /\ OnRing(u, m + 1) = OnRing(w, m) \cup {f}
            /\ \A x \in Frames \ (OnRing(w, m) \cup {f}) : t.next[x] = d.next[x]
    <3>1. f \notin OnRing(w, m)
      BY <1>4 DEF Reads
    <3> QED
      BY <1>3, <1>5, <3>1, ClockPointers, InsertRing
  <2> QED
    BY <1>4, <1>7, <1>10, <2>1 DEF Reads
<1> HIDE DEF u, s, r
<1>12. m + 1 = Cardinality(on \cup {f})
  <2>1. IsFiniteSet(on)
    BY <1>1, FramesFinite
  <2> QED
    BY <1>4, <2>1, FS_AddElement DEF Reads
<1>13. Ring(r, Frames, u, m + 1)
  BY <1>9, <1>11, RingKept
<1>14. PICK v : /\ Ring(r, Frames, v, m + 1) /\ v[0] = f
                /\ OnRing(v, m + 1) = on \cup {f}
  <2>1. f \in OnRing(u, m + 1)
    BY <1>11
  <2> QED
    BY <1>11, <1>13, <2>1, RotateRing
<1>15. \A g \in Frames \ (on \cup {f}) : r.next[g] = NULL
  BY <1>3, <1>9, <1>11 DEF ClockRing
<1>16. ClockRing(r, on \cup {f})
  BY <1>1, <1>9, <1>12, <1>14, <1>15 DEF ClockRing, Reads
<1>17. r.list = r.next[r.hand]
  <2>1. k \in 0 .. (m + 1) - 1 /\ k + 1 = m + 1
    BY <1>6, <1>10
  <2>2. r.next[u[k]] = u[k + 1] /\ u[m + 1] = u[0]
    BY <1>13, <2>1 DEF Ring
  <2> QED
    BY <1>4, <1>9, <1>11, <2>1, <2>2 DEF Reads
<1>18. Reads(r, on \cup {f}, r.list, Inserted(w, m, m, f), m + 1)
  BY <1>4, <1>9, <1>10, <1>11, <1>12, <1>13 DEF Reads, u
<1> QED
  BY <1>2, <1>4, <1>9, <1>16, <1>17, <1>18

(* A frame already linked stays where it is.                               *)
LEMMA OldReference ==
  ASSUME NEW c \in Clocks, NEW on, ClockRing(c, on), NEW f \in on
  PROVE  CSC369_PolicyClockOnRef(c, f) = c
<1>1. c.list # NULL /\ c.next[f] # NULL
  BY HandOnRing, ClockPointers DEF ClockRing
<1> QED
  BY <1>1 DEF CSC369_PolicyClockOnRef, list_entry_is_linked

(* Taking out the frame under the hand keeps the pointers well typed.      *)
LEMMA UnlinkType ==
  ASSUME NEW c \in Clocks, NEW on, on # {}, ClockRing(c, on)
  PROVE  Unlink(c) \in Clocks
<1>1. /\ c.hand \in Frames /\ c.next[c.hand] \in Frames
      /\ c.prev[c.hand] \in Frames
  BY HandOnRing
<1>2. list_del(c, c.hand) \in Clocks
  BY <1>1 DEF list_del, list_entry_init, Clocks
<1> DEFINE rest == [list_del(c, c.hand) EXCEPT !.list = c.next[c.hand]]
<1>3. rest \in Clocks
  BY <1>1, <1>2 DEF Clocks
<1>4. [rest EXCEPT !.list = NULL] \in Clocks
  BY <1>3 DEF Clocks
<1> QED
  BY <1>3, <1>4 DEF Unlink

(* The frame under the hand, taken out of a full ring and given to a new   *)
(* page, goes back to the same place; only list has moved.                 *)
LEMMA Reinserted ==
  ASSUME NEW c \in Clocks, NEW on, on # {}, ClockRing(c, on)
  PROVE  CSC369_PolicyClockOnRef(Unlink(c), c.hand) =
           [c EXCEPT !.list = c.next[c.hand]]
<1> DEFINE e == c.hand
           n == c.next[e]
           p == c.prev[e]
           d == list_del(c, e)
           r == CSC369_PolicyClockOnRef(Unlink(c), e)
<1>1. /\ e \in Frames /\ n \in Frames /\ p \in Frames
      /\ c.prev[n] = e /\ c.next[p] = e /\ NULL \notin Frames
  BY HandOnRing, ClockPointers
<1>2. /\ c.next \in [Frames -> Frames \cup {NULL}]
      /\ c.prev \in [Frames -> Frames \cup {NULL}]
  BY DEF Clocks
<1>3. /\ d \in Clocks
      /\ d.next = [[c.next EXCEPT ![p] = n] EXCEPT ![e] = NULL]
      /\ d.prev = [[c.prev EXCEPT ![n] = p] EXCEPT ![e] = NULL]
      /\ d.hand = e
  BY <1>1 DEF list_del, list_entry_init, Clocks
<1>4. ASSUME NEW x \in Clocks, x.next = c.next, x.prev = c.prev, x.list = n,
             x.hand = e
      PROVE  x = [c EXCEPT !.list = n]
  BY <1>4, <1>1 DEF Clocks
<1>5. CASE n = e
  <2>1. p = e
    BY <1>1, <1>5
  <2> DEFINE b == [[d EXCEPT !.list = n] EXCEPT !.list = NULL]
  <2>2. Unlink(c) = b
    BY <1>1, <1>3, <1>5 DEF Unlink, Clocks
  <2>3. /\ b \in Clocks /\ b.list = NULL /\ b.next = d.next /\ b.prev = d.prev
    BY <1>3 DEF Clocks
  <2> HIDE DEF b, d
  <2>4. r = [list_init(list_entry_init(b, e), e) EXCEPT !.list = e, !.hand = e]
    BY <2>2, <2>3 DEF CSC369_PolicyClockOnRef
  <2>5. /\ r \in Clocks /\ r.list = e /\ r.hand = e
        /\ r.next = [[b.next EXCEPT ![e] = NULL] EXCEPT ![e] = e]
        /\ r.prev = [[b.prev EXCEPT ![e] = NULL] EXCEPT ![e] = e]
    BY <1>1, <2>3, <2>4 DEF list_init, list_entry_init, Clocks
  <2>6. r.next = c.next /\ r.prev = c.prev
    BY <1>1, <1>2, <1>3, <1>5, <2>1, <2>3, <2>5
  <2> QED
    BY <1>4, <1>5, <2>5, <2>6
<1>6. CASE n # e
  <2>1. p # e
    BY <1>1, <1>6
  <2> DEFINE b == [d EXCEPT !.list = n]
  <2>2. Unlink(c) = b
    BY <1>1, <1>3, <1>6 DEF Unlink, Clocks
  <2>3. /\ b \in Clocks /\ b.list = n /\ b.next = d.next /\ b.prev = d.prev
        /\ b.hand = e
    BY <1>1, <1>3 DEF Clocks
  <2> HIDE DEF b, d
  <2>4. b.next[e] = NULL /\ b.prev[e] = NULL /\ b.prev[n] = p
    BY <1>1, <1>2, <1>3, <1>6, <2>3
  <2> DEFINE a == list_entry_init(b, e)
  <2>5. r = [list_add_tail(a, n, e) EXCEPT !.hand = e]
    BY <1>1, <2>2, <2>3, <2>4 DEF CSC369_PolicyClockOnRef, list_entry_is_linked
  <2>6. /\ a \in Clocks /\ a.list = n /\ a.next = b.next /\ a.prev = b.prev
    BY <1>1, <2>3, <2>4 DEF list_entry_init, Clocks
  <2> HIDE DEF a
  <2>7. list_add_tail(a, n, e) = list_insert(a, e, p, n)
    BY <2>4, <2>6 DEF list_add_tail
  <2>8. /\ r \in Clocks /\ r.list = n /\ r.hand = e
        /\ r.next = [[a.next EXCEPT ![e] = n] EXCEPT ![p] = e]
        /\ r.prev = [[a.prev EXCEPT ![n] = e] EXCEPT ![e] = p]
    <3> DEFINE i == list_insert(a, e, p, n)
    <3> HIDE DEF e, n, p, r
    <3>1. /\ i \in Clocks /\ i.list = n
          /\ i.next = [[a.next EXCEPT ![e] = n] EXCEPT ![p] = e]
          /\ i.prev = [[a.prev EXCEPT ![n] = e] EXCEPT ![e] = p]
      BY <1>1, <2>6 DEF list_insert, Clocks
    <3>2. r = [i EXCEPT !.hand = e]
      BY <2>5, <2>7
    <3> HIDE DEF i
    <3> QED
      BY <1>1, <3>1, <3>2 DEF Clocks
  <2>9. r.next = c.next /\ r.prev = c.prev
    BY <1>1, <1>2, <1>3, <1>6, <2>1, <2>3, <2>6, <2>8
  <2> QED
    BY <1>4, <2>8, <2>9
<1> QED
  BY <1>5, <1>6
-----------------------------------------------------------------------------
(* The invariant of the policy *)

(* While Evict runs, the access it runs for waits unchanged for a frame of *)
(* the full memory.                                                        *)
Evicting ==
  pending # NULL =>
    /\ pending \in Accesses /\ status = "running" /\ WellFormed(pending)
    /\ FreeFrames = {} /\ ~pte[pending.page].valid

(* The ring links the frames in use.  Outside Evict, list is the frame     *)
(* after the hand: a new frame goes in between the two.                    *)
Rung ==
  status # "aborted" =>
    /\ ClockRing(clock, UsedFrames)
    /\ pending = NULL /\ UsedFrames # {} => clock.list = clock.next[clock.hand]

ClockInv == ClockTypeOK /\ CoremapConsistent /\ Evicting /\ Rung

LEMMA ClockInvTypes ==
  ASSUME ClockInv
  PROVE  /\ clock \in Clocks /\ reference \in [Pages -> BOOLEAN] /\ TypeOK
         /\ frames \in [Frames -> Pages \cup {NULL}]
         /\ pte \in [Pages -> PTE]
BY DEF ClockInv, ClockTypeOK, Clocks, TypeOK, MMTypeOK

(* With memory full, the frame under the hand holds a page whose entry     *)
(* names it.                                                               *)
LEMMA UnderHand ==
  ASSUME ClockInv, status # "aborted", FreeFrames = {}
  PROVE  /\ ClockRing(clock, Frames) /\ Frames # {} /\ UsedFrames = Frames
         /\ clock.hand \in Frames /\ frames[clock.hand] \in Pages
         /\ pte[frames[clock.hand]].valid
         /\ pte[frames[clock.hand]].frame_number = clock.hand
<1>1. UsedFrames = Frames /\ Frames # {}
  <2>1. 0 \in Frames
    BY Constants DEF Frames
  <2> QED
    BY <2>1 DEF UsedFrames
<1>2. ClockRing(clock, Frames)
  BY <1>1 DEF ClockInv, Rung
<1>3. clock.hand \in Frames
  BY <1>1, <1>2, HandOnRing
<1>4. frames[clock.hand] \in Pages
  BY <1>3, ClockInvTypes, FullMemory
<1> QED
  BY <1>1, <1>2, <1>3, <1>4, Constants DEF ClockInv, CoremapConsistent

(* A step under Clock is a step of MemSim, or none: the iterations of      *)
(* Evict's loop do not touch the memory manager.                           *)
LEMMA ClockStep ==
  ASSUME ClockInv, [ClockNext]_clockVars
  PROVE  [Next]_vars
<1>1. ASSUME NEW a \in Accesses, ClockAccess(a) PROVE Next
  BY <1>1 DEF ClockAccess, Next
<1>2. ASSUME EvictFinds PROVE Next
  <2>1. /\ pending \in Accesses /\ status = "running" /\ WellFormed(pending)
        /\ FreeFrames = {}
    BY <1>2 DEF EvictFinds, ClockInv, Evicting
  <2>2. MissEvict(pending, pte[frames[clock.hand]].frame_number)
    BY <1>2 DEF EvictFinds
  <2>3. MissEvict(pending, clock.hand) /\ clock.hand \in Frames
    BY <2>1, <2>2, UnderHand
  <2> QED
    BY <2>1, <2>3 DEF Next, CSC369_PolicyRandEvict
<1> QED
  BY <1>1, <1>2
     DEF ClockNext, EvictBegins, EvictSkips, ClockTraceEnd, clockVars, Next, vars

LEMMA ReferenceType ==
  ASSUME reference \in [Pages -> BOOLEAN], NEW c, NEW p, OnReference(c, p)
  PROVE  reference' \in [Pages -> BOOLEAN]
BY DEF OnReference

(* A hit leaves the ring alone: the frame is on it.                        *)
LEMMA HitFacts ==
  ASSUME ClockInv, NEW a \in Accesses, ClockAccess(a), Hit(a),
         status' # "aborted"
  PROVE  /\ clock' = clock /\ frames' = frames /\ UsedFrames' = UsedFrames
         /\ reference' = [reference EXCEPT ![a.page] = TRUE]
         /\ \E f \in UsedFrames : frames[f] = a.page
<1>1. /\ status = "running" /\ OnReference(clock, a.page) /\ a.page \in Pages
      /\ ClockRing(clock, UsedFrames) /\ clock \in Clocks
  BY ClockInvTypes DEF ClockAccess, ClockInv, Rung, Accesses
<1>2. /\ pte[a.page] \in PTE /\ pte[a.page].valid /\ frames' = frames
      /\ pte' = [pte EXCEPT ![a.page].dirty = @ \/ IsWrite(a)]
  BY <1>1, ClockInvTypes DEF Hit, MMHit
<1>3. pte'[a.page].frame_number = pte[a.page].frame_number
  BY <1>1, <1>2, ClockInvTypes DEF PTE
<1>4. /\ pte[a.page].frame_number \in UsedFrames
      /\ frames[pte[a.page].frame_number] = a.page
  BY <1>1, <1>2, Constants
     DEF UsedFrames, FreeFrames, ClockInv, CoremapConsistent, PTE
<1>5. /\ clock' = CSC369_PolicyClockOnRef(clock, pte'[a.page].frame_number)
      /\ reference' = [reference EXCEPT ![a.page] = TRUE]
  BY <1>1, <1>2, <1>3, <1>4 DEF OnReference
<1>6. clock' = clock
  BY <1>1, <1>3, <1>4, <1>5, OldReference
<1> QED
  BY <1>2, <1>4, <1>5, <1>6 DEF UsedFrames, FreeFrames

(* A miss in a memory that is not full links a free frame.                 *)
LEMMA MissFacts ==
  ASSUME ClockInv, NEW a \in Accesses, ClockAccess(a), MissFree(a),
         status' # "aborted"
  PROVE  \E f \in Frames \ UsedFrames :
           /\ frames' = [frames EXCEPT ![f] = a.page]
           /\ UsedFrames' = UsedFrames \cup {f}
           /\ clock' = CSC369_PolicyClockOnRef(clock, f)
           /\ reference' = [reference EXCEPT ![a.page] = TRUE]
<1>1. /\ OnReference(clock, a.page) /\ a.page \in Pages /\ a.page # NULL
  BY Constants DEF ClockAccess, Accesses
<1>2. PICK f \in Frames : f \in FreeFrames /\ Fill(a, f, pte, {})
  BY DEF MissFree, AllocateFree, FindFreeFrame
<1>3. /\ pte'[a.page].frame_number = f
      /\ frames' = [frames EXCEPT ![f] = a.page]
  BY <1>2, FillPlaces, ClockInvTypes
<1>4. UsedFrames' = UsedFrames \cup {f} /\ f \in Frames \ UsedFrames
  BY <1>1, <1>2, <1>3, ClockInvTypes DEF UsedFrames, FreeFrames
<1>5. /\ clock' = CSC369_PolicyClockOnRef(clock, f)
      /\ reference' = [reference EXCEPT ![a.page] = TRUE]
  BY <1>1, <1>3, ClockInvTypes DEF OnReference
<1> QED
  BY <1>3, <1>4, <1>5

(* An access that hits or finds a free frame.                              *)
LEMMA AccessKeeps ==
  ASSUME ClockInv, TypeOK', CoremapConsistent', NEW a \in Accesses, ClockAccess(a)
  PROVE  ClockInv'
<1>1. /\ status = "running" /\ pending = NULL /\ pending' = NULL
      /\ Hit(a) \/ MissFree(a)
      /\ OnReference(clock, a.page)
      /\ ClockRing(clock, UsedFrames)
      /\ UsedFrames # {} => clock.list = clock.next[clock.hand]
      /\ clock \in Clocks
  BY ClockInvTypes DEF ClockAccess, ClockInv, Rung
<1>2. ASSUME status' # "aborted", Hit(a)
      PROVE  clock' = clock /\ UsedFrames' = UsedFrames
  BY <1>2, HitFacts
<1>3. ASSUME status' # "aborted", MissFree(a)
      PROVE  /\ clock' \in Clocks /\ ClockRing(clock', UsedFrames')
             /\ clock'.list = clock'.next[clock'.hand]
  <2>1. PICK f \in Frames \ UsedFrames :
          /\ UsedFrames' = UsedFrames \cup {f}
          /\ clock' = CSC369_PolicyClockOnRef(clock, f)
    BY <1>3, MissFacts
  <2>2. CASE UsedFrames = {}
    <3>1. ClockRing(clock, {}) /\ UsedFrames' = {f}
      BY <1>1, <2>1, <2>2
    <3> QED
      BY <1>1, <2>1, <3>1, FirstReference
  <2>3. CASE UsedFrames # {}
    <3> DEFINE on == UsedFrames
    <3>1. on # {} /\ ClockRing(clock, on) /\ f \in Frames \ on
      BY <1>1, <2>1, <2>3
    <3> HIDE DEF on
    <3>2. LET r == CSC369_PolicyClockOnRef(clock, f)
          IN  /\ r \in Clocks /\ ClockRing(r, on \cup {f})
              /\ r.list = r.next[r.hand]
      BY <1>1, <3>1, NewReference
    <3> QED
      BY <2>1, <3>2 DEF on
  <2> QED
    BY <2>2, <2>3
<1>4. status' = "aborted" => clock' = clock
  BY <1>1 DEF OnReference
<1>5. clock' \in Clocks
  BY <1>1, <1>2, <1>3, <1>4
<1>6. ClockTypeOK'
  BY <1>1, <1>5, ClockInvTypes, ReferenceType DEF ClockTypeOK, Clocks
<1>7. ASSUME status' # "aborted"
      PROVE  /\ ClockRing(clock', UsedFrames')
             /\ UsedFrames' # {} => clock'.list = clock'.next[clock'.hand]
  BY <1>1, <1>2, <1>3, <1>7
<1>8. Rung'
  BY <1>7 DEF Rung
<1>9. Evicting'
  BY <1>1 DEF Evicting
<1> QED
  BY <1>6, <1>8, <1>9 DEF ClockInv

(* Evict steps the hand, when it starts and past a referenced frame.       *)
LEMMA HandStepKeeps ==
  ASSUME ClockInv, status = "running", FreeFrames = {}, UNCHANGED vars,
         clock' = Advance(clock), reference' \in [Pages -> BOOLEAN],
         pending' \in Accesses, WellFormed(pending'), ~pte[pending'.page].valid
  PROVE  ClockInv'
<1>1. ClockRing(clock, Frames) /\ Frames # {} /\ UsedFrames = Frames
  BY UnderHand
<1>2. Advance(clock) \in Clocks /\ ClockRing(Advance(clock), Frames)
  BY <1>1, ClockInvTypes, AdvanceKeeps
<1>3. /\ TypeOK' /\ CoremapConsistent' /\ status' = status
      /\ FreeFrames' = FreeFrames /\ UsedFrames' = UsedFrames
      /\ pte' = pte /\ written' = written
  BY ClockInvTypes DEF ClockInv, TypeOK, MMTypeOK, SwapTypeOK, CoremapConsistent,
     vars, mmVars, simVars, FreeFrames, UsedFrames
<1>4. ClockTypeOK'
  BY <1>2, <1>3 DEF ClockTypeOK, Clocks
<1>5. pending' # NULL
  BY NullPointerAssumption
<1>6. ClockRing(clock', UsedFrames')
  BY <1>1, <1>2, <1>3
<1>7. Rung'
  BY <1>5, <1>6 DEF Rung
<1>8. Evicting'
  BY <1>3 DEF Evicting, WellFormed
<1> QED
  BY <1>3, <1>4, <1>7, <1>8 DEF ClockInv

(* Evict has found its victim: the frame under the hand gets a new page    *)
(* and is where it was on the ring.                                        *)
LEMMA FindsFacts ==
  ASSUME ClockInv, EvictFinds, status' # "aborted"
  PROVE  /\ clock' = [clock EXCEPT !.list = clock.next[clock.hand]]
         /\ frames' = [frames EXCEPT ![clock.hand] = pending.page]
         /\ reference' = [reference EXCEPT ![pending.page] = TRUE]
         /\ UsedFrames' = Frames
<1> DEFINE e == clock.hand
           v == frames[e]
<1>1. /\ pending \in Accesses /\ status = "running" /\ FreeFrames = {}
      /\ OnReference(Unlink(clock), pending.page)
      /\ MissEvict(pending, pte[v].frame_number)
  BY DEF EvictFinds, ClockInv, Evicting
<1>2. /\ ClockRing(clock, Frames) /\ Frames # {} /\ UsedFrames = Frames
      /\ e \in Frames /\ v \in Pages /\ pte[v].frame_number = e
  BY <1>1, UnderHand
<1>3. PICK offset \in SwapOffsets \cup {CSC369_INVALID_SWAP} :
        Fill(pending, e, EvictedTable(v, offset), {EvictCounter(v)})
  BY <1>1, <1>2 DEF MissEvict
<1>4. EvictedTable(v, offset) \in [Pages -> PTE]
  BY <1>2, EvictedTableType, ClockInvTypes
<1>5. /\ pte'[pending.page].frame_number = e
      /\ frames' = [frames EXCEPT ![e] = pending.page]
  BY <1>1, <1>2, <1>3, <1>4, FillPlaces
<1>6. /\ clock' = CSC369_PolicyClockOnRef(Unlink(clock), e)
      /\ reference' = [reference EXCEPT ![pending.page] = TRUE]
  BY <1>1, <1>2, <1>5, ClockInvTypes DEF OnReference
<1>7. clock' = [clock EXCEPT !.list = clock.next[clock.hand]]
  BY <1>2, <1>6, ClockInvTypes, Reinserted
<1>8. pending.page # NULL
  BY <1>1, Constants DEF Accesses
<1>9. UsedFrames' = Frames
  BY <1>2, <1>5, <1>8, ClockInvTypes DEF UsedFrames, FreeFrames
<1> QED
  BY <1>5, <1>6, <1>7, <1>9

LEMMA FindsKeeps ==
  ASSUME ClockInv, TypeOK', CoremapConsistent', EvictFinds
  PROVE  ClockInv'
<1>1. /\ status = "running" /\ FreeFrames = {} /\ pending' = NULL
      /\ OnReference(Unlink(clock), pending.page)
  BY DEF EvictFinds, ClockInv, Evicting
<1>2. /\ ClockRing(clock, Frames) /\ Frames # {} /\ clock.hand \in Frames
  BY <1>1, UnderHand
<1>3. clock \in Clocks /\ clock.next[clock.hand] \in Frames
  BY <1>2, HandOnRing, ClockInvTypes
<1> DEFINE r == [clock EXCEPT !.list = clock.next[clock.hand]]
<1>4. /\ r \in Clocks /\ r.next = clock.next /\ r.prev = clock.prev
      /\ r.hand = clock.hand /\ r.list = clock.next[clock.hand]
  BY <1>2, <1>3 DEF Clocks
<1>5. status' # "aborted" => clock' = r /\ UsedFrames' = Frames
  BY FindsFacts
<1>6. status' = "aborted" => clock' = Unlink(clock)
  BY <1>1 DEF OnReference
<1>7. clock' \in Clocks
  BY <1>2, <1>3, <1>4, <1>5, <1>6, UnlinkType
<1> HIDE DEF r
<1>8. ClockTypeOK'
  BY <1>1, <1>7, ClockInvTypes, ReferenceType DEF ClockTypeOK, Clocks
<1>9. ASSUME status' # "aborted"
      PROVE  ClockRing(clock', UsedFrames') /\ clock'.list = clock'.next[clock'.hand]
  BY <1>2, <1>3, <1>4, <1>5, <1>9, HandMoves
<1>10. Rung'
  BY <1>9 DEF Rung
<1>11. Evicting'
  BY <1>1 DEF Evicting
<1> QED
  BY <1>8, <1>10, <1>11 DEF ClockInv

LEMMA ClockInvStep ==
  ASSUME ClockInv, [ClockNext]_clockVars
  PROVE  ClockInv'
<1>1. TypeOK' /\ CoremapConsistent'
  <2>1. [Next]_vars
    BY ClockStep
  <2> QED
    BY <2>1, TypeStep, ConsistentStep, ClockInvTypes DEF ClockInv
<1>2. ASSUME NEW a \in Accesses, ClockAccess(a) PROVE ClockInv'
  BY <1>1, <1>2, AccessKeeps
<1>3. ASSUME NEW a \in Accesses, EvictBegins(a) PROVE ClockInv'
  <2>1. /\ status = "running" /\ FreeFrames = {} /\ UNCHANGED vars
        /\ clock' = Advance(clock) /\ reference' \in [Pages -> BOOLEAN]
        /\ pending' \in Accesses /\ WellFormed(pending')
        /\ ~pte[pending'.page].valid
    BY <1>3, ClockInvTypes DEF EvictBegins
  <2> QED
    BY <2>1, HandStepKeeps
<1>4. ASSUME EvictSkips PROVE ClockInv'
  <2>1. /\ status = "running" /\ FreeFrames = {} /\ UNCHANGED vars
        /\ clock' = Advance(clock) /\ reference' \in [Pages -> BOOLEAN]
        /\ pending' \in Accesses /\ WellFormed(pending')
        /\ ~pte[pending'.page].valid
    BY <1>4, ClockInvTypes DEF EvictSkips, ClockInv, Evicting
  <2> QED
    BY <2>1, HandStepKeeps
<1>5. ASSUME EvictFinds PROVE ClockInv'
  BY <1>1, <1>5, FindsKeeps
<1>6. ASSUME UNCHANGED <<mmVars, written, clock, reference, pending>>,
             status' = status \/ (pending = NULL /\ status = "running")
      PROVE  ClockInv'
  <2>1. /\ UsedFrames' = UsedFrames /\ FreeFrames' = FreeFrames
        /\ clock' = clock /\ pending' = pending /\ reference' = reference
        /\ pte' = pte /\ written' = written
    BY <1>6 DEF mmVars, UsedFrames, FreeFrames
  <2>2. ClockTypeOK'
    BY <1>1, <2>1, ClockInvTypes DEF ClockTypeOK, ClockInv
  <2>3. Evicting'
    BY <1>6, <2>1 DEF ClockInv, Evicting, WellFormed
  <2>4. status # "aborted" => ClockRing(clock', UsedFrames')
    BY <2>1 DEF ClockInv, Rung
  <2>5. Rung'
    BY <1>6, <2>1, <2>4 DEF ClockInv, Rung
  <2> QED
    BY <1>1, <2>2, <2>3, <2>5 DEF ClockInv
<1>7. CASE ClockTraceEnd \/ UNCHANGED clockVars
  BY <1>6, <1>7 DEF ClockTraceEnd, TraceEnd, Terminated, clockVars, vars, simVars
<1> QED
  BY <1>2, <1>3, <1>4, <1>5, <1>7 DEF ClockNext

LEMMA ClockInvInit ==
  ASSUME ClockInit
  PROVE  ClockInv
<1>1. UsedFrames = {} /\ status = "running"
  BY DEF ClockInit, Init, MMCreate, CSC369_CoremapCreate, UsedFrames, FreeFrames
<1>2. TypeOK /\ CoremapConsistent
  <2>1. CoremapConsistent
    BY DEF ClockInit, Init, MMCreate, CSC369_CoremapCreate, CSC369_PTECreate,
           CoremapConsistent
  <2> QED
    BY <2>1, TypeInit DEF ClockInit
<1>3. ClockTypeOK
  BY <1>2 DEF ClockInit, ClockTypeOK
<1>4. ClockRing(clock, {})
  BY DEF ClockInit, ClockRing
<1>5. Rung
  BY <1>1, <1>4 DEF Rung
<1>6. Evicting
  BY DEF ClockInit, Evicting
<1> QED
  BY <1>2, <1>3, <1>5, <1>6 DEF ClockInv

(* The pointers of the ring are sound at every step of the loop of Evict.  *)
THEOREM ClockCorrect == ClockSpec => []ClockInv
<1>1. ClockInit => ClockInv
  BY ClockInvInit
<1>2. ClockInv /\ [ClockNext]_clockVars => ClockInv'
  BY ClockInvStep
<1> QED
  BY <1>1, <1>2, PTL DEF ClockSpec

(* Clock never does what the Rand policy could not: the frame it hands     *)
(* over exists, and its search leaves the memory manager alone.  Every     *)
(* theorem about Spec holds of it.                                         *)
THEOREM ClockImplementsSpec == ClockSpec => Spec
<1>1. ClockInit => Init
  BY DEF ClockInit
<1>2. ClockInv /\ [ClockNext]_clockVars => [Next]_vars
  BY ClockStep
<1> QED
  BY <1>1, <1>2, ClockCorrect, PTL DEF ClockSpec, Spec

(* list and hand are always a frame or null, and pending an access.        *)
THEOREM ClockTypeCorrect == ClockSpec => []ClockTypeOK
<1>1. ClockInv => ClockTypeOK
  BY DEF ClockInv
<1> QED
  BY <1>1, ClockCorrect, PTL

(* csc369_policy_clock.c keeps the frames in use, and no other, in one     *)
(* cycle, sound in both directions, with list and hand on it: through      *)
(* every fill, hit, iteration of Evict, removal and reinsertion.           *)
THEOREM RingCorrect == ClockSpec => []RingWellFormed
<1>1. ASSUME ClockInv PROVE RingWellFormed
  <2> DEFINE n == Cardinality(UsedFrames)
             ring == Walk(clock, clock.hand, n)
  <2>1. SUFFICES ASSUME status # "aborted"
        PROVE  /\ clock.list = NULL <=> UsedFrames = {}
               /\ \A f \in Frames \ UsedFrames : ~list_entry_is_linked(clock, f)
               /\ UsedFrames # {} =>
                    /\ clock.list \in UsedFrames
                    /\ {ring[k] : k \in 1 .. n} = UsedFrames
                    /\ clock.next[ring[n]] = clock.hand
                    /\ \A f \in UsedFrames : clock.prev[clock.next[f]] = f
    BY DEF RingWellFormed, UsedFrames
  <2>2. ClockRing(clock, UsedFrames)
    BY <1>1, <2>1 DEF ClockInv, Rung
  <2>3. /\ \A f \in Frames \ UsedFrames : ~list_entry_is_linked(clock, f)
        /\ UsedFrames = {} => clock.list = NULL
        /\ UsedFrames # {} => clock.list \in UsedFrames /\ clock.list # NULL
    BY <2>2, NullPointerAssumption
       DEF ClockRing, list_entry_is_linked, UsedFrames
  <2>4. ASSUME UsedFrames # {}
        PROVE  /\ {ring[k] : k \in 1 .. n} = UsedFrames
               /\ clock.next[ring[n]] = clock.hand
               /\ \A f \in UsedFrames : clock.prev[clock.next[f]] = f
    <3>1. PICK w, m : Reads(clock, UsedFrames, clock.hand, w, m)
      BY <2>2, <2>4 DEF ClockRing
    <3>2. /\ Ring(clock, Frames, w, m) /\ w[0] = clock.hand
          /\ OnRing(w, m) = UsedFrames /\ m = n
          /\ m \in Nat \ {0} /\ w[m] = w[0]
      BY <3>1 DEF Reads, Ring
    <3>3. \A k \in 1 .. n : k <= m + 1 => ring[k] = w[k - 1]
      <4>1. \A k \in 1 .. m : k <= m + 1 => Walk(clock, w[0], m)[k] = w[k - 1]
        BY <3>2, WalkVisits
      <4> QED
        BY <3>2, <4>1
    <3> HIDE DEF n, ring
    <3>4. \A k \in 1 .. m : ring[k] = w[k - 1] /\ k - 1 \in 0 .. m - 1
      BY <3>2, <3>3
    <3>5. \A k \in 0 .. m - 1 : k + 1 \in 1 .. m /\ (k + 1) - 1 = k
      BY <3>2
    <3>6. {ring[k] : k \in 1 .. m} = {w[k] : k \in 0 .. m - 1}
      BY <3>4, <3>5
    <3>7. clock.next[ring[m]] = clock.hand
      <4>1. m \in 1 .. m /\ m - 1 \in 0 .. m - 1 /\ (m - 1) + 1 = m
        BY <3>2
      <4>2. clock.next[w[m - 1]] = w[(m - 1) + 1]
        BY <3>2, <4>1 DEF Ring
      <4> QED
        BY <3>2, <3>4, <4>1, <4>2
    <3>8. \A f \in UsedFrames : clock.prev[clock.next[f]] = f
      BY <2>2, <2>4, HandOnRing
    <3> QED
      BY <3>2, <3>6, <3>7, <3>8 DEF OnRing
  <2> QED
    BY <2>3, <2>4
<1> QED
  BY <1>1, ClockCorrect, PTL
-----------------------------------------------------------------------------
(* Clock is second chance *)

(* The queue of pages that the ring of c stands for, while pend is the     *)
(* access Evict serves, on the frames in use and fr what they hold.        *)
QueueOf(c, pend, on, fr) ==
  LET ring == Walk(c, IF pend = NULL /\ c.hand # NULL THEN c.next[c.hand] ELSE c.hand,
                   Cardinality(on))
  IN  [k \in DOMAIN ring |-> fr[ring[k]]]

LEMMA QueueEmpty ==
  ASSUME NEW c, NEW pend, NEW fr
  PROVE  QueueOf(c, pend, {}, fr) = << >>
<1>1. Cardinality({}) = 0 /\ 0 \in Nat
  BY FS_EmptySet
<1>2. \A x : DOMAIN Walk(c, x, 0) = 1 .. 0
  BY <1>1, WalkFollows
<1> QED
  BY <1>1, <1>2 DEF QueueOf

(* The frame Evict looks at first or next.                                 *)
NextUp(c, pend) == IF pend = NULL THEN c.list ELSE c.hand

LEMMA QueueReads ==
  ASSUME NEW c, NEW on, on # {}, ClockRing(c, on), NEW pend, NEW fr,
         pend = NULL => c.list = c.next[c.hand],
         NEW w, NEW m, Reads(c, on, NextUp(c, pend), w, m)
  PROVE  QueueOf(c, pend, on, fr) = [k \in 1 .. m |-> fr[w[k - 1]]]
<1> DEFINE ring == Walk(c, w[0], m)
<1>1. c.hand # NULL
  BY HandOnRing, NullPointerAssumption
<1>2. /\ Ring(c, Frames, w, m) /\ m = Cardinality(on) /\ m \in Nat \ {0}
      /\ w[0] = NextUp(c, pend)
  BY DEF Reads, Ring
<1>3. QueueOf(c, pend, on, fr) = [k \in DOMAIN ring |-> fr[ring[k]]]
  BY <1>1, <1>2 DEF QueueOf, NextUp
<1>4. DOMAIN ring = 1 .. m /\ \A k \in 1 .. m : k <= m + 1 => ring[k] = w[k - 1]
  BY <1>2, WalkFollows, WalkVisits
<1> HIDE DEF ring
<1>5. \A k \in 1 .. m : ring[k] = w[k - 1]
  BY <1>2, <1>4
<1> QED
  BY <1>3, <1>4, <1>5

(* Such a queue is a sequence of the pages the frames hold.                *)
LEMMA ReadsPages ==
  ASSUME NEW c, NEW on, NEW x, NEW w, NEW m, Reads(c, on, x, w, m), NEW fr,
         \A f \in on : fr[f] \in Pages,
         NEW q, q = [k \in 1 .. m |-> fr[w[k - 1]]]
  PROVE  /\ q \in Seq(Pages) /\ Len(q) = m /\ m \in Nat \ {0}
         /\ \A k \in 0 .. m : w[k] \in on
         /\ \A k \in 1 .. m : q[k] = fr[w[k - 1]]
         /\ q[1] = fr[x]
         /\ \A f \in on : \E k \in 1 .. m : q[k] = fr[f]
<1>1. /\ Ring(c, Frames, w, m) /\ m \in Nat \ {0} /\ w[0] = x
      /\ OnRing(w, m) = on
  BY DEF Reads, Ring
<1>2. \A k \in 0 .. m : w[k] \in on
  BY <1>1, RingNodes
<1>3. \A k \in 1 .. m : k - 1 \in 0 .. m /\ k - 1 \in 0 .. m - 1
  BY <1>1
<1>4. \A k \in 0 .. m - 1 : k + 1 \in 1 .. m /\ (k + 1) - 1 = k
  BY <1>1
<1>5. \A k \in 1 .. m : q[k] = fr[w[k - 1]] /\ q[k] \in Pages
  BY <1>2, <1>3
<1>6. q \in Seq(Pages) /\ Len(q) = m
  BY <1>1, <1>5
<1>7. q[1] = fr[x]
  BY <1>1, <1>5
<1>8. ASSUME NEW f \in on PROVE \E k \in 1 .. m : q[k] = fr[f]
  <2>1. PICK k \in 0 .. m - 1 : f = w[k]
    BY <1>1 DEF OnRing
  <2>2. k + 1 \in 1 .. m /\ (k + 1) - 1 = k
    BY <1>4
  <2>3. q[k + 1] = fr[w[(k + 1) - 1]]
    BY <1>5, <2>2
  <2> QED
    BY <2>1, <2>2, <2>3
<1> QED
  BY <1>1, <1>2, <1>5, <1>6, <1>7, <1>8

(* A sequence with one element more at its end, or moved to its end.       *)
LEMMA AppendAtEnd ==
  ASSUME NEW m \in Nat, NEW q \in Seq(Pages), Len(q) = m, NEW p \in Pages,
         NEW r, r \in Seq(Pages), Len(r) = m + 1,
         \A k \in 1 .. m : r[k] = q[k], r[m + 1] = p
  PROVE  r = Append(q, p)
<1>1. /\ Append(q, p) \in Seq(Pages) /\ Len(Append(q, p)) = m + 1
      /\ \A k \in 1 .. m : Append(q, p)[k] = q[k]
      /\ Append(q, p)[m + 1] = p
  BY AppendProperties
<1>2. \A k \in 1 .. m + 1 : k \in 1 .. m \/ k = m + 1
  OBVIOUS
<1>3. \A k \in 1 .. Len(r) : r[k] = Append(q, p)[k]
  BY <1>1, <1>2
<1> QED
  BY <1>1, <1>3, SeqEqual

LEMMA AppendToTail ==
  ASSUME NEW m \in Nat \ {0}, NEW q \in Seq(Pages), Len(q) = m, NEW p \in Pages,
         NEW r, r \in Seq(Pages), Len(r) = m,
         \A k \in 1 .. m - 1 : r[k] = q[k + 1], r[m] = p
  PROVE  r = Append(Tail(q), p)
<1> DEFINE t == Tail(q)
<1>1. t \in Seq(Pages) /\ Len(t) = m - 1 /\ \A k \in 1 .. m - 1 : t[k] = q[k + 1]
  OBVIOUS
<1> HIDE DEF t
<1>2. m - 1 \in Nat /\ (m - 1) + 1 = m
  OBVIOUS
<1>3. r = Append(t, p)
  BY <1>1, <1>2, AppendAtEnd
<1> QED
  BY <1>3 DEF t

(* Before an abort, the queue is the ring read from the next frame up.     *)
LEMMA QueueNow ==
  ASSUME ClockInv, status # "aborted", UsedFrames # {}
  PROVE  \E w, m :
           /\ Reads(clock, UsedFrames, NextUp(clock, pending), w, m)
           /\ ClockQueue = [k \in 1 .. m |-> frames[w[k - 1]]]
<1>1. /\ ClockRing(clock, UsedFrames)
      /\ pending = NULL => clock.list = clock.next[clock.hand]
  BY DEF ClockInv, Rung
<1> DEFINE on == UsedFrames
<1>2. on # {} /\ ClockRing(clock, on) /\ ClockQueue = QueueOf(clock, pending, on, frames)
  BY <1>1 DEF ClockQueue, QueueOf, UsedFrames
<1> HIDE DEF on
<1>3. NextUp(clock, pending) \in on
  BY <1>2, HandOnRing DEF NextUp, ClockRing
<1>4. PICK w, m : Reads(clock, on, NextUp(clock, pending), w, m)
  BY <1>2, <1>3, ReadFrom
<1>5. ClockQueue = [k \in 1 .. m |-> frames[w[k - 1]]]
  BY <1>1, <1>2, <1>4, QueueReads
<1> QED
  BY <1>4, <1>5 DEF on

LEMMA UsedHoldPages ==
  ASSUME ClockInv
  PROVE  \A f \in UsedFrames : f \in Frames /\ frames[f] \in Pages
BY ClockInvTypes DEF UsedFrames, FreeFrames

(* What is resident, and what is not.                                      *)
LEMMA ResidentIs ==
  ASSUME ClockInv, status # "aborted"
  PROVE  /\ Second!Resident = {frames[f] : f \in UsedFrames}
         /\ Len(ClockQueue) = Cardinality(UsedFrames)
         /\ ClockQueue \in Seq(Pages)
         /\ \A p \in Pages : ~pte[p].valid => p \notin Second!Resident
<1>1. /\ Second!Resident = {frames[f] : f \in UsedFrames}
      /\ Len(ClockQueue) = Cardinality(UsedFrames)
      /\ ClockQueue \in Seq(Pages)
  <2>1. CASE UsedFrames = {}
    <3>1. ClockQueue = QueueOf(clock, pending, UsedFrames, frames)
      BY DEF ClockQueue, QueueOf, UsedFrames
    <3>2. ClockQueue = << >>
      BY <2>1, <3>1, QueueEmpty
    <3> QED
      BY <2>1, <3>2, FS_EmptySet DEF Second!Resident
  <2>2. CASE UsedFrames # {}
    <3>1. PICK w, m :
            /\ Reads(clock, UsedFrames, NextUp(clock, pending), w, m)
            /\ ClockQueue = [k \in 1 .. m |-> frames[w[k - 1]]]
      BY <2>2, QueueNow
    <3> DEFINE q == ClockQueue
               on == UsedFrames
               x == NextUp(clock, pending)
    <3>2. /\ Reads(clock, on, x, w, m)
          /\ q = [k \in 1 .. m |-> frames[w[k - 1]]]
          /\ \A f \in on : frames[f] \in Pages
      BY <3>1, UsedHoldPages
    <3> HIDE DEF q, on, x
    <3>3. /\ q \in Seq(Pages) /\ Len(q) = m /\ m \in Nat \ {0}
          /\ \A k \in 0 .. m : w[k] \in on
          /\ \A k \in 1 .. m : q[k] = frames[w[k - 1]]
          /\ \A f \in on : \E k \in 1 .. m : q[k] = frames[f]
      BY <3>2, ReadsPages
    <3>4. \A k \in 1 .. m : k - 1 \in 0 .. m
      BY <3>3
    <3>5. {q[k] : k \in 1 .. Len(q)} = {frames[f] : f \in on}
      BY <3>3, <3>4
    <3>6. m = Cardinality(on)
      BY <3>2 DEF Reads
    <3> QED
      BY <3>3, <3>5, <3>6 DEF q, on, Second!Resident
  <2> QED
    BY <2>1, <2>2
<1>2. ASSUME NEW p \in Pages, ~pte[p].valid, NEW f \in UsedFrames PROVE frames[f] # p
  BY <1>2, UsedHoldPages, Constants DEF ClockInv, CoremapConsistent
<1> QED
  BY <1>1, <1>2

(* The queue after a step, read off the ring after it.                     *)
LEMMA QueueNext ==
  ASSUME ClockInv', status' # "aborted", UsedFrames' # {}, NEW w, NEW m,
         Reads(clock', UsedFrames', NextUp(clock', pending'), w, m)
  PROVE  /\ ClockQueue' \in Seq(Pages) /\ Len(ClockQueue') = m
         /\ \A k \in 1 .. m : ClockQueue'[k] = frames'[w[k - 1]]
<1> DEFINE on == UsedFrames'
           c == clock'
           fr == frames'
           pend == pending'
           q == ClockQueue'
           x == NextUp(c, pend)
<1>1. /\ on # {} /\ ClockRing(c, on)
      /\ pend = NULL => c.list = c.next[c.hand]
      /\ Reads(c, on, x, w, m)
  BY DEF ClockInv, Rung
<1>2. q = QueueOf(c, pend, on, fr)
  BY DEF ClockQueue, QueueOf, UsedFrames
<1>3. \A f \in on : fr[f] \in Pages
  BY DEF ClockInv, ClockTypeOK, TypeOK, MMTypeOK, UsedFrames, FreeFrames
<1> HIDE DEF on, c, fr, pend, q
<1>4. q = [k \in 1 .. m |-> fr[w[k - 1]]]
  BY <1>1, <1>2, QueueReads
<1> HIDE DEF x
<1>5. /\ q \in Seq(Pages) /\ Len(q) = m /\ \A k \in 1 .. m : q[k] = fr[w[k - 1]]
  BY <1>1, <1>3, <1>4, ReadsPages
<1> QED
  BY <1>5 DEF q, fr

(* The queue before a step.                                                *)
LEMMA QueueBefore ==
  ASSUME ClockInv, status # "aborted", UsedFrames # {}
  PROVE  \E w, m :
           /\ Reads(clock, UsedFrames, NextUp(clock, pending), w, m)
           /\ ClockQueue \in Seq(Pages) /\ Len(ClockQueue) = m
           /\ m \in Nat \ {0} /\ \A k \in 0 .. m : w[k] \in UsedFrames
           /\ \A k \in 1 .. m : ClockQueue[k] = frames[w[k - 1]]
           /\ Head(ClockQueue) = frames[NextUp(clock, pending)]
<1>1. PICK w, m :
        /\ Reads(clock, UsedFrames, NextUp(clock, pending), w, m)
        /\ ClockQueue = [k \in 1 .. m |-> frames[w[k - 1]]]
  BY QueueNow
<1> DEFINE q == ClockQueue
           on == UsedFrames
           x == NextUp(clock, pending)
<1>2. /\ Reads(clock, on, x, w, m) /\ q = [k \in 1 .. m |-> frames[w[k - 1]]]
      /\ \A f \in on : frames[f] \in Pages
  BY <1>1, UsedHoldPages
<1> HIDE DEF q, on, x
<1>3. /\ q \in Seq(Pages) /\ Len(q) = m /\ m \in Nat \ {0}
      /\ \A k \in 0 .. m : w[k] \in on
      /\ \A k \in 1 .. m : q[k] = frames[w[k - 1]]
      /\ q[1] = frames[x]
  BY <1>2, ReadsPages
<1>4. Head(q) = frames[x]
  BY <1>3
<1> QED
  BY <1>2, <1>3, <1>4 DEF q, on, x

(* v is the ring of w read from one frame further on.                      *)
OneFurther(c, on, x, w, m, v) ==
  /\ Reads(c, on, c.next[x], v, m)
  /\ \A i \in 0 .. m - 1 : v[i] = w[i + 1]
  /\ w[m] = x /\ w[0] = x
  /\ \A i \in 1 .. m - 1 : w[i] # x

(* A ring can be read from one frame further on.                           *)
LEMMA ReadOneFurther ==
  ASSUME NEW c, NEW on, NEW x, NEW w, NEW m, Reads(c, on, x, w, m)
  PROVE  \E v : OneFurther(c, on, x, w, m, v)
<1>1. /\ Ring(c, Frames, w, m) /\ w[0] = x /\ m \in Nat \ {0} /\ w[m] = w[0]
      /\ OnRing(w, m) = on /\ m = Cardinality(on)
  BY DEF Reads, Ring
<1>2. PICK v : /\ Ring(c, Frames, v, m) /\ OnRing(v, m) = OnRing(w, m)
               /\ \A i \in 0 .. m - 1 : v[i] = w[i + 1]
  BY <1>1, RotateOne
<1>3. v[0] = c.next[x]
  <2>1. 0 \in 0 .. m - 1 /\ 0 + 1 = 1
    BY <1>1
  <2>2. v[0] = w[0 + 1]
    BY <1>2, <2>1
  <2> QED
    BY <1>1, <2>1, <2>2, RingEnds
<1>4. \A i \in 1 .. m - 1 : w[i] # x
  <2>1. 0 \in 0 .. m - 1 /\ \A i \in 1 .. m - 1 : i \in 0 .. m - 1 /\ i # 0
    BY <1>1
  <2> QED
    BY <1>1, <2>1 DEF Ring
<1> QED
  BY <1>1, <1>2, <1>3, <1>4 DEF Reads, OneFurther

(* Only the links matter to what is read.                                  *)
LEMMA ReadsKept ==
  ASSUME NEW c, NEW on, NEW x, NEW w, NEW m, Reads(c, on, x, w, m), NEW d,
         d.next = c.next, d.prev = c.prev
  PROVE  Reads(d, on, x, w, m)
BY RingKept DEF Reads

(* A hit marks its page as referenced.                                     *)
LEMMA HitTouches ==
  ASSUME ClockInv, NEW a \in Accesses, ClockAccess(a), Hit(a),
         status' # "aborted"
  PROVE  Second!Touch(a.page)
<1>1. /\ clock' = clock /\ frames' = frames /\ UsedFrames' = UsedFrames
      /\ reference' = [reference EXCEPT ![a.page] = TRUE]
      /\ \E f \in UsedFrames : frames[f] = a.page
  BY HitFacts
<1>2. /\ status # "aborted" /\ pending = NULL /\ pending' = NULL
      /\ a.page \in Pages
  BY DEF ClockAccess, Accesses
<1>3. a.page \in Second!Resident
  BY <1>1, <1>2, ResidentIs
<1>4. {p \in Pages : reference'[p]} = {p \in Pages : reference[p]} \cup {a.page}
  BY <1>1, <1>2, ClockInvTypes
<1>5. ClockQueue' = ClockQueue
  BY <1>1, <1>2 DEF ClockQueue, UsedFrames
<1> QED
  BY <1>2, <1>3, <1>4, <1>5 DEF Second!Touch

(* A page loaded into a free frame joins the back of the queue: the frame  *)
(* goes in between the hand and list, the frame after it.                  *)
LEMMA MissLoads ==
  ASSUME ClockInv, ClockInv', NEW a \in Accesses, ClockAccess(a), MissFree(a),
         status' # "aborted"
  PROVE  Second!Load(a.page)
<1>1. PICK f \in Frames \ UsedFrames :
        /\ frames' = [frames EXCEPT ![f] = a.page]
        /\ UsedFrames' = UsedFrames \cup {f}
        /\ clock' = CSC369_PolicyClockOnRef(clock, f)
        /\ reference' = [reference EXCEPT ![a.page] = TRUE]
  BY MissFacts
<1>2. /\ status # "aborted" /\ pending = NULL /\ pending' = NULL
      /\ a.page \in Pages /\ ~pte[a.page].valid
      /\ ClockRing(clock, UsedFrames) /\ clock \in Clocks
      /\ frames \in [Frames -> Pages \cup {NULL}]
  BY ClockInvTypes DEF ClockAccess, Accesses, MissFree, ClockInv, Rung
<1>3. /\ a.page \notin Second!Resident /\ ClockQueue \in Seq(Pages)
      /\ Len(ClockQueue) = Cardinality(UsedFrames)
  BY <1>2, ResidentIs
<1>4. Len(ClockQueue) < MEMSIZE
  <2>1. UsedFrames \in SUBSET Frames /\ UsedFrames \cup {f} \in SUBSET Frames
    BY DEF UsedFrames
  <2>2. Cardinality(UsedFrames \cup {f}) = Cardinality(UsedFrames) + 1
    BY <2>1, FramesFinite, FS_AddElement
  <2> QED
    BY <1>3, <2>1, <2>2, FramesFinite, Constants
<1>5. {p \in Pages : reference'[p]} = {p \in Pages : reference[p]} \cup {a.page}
  BY <1>1, <1>2, ClockInvTypes
<1>6. ClockQueue' = Append(ClockQueue, a.page)
  <2> DEFINE on == UsedFrames
             r == CSC369_PolicyClockOnRef(clock, f)
  <2>1. CASE on = {}
    <3>1. ClockRing(clock, {}) /\ UsedFrames' = {f} /\ UsedFrames' # {}
      BY <1>1, <1>2, <2>1
    <3>2. ClockRing(r, {f}) /\ r.list = f
      BY <1>2, <3>1, FirstReference
    <3>3. NextUp(clock', pending') = f
      BY <1>1, <1>2, <3>2 DEF NextUp
    <3>4. PICK w, m : Reads(clock', UsedFrames', f, w, m)
      BY <1>1, <3>1, <3>2, ReadFrom
    <3>5. m = 1 /\ w[0] = f
      BY <3>1, <3>4, FS_Singleton DEF Reads
    <3>6. /\ ClockQueue' \in Seq(Pages) /\ Len(ClockQueue') = 1
          /\ \A k \in 1 .. 1 : ClockQueue'[k] = frames'[w[k - 1]]
      <4>1. Reads(clock', UsedFrames', NextUp(clock', pending'), w, m)
        BY <3>3, <3>4
      <4> QED
        BY <3>1, <3>5, <4>1, QueueNext
    <3>7. ClockQueue'[1] = a.page
      BY <1>1, <1>2, <3>5, <3>6
    <3>8. Len(ClockQueue) = 0
      BY <1>3, <2>1, FS_EmptySet
    <3> DEFINE q == ClockQueue
               s == ClockQueue'
    <3>9. /\ q \in Seq(Pages) /\ Len(q) = 0 /\ s \in Seq(Pages) /\ Len(s) = 0 + 1
          /\ s[0 + 1] = a.page /\ \A k \in 1 .. 0 : s[k] = q[k]
      BY <1>3, <3>6, <3>7, <3>8
    <3> HIDE DEF q, s
    <3>10. s = Append(q, a.page)
      BY <1>2, <3>9, AppendAtEnd
    <3> QED
      BY <3>10 DEF q, s
  <2>2. CASE on # {}
    <3>1. /\ ClockRing(clock, on) /\ f \in Frames \ on
      BY <1>2
    <3>2. PICK w, m : /\ Reads(clock, on, clock.list, w, m)
                      /\ Reads(r, on \cup {f}, r.list, Inserted(w, m, m, f), m + 1)
      <4> HIDE DEF on
      <4>1. LET s == CSC369_PolicyClockOnRef(clock, f)
            IN  \E w, m : /\ Reads(clock, on, clock.list, w, m)
                         /\ Reads(s, on \cup {f}, s.list, Inserted(w, m, m, f), m + 1)
        BY <1>2, <2>2, <3>1, NewReference
      <4> QED
        BY <4>1
    <3> DEFINE u == Inserted(w, m, m, f)
               q == ClockQueue
               s == ClockQueue'
    <3>3. /\ s \in Seq(Pages) /\ Len(s) = m + 1
          /\ \A k \in 1 .. m + 1 : s[k] = frames'[u[k - 1]]
      <4>1. Reads(clock', UsedFrames', NextUp(clock', pending'), u, m + 1)
        BY <1>1, <1>2, <3>2 DEF NextUp
      <4>2. UsedFrames' # {}
        BY <1>1
      <4> HIDE DEF u
      <4> QED
        BY <4>1, <4>2, QueueNext
    <3>4. /\ q = [k \in 1 .. m |-> frames[w[k - 1]]] /\ q \in Seq(Pages) /\ Len(q) = m
          /\ m \in Nat \ {0} /\ \A k \in 0 .. m : w[k] \in on
          /\ \A k \in 1 .. m : q[k] = frames[w[k - 1]]
      <4> DEFINE x == clock.list
      <4>1. q = QueueOf(clock, pending, on, frames)
        BY DEF ClockQueue, QueueOf, UsedFrames
      <4>2. /\ Reads(clock, on, NextUp(clock, pending), w, m)
            /\ NextUp(clock, pending) = x
            /\ clock.list = clock.next[clock.hand]
        BY <1>2, <2>2, <3>2 DEF NextUp, ClockInv, Rung
      <4>3. \A g \in on : frames[g] \in Pages
        BY UsedHoldPages
      <4> HIDE DEF on, q, x
      <4>4. q = [k \in 1 .. m |-> frames[w[k - 1]]]
        BY <2>2, <3>1, <4>1, <4>2, QueueReads
      <4>5. Reads(clock, on, x, w, m)
        BY <4>2
      <4> QED
        BY <4>3, <4>4, <4>5, ReadsPages
    <3>5. ASSUME NEW k \in 1 .. m PROVE s[k] = q[k]
      <4>1. k \in 1 .. m + 1 /\ k - 1 < m /\ k - 1 \in 0 .. m + 1 /\ k - 1 \in 0 .. m
        BY <3>4
      <4>2. u[k - 1] = w[k - 1]
        BY <4>1 DEF Inserted
      <4>3. w[k - 1] \in on /\ w[k - 1] # f
        BY <3>1, <3>4, <4>1
      <4>4. frames'[w[k - 1]] = frames[w[k - 1]]
        BY <1>1, <1>2, <4>3
      <4> HIDE DEF s, q, u
      <4> QED
        BY <3>3, <3>4, <4>1, <4>2, <4>4
    <3>6. s[m + 1] = a.page
      <4>1. m + 1 \in 1 .. m + 1 /\ (m + 1) - 1 = m /\ m \in 0 .. m + 1 /\ ~(m < m)
        BY <3>4
      <4>2. u[m] = f
        BY <4>1 DEF Inserted
      <4>3. frames'[f] = a.page
        BY <1>1, <1>2
      <4> HIDE DEF s, q, u
      <4>4. s[m + 1] = frames'[u[(m + 1) - 1]]
        BY <3>3, <4>1
      <4> QED
        BY <4>1, <4>2, <4>3, <4>4
    <3> HIDE DEF q, s, u
    <3>7. s = Append(q, a.page)
      BY <1>2, <3>3, <3>4, <3>5, <3>6, AppendAtEnd
    <3> QED
      BY <3>7 DEF q, s
  <2> QED
    BY <2>1, <2>2
<1> QED
  BY <1>2, <1>3, <1>4, <1>5, <1>6 DEF Second!Load

(* Evict begins: the hand moves onto the frame that is next up.            *)
LEMMA EvictionStarts ==
  ASSUME ClockInv, ClockInv', NEW a \in Accesses, EvictBegins(a)
  PROVE  Second!StartEviction
<1>1. /\ status = "running" /\ status' = "running" /\ FreeFrames = {}
      /\ pending = NULL /\ pending' # NULL
      /\ clock' = Advance(clock) /\ frames' = frames /\ reference' = reference
  BY NullPointerAssumption DEF EvictBegins, vars, simVars, mmVars
<1>2. /\ UsedFrames = Frames /\ Frames # {} /\ ClockRing(clock, Frames)
      /\ UsedFrames' = Frames
  BY <1>1, UnderHand DEF UsedFrames, FreeFrames
<1>3. Len(ClockQueue) = MEMSIZE
  BY <1>1, <1>2, ResidentIs, FramesFinite
<1>4. /\ clock'.next = clock.next /\ clock'.hand = clock.next[clock.hand]
      /\ clock.list = clock.next[clock.hand]
  BY <1>1, <1>2, ClockInvTypes DEF Advance, Clocks, ClockInv, Rung
<1>5. clock.hand # NULL
  BY <1>2, HandOnRing, NullPointerAssumption
<1>6. ClockQueue' = ClockQueue
  <2>1. \A n : Walk(clock', clock'.hand, n) = Walk(clock, clock.next[clock.hand], n)
    BY <1>4 DEF Walk
  <2>2. ClockQueue = QueueOf(clock, pending, Frames, frames)
    BY <1>2 DEF ClockQueue, QueueOf, UsedFrames
  <2>3. ClockQueue' = QueueOf(clock', pending', Frames, frames)
    BY <1>1, <1>2 DEF ClockQueue, QueueOf, UsedFrames
  <2> QED
    BY <1>1, <1>5, <2>1, <2>2, <2>3 DEF QueueOf
<1> QED
  BY <1>1, <1>3, <1>6 DEF Second!StartEviction

(* Past a referenced frame, its page goes to the back of the queue and     *)
(* counts as not referenced.                                               *)
LEMMA SkipSpares ==
  ASSUME ClockInv, ClockInv', EvictSkips
  PROVE  Second!Spare
<1>1. /\ pending # NULL /\ pending' = pending /\ status = "running"
      /\ status' = "running" /\ FreeFrames = {}
      /\ clock' = Advance(clock) /\ frames' = frames
      /\ reference[frames[clock.hand]]
      /\ reference' = [reference EXCEPT ![frames[clock.hand]] = FALSE]
  BY DEF EvictSkips, ClockInv, Evicting, vars, simVars, mmVars
<1>2. /\ UsedFrames = Frames /\ Frames # {} /\ ClockRing(clock, Frames)
      /\ UsedFrames' = Frames /\ frames[clock.hand] \in Pages
  BY <1>1, UnderHand DEF UsedFrames, FreeFrames
<1>3. /\ clock'.next = clock.next /\ clock'.prev = clock.prev
      /\ clock'.hand = clock.next[clock.hand]
  BY <1>1, ClockInvTypes DEF Advance, Clocks
<1> DEFINE q == ClockQueue
           s == ClockQueue'
           p == frames[clock.hand]
<1>4. PICK w, m :
        /\ Reads(clock, UsedFrames, NextUp(clock, pending), w, m)
        /\ q \in Seq(Pages) /\ Len(q) = m
        /\ m \in Nat \ {0} /\ \A k \in 0 .. m : w[k] \in UsedFrames
        /\ \A k \in 1 .. m : q[k] = frames[w[k - 1]]
        /\ Head(q) = frames[NextUp(clock, pending)]
  BY <1>1, <1>2, QueueBefore
<1>5. Reads(clock, Frames, clock.hand, w, m) /\ Head(q) = p
  BY <1>1, <1>2, <1>4 DEF NextUp
<1>6. PICK v : /\ Reads(clock', Frames, clock.next[clock.hand], v, m)
               /\ \A i \in 0 .. m - 1 : v[i] = w[i + 1]
               /\ w[m] = clock.hand
  <2> DEFINE c == clock
             d == clock'
             x == clock.hand
             on == Frames
  <2>1. Reads(c, on, x, w, m)
    BY <1>5
  <2>2. d.next = c.next /\ d.prev = c.prev
    BY <1>3
  <2> HIDE DEF c, d, x, on
  <2>3. PICK v : OneFurther(c, on, x, w, m, v)
    BY ONLY <2>1, ReadOneFurther
  <2> DEFINE y == c.next[x]
  <2>4. Reads(c, on, y, v, m)
    BY <2>3 DEF OneFurther
  <2> HIDE DEF y
  <2>5. Reads(d, on, y, v, m)
    BY <2>2, <2>4, ReadsKept
  <2> QED
    BY <2>3, <2>5 DEF OneFurther, y, c, d, x, on
<1>7. /\ s \in Seq(Pages) /\ Len(s) = m
      /\ \A k \in 1 .. m : s[k] = frames'[v[k - 1]]
  <2>1. Reads(clock', UsedFrames', NextUp(clock', pending'), v, m)
    BY <1>1, <1>2, <1>3, <1>6 DEF NextUp
  <2> QED
    BY <1>1, <1>2, <2>1, QueueNext
<1> HIDE DEF q, s
<1>8. \A k \in 1 .. m : s[k] = frames[w[k]]
  <2>1. \A k \in 1 .. m : k - 1 \in 0 .. m - 1 /\ (k - 1) + 1 = k
    BY <1>4
  <2> QED
    BY <1>1, <1>6, <1>7, <2>1
<1>9. \A k \in 1 .. m - 1 : s[k] = q[k + 1]
  <2>1. \A k \in 1 .. m - 1 : k \in 1 .. m /\ k + 1 \in 1 .. m /\ (k + 1) - 1 = k
    BY <1>4
  <2> QED
    BY <1>4, <1>8, <2>1
<1>10. s[m] = p
  BY <1>4, <1>6, <1>8
<1>11. s = Append(Tail(q), p)
  BY <1>2, <1>4, <1>7, <1>9, <1>10, AppendToTail
<1>12. {x \in Pages : reference'[x]} = {x \in Pages : reference[x]} \ {p}
  BY <1>1, <1>2, ClockInvTypes
<1> QED
  BY <1>1, <1>2, <1>5, <1>11, <1>12 DEF Second!Spare, q, s

(* The page at the front has not been referenced: the page that missed     *)
(* takes its frame and goes to the back of the queue.                      *)
LEMMA FindReplaces ==
  ASSUME ClockInv, ClockInv', EvictFinds, status' # "aborted",
         NEW p, p = pending.page
  PROVE  Second!Replace(p)
<1>1. /\ pending # NULL /\ pending' = NULL /\ status = "running"
      /\ FreeFrames = {} /\ ~reference[frames[clock.hand]]
      /\ pending.page \in Pages /\ ~pte[pending.page].valid
  BY DEF EvictFinds, ClockInv, Evicting, Accesses
<1>2. /\ UsedFrames = Frames /\ Frames # {} /\ ClockRing(clock, Frames)
      /\ frames[clock.hand] \in Pages
  BY <1>1, UnderHand
<1>3. /\ clock' = [clock EXCEPT !.list = clock.next[clock.hand]]
      /\ frames' = [frames EXCEPT ![clock.hand] = pending.page]
      /\ reference' = [reference EXCEPT ![pending.page] = TRUE]
      /\ UsedFrames' = Frames
  BY FindsFacts
<1>4. /\ clock'.next = clock.next /\ clock'.prev = clock.prev
      /\ clock'.list = clock.next[clock.hand]
  BY <1>3, ClockInvTypes DEF Clocks
<1>5. pending.page \notin Second!Resident
  BY <1>1, ResidentIs
<1> DEFINE q == ClockQueue
           s == ClockQueue'
<1>6. PICK w, m :
        /\ Reads(clock, UsedFrames, NextUp(clock, pending), w, m)
        /\ q \in Seq(Pages) /\ Len(q) = m
        /\ m \in Nat \ {0} /\ \A k \in 0 .. m : w[k] \in UsedFrames
        /\ \A k \in 1 .. m : q[k] = frames[w[k - 1]]
        /\ Head(q) = frames[NextUp(clock, pending)]
  BY <1>1, <1>2, QueueBefore
<1>7. Reads(clock, Frames, clock.hand, w, m) /\ Head(q) = frames[clock.hand]
  BY <1>1, <1>2, <1>6 DEF NextUp
<1>8. PICK v : /\ Reads(clock', Frames, clock.next[clock.hand], v, m)
               /\ \A i \in 0 .. m - 1 : v[i] = w[i + 1]
               /\ w[m] = clock.hand
               /\ \A i \in 1 .. m - 1 : w[i] # clock.hand
  <2> DEFINE c == clock
             d == clock'
             x == clock.hand
             on == Frames
  <2>1. Reads(c, on, x, w, m)
    BY <1>7
  <2>2. d.next = c.next /\ d.prev = c.prev
    BY <1>4
  <2> HIDE DEF c, d, x, on
  <2>3. PICK v : OneFurther(c, on, x, w, m, v)
    BY ONLY <2>1, ReadOneFurther
  <2> DEFINE y == c.next[x]
  <2>4. Reads(c, on, y, v, m)
    BY <2>3 DEF OneFurther
  <2> HIDE DEF y
  <2>5. Reads(d, on, y, v, m)
    BY <2>2, <2>4, ReadsKept
  <2> QED
    BY <2>3, <2>5 DEF OneFurther, y, c, d, x, on
<1>9. /\ s \in Seq(Pages) /\ Len(s) = m
      /\ \A k \in 1 .. m : s[k] = frames'[v[k - 1]]
  <2>1. Reads(clock', UsedFrames', NextUp(clock', pending'), v, m)
    BY <1>1, <1>3, <1>4, <1>8 DEF NextUp
  <2> QED
    BY <1>2, <1>3, <2>1, QueueNext
<1> HIDE DEF q, s
<1>10. \A k \in 1 .. m : s[k] = frames'[w[k]]
  <2>1. \A k \in 1 .. m : k - 1 \in 0 .. m - 1 /\ (k - 1) + 1 = k
    BY <1>6
  <2> QED
    BY <1>8, <1>9, <2>1
<1>11. \A k \in 1 .. m - 1 : s[k] = q[k + 1]
  <2>1. \A k \in 1 .. m - 1 : k \in 1 .. m /\ k + 1 \in 1 .. m /\ (k + 1) - 1 = k
                                /\ k \in 0 .. m
    BY <1>6
  <2>2. \A k \in 1 .. m - 1 : frames'[w[k]] = frames[w[k]]
    BY <1>2, <1>3, <1>6, <1>8, <2>1, ClockInvTypes
  <2> QED
    BY <1>6, <1>10, <2>1, <2>2
<1>12. s[m] = p
  <2>1. frames'[clock.hand] = p
    BY <1>1, <1>2, <1>3, ClockInvTypes, HandOnRing
  <2> QED
    BY <1>6, <1>8, <1>10, <2>1
<1>13. s = Append(Tail(q), p)
  BY <1>1, <1>6, <1>9, <1>11, <1>12, AppendToTail
<1>14. {x \in Pages : reference'[x]} = {x \in Pages : reference[x]} \cup {p}
  BY <1>1, <1>3, ClockInvTypes
<1>15. Head(q) \notin {x \in Pages : reference[x]}
  BY <1>1, <1>7
<1> QED
  BY <1>1, <1>5, <1>13, <1>14, <1>15 DEF Second!Replace, q, s

LEMMA SecondChanceStep ==
  ASSUME ClockInv, ClockInv', status' # "aborted", [ClockNext]_clockVars
  PROVE  [Second!SCNext]_(Second!scVars)
<1>1. ASSUME NEW a \in Accesses, ClockAccess(a) PROVE Second!SCNext
  <2>1. a.page \in Pages /\ (Hit(a) \/ MissFree(a))
    BY <1>1 DEF ClockAccess, Accesses
  <2>2. CASE Hit(a)
    <3>1. Second!Touch(a.page)
      BY <1>1, <2>2, HitTouches
    <3> QED
      BY <2>1, <3>1 DEF Second!SCNext
  <2>3. CASE MissFree(a)
    <3>1. Second!Load(a.page)
      BY <1>1, <2>3, MissLoads
    <3> QED
      BY <2>1, <3>1 DEF Second!SCNext
  <2> QED
    BY <2>1, <2>2, <2>3
<1>2. ASSUME NEW a \in Accesses, EvictBegins(a) PROVE Second!SCNext
  BY <1>2, EvictionStarts DEF Second!SCNext
<1>3. ASSUME EvictSkips PROVE Second!SCNext
  BY <1>3, SkipSpares DEF Second!SCNext
<1>4. ASSUME EvictFinds PROVE Second!SCNext
  <2>1. pending.page \in Pages
    BY <1>4 DEF EvictFinds, ClockInv, Evicting, Accesses
  <2>2. PICK p \in Pages : p = pending.page
    BY <2>1
  <2>3. Second!Replace(p)
    BY <1>4, <2>2, FindReplaces
  <2> QED
    BY <2>3 DEF Second!SCNext
<1>5. CASE ClockTraceEnd \/ UNCHANGED clockVars
  <2>1. UNCHANGED <<clock, reference, pending, frames>>
    BY <1>5 DEF ClockTraceEnd, TraceEnd, Terminated, clockVars, vars, mmVars
  <2> QED
    BY <2>1 DEF ClockQueue, FreeFrames, Second!scVars
<1> QED
  BY <1>1, <1>2, <1>3, <1>4, <1>5 DEF ClockNext

(* The ring of csc369_policy_clock.c, its moving head and its hand are a   *)
(* second-chance queue of pages: none overtakes another, none is evicted   *)
(* that was referenced since the hand last passed it, and no reference bit *)
(* is lost.  It is so for every memory size, as long as nothing aborts.    *)
THEOREM ClockImplementsSecondChance ==
  ASSUME SwapLargeEnough, ReliableDisk
  PROVE  ClockSpec => ImplementsSecondChance
<1>1. ClockInit => Second!SCInit
  <2> SUFFICES ASSUME ClockInit PROVE Second!SCInit
    OBVIOUS
  <2>1. UsedFrames = {} /\ pending = NULL /\ reference = [p \in Pages |-> FALSE]
    BY DEF ClockInit, Init, MMCreate, CSC369_CoremapCreate, UsedFrames, FreeFrames
  <2>2. ClockQueue = QueueOf(clock, pending, UsedFrames, frames)
    BY DEF ClockQueue, QueueOf, UsedFrames
  <2>3. ClockQueue = << >>
    BY <2>1, <2>2, QueueEmpty
  <2> QED
    BY <2>1, <2>3 DEF Second!SCInit
<1>2. ClockInv /\ ClockInv' /\ NeverAborts' /\ [ClockNext]_clockVars
      => [Second!SCNext]_(Second!scVars)
  BY SecondChanceStep DEF NeverAborts
<1>3. Spec => []NeverAborts
  BY NoAbort
<1> QED
  BY <1>1, <1>2, <1>3, ClockCorrect, ClockImplementsSpec, PTL
  DEF ClockSpec, ImplementsSecondChance, Second!SCSpec
=============================================================================
