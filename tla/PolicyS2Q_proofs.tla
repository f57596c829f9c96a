-------------------------- MODULE PolicyS2Q_proofs --------------------------
(***************************************************************************)
(* Proofs about the simplified 2Q policy, for every memory size, swap size *)
(* and set of pages, whatever the disk does.                               *)
(***************************************************************************)
EXTENDS PolicyS2Q, MemSim_proofs, SequenceTheorems

-----------------------------------------------------------------------------
(* 2Q is one way of choosing victims *)

(* A step under 2Q is a step of MemSim: the victim is a frame.             *)
LEMMA S2QStep ==
  ASSUME TypeOK, [S2QNext]_s2qVars
  PROVE  [Next]_vars
<1>1. ASSUME NEW a \in Accesses, status = "running", WellFormed(a), S2QEvict(a)
      PROVE  Next
  <2>1. /\ EvictEntry \in Frames
        /\ MissEvict(a, pte[frames[EvictEntry]].frame_number)
    BY <1>1 DEF S2QEvict
  <2>2. frames[EvictEntry] \in Pages
    BY <2>1, FullMemory DEF MissEvict, AllocateEvict
  <2>3. pte[frames[EvictEntry]].frame_number \in Frames
    BY <2>2 DEF TypeOK, MMTypeOK, PTE
  <2> QED
    BY <1>1, <2>1, <2>3 DEF Next, CSC369_PolicyRandEvict
<1>2. CASE S2QNext
  BY <1>1, <1>2 DEF S2QNext, Next
<1> QED
  BY <1>2 DEF s2qVars, vars

(* Every theorem about Spec holds of the simulator under 2Q.               *)
THEOREM S2QImplementsSpec == S2QSpec => Spec
<1>1. CSC369_PolicyS2QInit => Init
  BY DEF CSC369_PolicyS2QInit
<1>2. TypeOK /\ [S2QNext]_s2qVars => [Next]_vars /\ TypeOK'
  BY S2QStep, TypeStep
<1> QED
  BY <1>1, <1>2, TypeInit, PTL DEF S2QSpec, Spec

-----------------------------------------------------------------------------
(* Type correctness *)

Queues == [next : [Nodes -> Nodes \cup {NULL}], prev : [Nodes -> Nodes \cup {NULL}]]

LEMMA QueueHeads ==
  /\ A1 \in Nodes /\ Am \in Nodes /\ A1 # Am /\ NULL \notin Nodes
  /\ A1 \notin Frames /\ Am \notin Frames
BY HeadsAssumption DEF Nodes

(* The list operations keep the pointers within the nodes.                 *)
LEMMA ListOpsType ==
  ASSUME NEW q \in Queues, NEW e \in Nodes
  PROVE  /\ list_del(q, e) \in Queues
         /\ list_add_head(q, Am, e) \in Queues
         /\ list_add_tail(q, A1, e) \in Queues
<1>1. ASSUME NEW p \in Nodes \cup {NULL}, NEW n \in Nodes \cup {NULL}
      PROVE  list_insert(q, e, p, n) \in Queues
  BY <1>1 DEF list_insert, Queues
<1>2. list_del(q, e) \in Queues
  BY DEF list_del, list_entry_init, Queues
<1>3. q.next[Am] \in Nodes \cup {NULL} /\ q.prev[A1] \in Nodes \cup {NULL}
  BY QueueHeads DEF Queues
<1> QED
  BY <1>1, <1>2, <1>3, QueueHeads DEF list_add_head, list_add_tail

LEMMA OnReferenceType ==
  ASSUME TypeOK', NEW q \in Queues, NEW bits \in [Pages -> BOOLEAN],
         NEW p \in Pages, OnReference(q, bits, p)
  PROVE  queues' \in Queues /\ reference' \in [Pages -> BOOLEAN]
<1>1. pte'[p].frame_number \in Nodes
  BY DEF TypeOK, MMTypeOK, PTE, Nodes
<1>2. list_del(q, pte'[p].frame_number) \in Queues
  BY <1>1, ListOpsType
<1> QED
  BY <1>1, <1>2, ListOpsType DEF OnReference, CSC369_PolicyS2QOnRef, Referenced

LEMMA S2QTypeStep ==
  ASSUME S2QTypeOK, TypeOK', [S2QNext]_s2qVars
  PROVE  S2QTypeOK'
<1>1. queues \in Queues /\ reference \in [Pages -> BOOLEAN]
  BY DEF S2QTypeOK, Queues
<1>2. ASSUME NEW a \in Accesses, OnReference(queues, reference, a.page)
      PROVE  queues' \in Queues /\ reference' \in [Pages -> BOOLEAN]
  BY <1>1, <1>2, OnReferenceType DEF Accesses
<1>3. ASSUME NEW a \in Accesses, S2QEvict(a)
      PROVE  queues' \in Queues /\ reference' \in [Pages -> BOOLEAN]
  <2> DEFINE bits == [reference EXCEPT ![frames[EvictEntry]] = FALSE]
  <2>1. list_del(queues, EvictEntry) \in Queues /\ bits \in [Pages -> BOOLEAN]
    BY <1>1, <1>3, ListOpsType DEF S2QEvict, Nodes
  <2>2. OnReference(list_del(queues, EvictEntry), bits, a.page)
    BY <1>3 DEF S2QEvict
  <2> HIDE DEF bits
  <2> QED
    BY <2>1, <2>2, OnReferenceType DEF Accesses
<1>4. queues' \in Queues /\ reference' \in [Pages -> BOOLEAN]
  BY <1>1, <1>2, <1>3 DEF S2QNext, s2qVars
<1> QED
  BY <1>4 DEF S2QTypeOK, Queues

(* The two lists only ever link frames of the coremap and the two heads.   *)
THEOREM S2QTypeCorrect == S2QSpec => []S2QTypeOK
<1>1. CSC369_PolicyS2QInit /\ TypeOK => S2QTypeOK
  <2>1. Unlinked \in Queues
    BY DEF Unlinked, Queues
  <2>2. \A q \in Queues : \A h \in Nodes : list_init(q, h) \in Queues
    BY DEF list_init, Queues
  <2>3. list_init(list_init(Unlinked, A1), Am) \in Queues
    BY <2>1, <2>2, QueueHeads
  <2>4. [p \in Pages |-> FALSE] \in [Pages -> BOOLEAN]
    OBVIOUS
  <2> QED
    BY <2>3, <2>4 DEF CSC369_PolicyS2QInit, S2QTypeOK, Queues
<1>2. S2QTypeOK /\ TypeOK' /\ [S2QNext]_s2qVars => S2QTypeOK'
  BY S2QTypeStep
<1> QED
  BY <1>1, <1>2, S2QImplementsSpec, TypeCorrect, PTL DEF S2QSpec
-----------------------------------------------------------------------------
(* The two lists *)

(* The rings v and w share no node, and apart from their heads v[0] and    *)
(* w[0] link exactly the frames of on.                                     *)
TwoRings(q, v, m, w, n, on) ==
  /\ Pointers(q, Nodes)
  /\ Ring(q, Nodes, v, m) /\ v[0] \notin Frames
  /\ Ring(q, Nodes, w, n) /\ w[0] \notin Frames
  /\ OnRing(v, m) \cap OnRing(w, n) = {}
  /\ OnList(v, m) \cup OnList(w, n) = on /\ on \subseteq Frames
  /\ m + n = Cardinality(on) + 2
  /\ \A f \in Frames \ on : q.next[f] = NULL

LEMMA TwoRingsSwap ==
  ASSUME NEW q, NEW v, NEW m, NEW w, NEW n, NEW on, TwoRings(q, v, m, w, n, on)
  PROVE  TwoRings(q, w, n, v, m, on)
<1>1. m \in Nat /\ n \in Nat
  BY DEF TwoRings, Ring
<1> QED
  BY <1>1 DEF TwoRings

(* Inserting a frame in one of the rings.                                  *)
LEMMA TwoRingsInsert ==
  ASSUME NEW q, NEW v, NEW m, NEW w, NEW n, NEW on, TwoRings(q, v, m, w, n, on),
         NEW k \in 1 .. m, NEW e \in Frames \ on
  PROVE  LET r == list_insert(q, e, v[k - 1], v[k])
             u == Inserted(v, m, k, e)
         IN  /\ TwoRings(r, u, m + 1, w, n, on \cup {e})
             /\ u[0] = v[0]
             /\ OnList(u, m + 1) = OnList(v, m) \cup {e}
<1> DEFINE r == list_insert(q, e, v[k - 1], v[k])
           u == Inserted(v, m, k, e)
<1>1. /\ Pointers(q, Nodes) /\ Ring(q, Nodes, v, m) /\ Ring(q, Nodes, w, n)
      /\ v[0] \notin Frames /\ w[0] \notin Frames
      /\ OnList(v, m) \cup OnList(w, n) = on /\ on \subseteq Frames
      /\ OnRing(v, m) \cap OnRing(w, n) = {}
      /\ m \in Nat \ {0} /\ n \in Nat \ {0}
  BY DEF TwoRings, Ring
<1>2. /\ OnRing(v, m) = OnList(v, m) \cup {v[0]} /\ v[0] \notin OnList(v, m)
      /\ OnRing(w, n) = OnList(w, n) \cup {w[0]} /\ OnRing(w, n) \subseteq Nodes
      /\ \A i \in 0 .. m : v[i] \in OnRing(v, m) /\ v[i] \in Nodes
  BY <1>1, RingNodes
<1>3. e \in Nodes /\ e \notin OnRing(v, m) /\ e \notin OnRing(w, n)
  BY <1>1, <1>2 DEF Nodes
<1>4. /\ Ring(r, Nodes, u, m + 1) /\ u[0] = v[0] /\ u[k] = e
      /\ OnRing(u, m + 1) = OnRing(v, m) \cup {e}
      /\ \A x \in Nodes \ (OnRing(v, m) \cup {e}) :
           r.next[x] = q.next[x] /\ r.prev[x] = q.prev[x]
  BY <1>1, <1>3, InsertRing
<1>5. Pointers(r, Nodes)
  <2> DEFINE a == v[k - 1]
             b == v[k]
  <2>1. a \in Nodes /\ b \in Nodes /\ e # a /\ e # b
    <3>1. k - 1 \in 0 .. m /\ k \in 0 .. m
      BY <1>1
    <3> QED
      BY <3>1, <1>2, <1>3
  <2> HIDE DEF a, b
  <2>2. Pointers(list_insert(q, e, a, b), Nodes)
    BY <1>1, <1>3, <2>1, InsertPointers
  <2> QED
    BY <2>2 DEF a, b
<1> HIDE DEF r, u
<1>6. Ring(r, Nodes, w, n)
  <2>1. \A x \in OnRing(w, n) : r.next[x] = q.next[x] /\ r.prev[x] = q.prev[x]
    BY <1>1, <1>2, <1>3, <1>4
  <2> QED
    BY <1>1, <2>1, RingKept
<1>7. OnList(u, m + 1) = OnList(v, m) \cup {e}
  <2>1. /\ OnRing(u, m + 1) = OnList(u, m + 1) \cup {u[0]}
        /\ u[0] \notin OnList(u, m + 1)
    BY <1>4, RingNodes
  <2> QED
    BY <1>1, <1>2, <1>3, <1>4, <2>1
<1>8. (m + 1) + n = Cardinality(on \cup {e}) + 2
  <2>1. IsFiniteSet(on) /\ Cardinality(on) \in Nat
    BY <1>1, FramesFinite
  <2>2. Cardinality(on \cup {e}) = Cardinality(on) + 1
    BY <2>1, FS_AddElement
  <2> QED
    BY <1>1, <2>1, <2>2 DEF TwoRings
<1>9. ASSUME NEW f \in Frames \ (on \cup {e}) PROVE r.next[f] = NULL
  <2>1. f \in Nodes \ (OnRing(v, m) \cup {e})
    BY <1>1, <1>2 DEF Nodes
  <2> QED
    BY <1>4, <2>1 DEF TwoRings
<1>10. TwoRings(r, u, m + 1, w, n, on \cup {e})
  BY <1>1, <1>3, <1>4, <1>5, <1>6, <1>7, <1>8, <1>9 DEF TwoRings
<1> QED
  BY <1>4, <1>7, <1>10 DEF r, u

(* Taking a frame out of one of the rings.                                 *)
LEMMA TwoRingsRemove ==
  ASSUME NEW q, NEW v, NEW m, NEW w, NEW n, NEW on, TwoRings(q, v, m, w, n, on),
         NEW k \in 1 .. m - 1
  PROVE  LET r == list_del(q, v[k])
             u == Removed(v, m, k)
         IN  /\ TwoRings(r, u, m - 1, w, n, on \ {v[k]})
             /\ u[0] = v[0]
             /\ OnList(u, m - 1) = OnList(v, m) \ {v[k]}
             /\ v[k] \in OnList(v, m)
<1> DEFINE r == list_del(q, v[k])
           u == Removed(v, m, k)
           e == v[k]
<1>1. /\ Pointers(q, Nodes) /\ Ring(q, Nodes, v, m) /\ Ring(q, Nodes, w, n)
      /\ v[0] \notin Frames /\ w[0] \notin Frames
      /\ OnList(v, m) \cup OnList(w, n) = on /\ on \subseteq Frames
      /\ OnRing(v, m) \cap OnRing(w, n) = {}
      /\ m \in Nat \ {0} /\ n \in Nat \ {0}
  BY DEF TwoRings, Ring
<1>2. /\ OnRing(v, m) = OnList(v, m) \cup {v[0]} /\ v[0] \notin OnList(v, m)
      /\ OnRing(w, n) = OnList(w, n) \cup {w[0]} /\ OnRing(w, n) \subseteq Nodes
  BY <1>1, RingNodes
<1>3. e \in OnList(v, m)
  BY DEF OnList
<1>4. e \in on /\ e \in Frames /\ e \notin OnRing(w, n)
  BY <1>1, <1>2, <1>3
<1>5. /\ Pointers(r, Nodes) /\ Ring(r, Nodes, u, m - 1) /\ u[0] = v[0]
      /\ OnRing(u, m - 1) = OnRing(v, m) \ {e}
      /\ r.next[e] = NULL
      /\ \A x \in Nodes \ OnRing(v, m) :
           r.next[x] = q.next[x] /\ r.prev[x] = q.prev[x]
  BY <1>1, QueueHeads, RemoveRing
<1> HIDE DEF r, u, e
<1>6. Ring(r, Nodes, w, n)
  <2>1. \A x \in OnRing(w, n) : r.next[x] = q.next[x] /\ r.prev[x] = q.prev[x]
    BY <1>1, <1>2, <1>5
  <2> QED
    BY <1>1, <2>1, RingKept
<1>7. OnList(u, m - 1) = OnList(v, m) \ {e}
  <2>1. /\ OnRing(u, m - 1) = OnList(u, m - 1) \cup {u[0]}
        /\ u[0] \notin OnList(u, m - 1)
    BY <1>5, RingNodes
  <2> QED
    BY <1>1, <1>2, <1>4, <1>5, <2>1
<1>8. (m - 1) + n = Cardinality(on \ {e}) + 2
  <2>1. IsFiniteSet(on) /\ Cardinality(on) \in Nat
    BY <1>1, FramesFinite
  <2>2. Cardinality(on \ {e}) = Cardinality(on) - 1
    BY <1>4, <2>1, FS_RemoveElement
  <2> QED
    BY <1>1, <2>1, <2>2 DEF TwoRings
<1>9. ASSUME NEW f \in Frames \ (on \ {e}) PROVE r.next[f] = NULL
  <2>1. CASE f = e
    BY <2>1, <1>5
  <2>2. CASE f # e
    <3>1. f \in Nodes \ OnRing(v, m) /\ f \in Frames \ on
      BY <1>1, <1>2, <2>2 DEF Nodes
    <3> QED
      BY <1>5, <3>1 DEF TwoRings
  <2> QED
    BY <2>1, <2>2
<1>10. TwoRings(r, u, m - 1, w, n, on \ {e})
  BY <1>1, <1>2, <1>4, <1>5, <1>6, <1>7, <1>8, <1>9 DEF TwoRings
<1> QED
  BY <1>3, <1>5, <1>7, <1>10 DEF r, u, e

(* A1 and Am between them link the frames of on; those of again are on Am. *)
QueuesHold(q, on, again) ==
  \E v, m, w, n :
    /\ TwoRings(q, v, m, w, n, on)
    /\ v[0] = A1 /\ w[0] = Am /\ again = OnList(w, n)

(* A linked frame is one that is on a list.                                *)
LEMMA LinkedIsOn ==
  ASSUME NEW q, NEW on, NEW again, QueuesHold(q, on, again), NEW f \in Frames
  PROVE  /\ list_entry_is_linked(q, f) <=> f \in on
         /\ again \subseteq on /\ on \subseteq Frames
<1>1. PICK v, m, w, n :
        TwoRings(q, v, m, w, n, on) /\ again = OnList(w, n)
  BY DEF QueuesHold
<1>2. ASSUME NEW x, NEW k, Ring(q, Nodes, x, k), f \in OnList(x, k)
      PROVE  q.next[f] # NULL
  <2>1. PICK i \in 1 .. k - 1 : f = x[i]
    BY <1>2 DEF OnList
  <2>2. k \in Nat \ {0} /\ x \in [0 .. k -> Nodes]
    BY <1>2 DEF Ring
  <2>3. i \in 0 .. k - 1 /\ i + 1 \in 0 .. k
    BY <2>2
  <2>4. q.next[f] = x[i + 1]
    BY <1>2, <2>1, <2>3 DEF Ring
  <2> QED
    BY <2>2, <2>3, <2>4, QueueHeads
<1> QED
  BY <1>1, <1>2 DEF TwoRings, list_entry_is_linked

LEMMA HoldAddA1 ==
  ASSUME NEW q, NEW on, NEW again, QueuesHold(q, on, again),
         NEW e \in Frames \ on
  PROVE  QueuesHold(list_add_tail(q, A1, e), on \cup {e}, again)
<1>1. PICK v, m, w, n :
        /\ TwoRings(q, v, m, w, n, on)
        /\ v[0] = A1 /\ w[0] = Am /\ again = OnList(w, n)
  BY DEF QueuesHold
<1>2. Ring(q, Nodes, v, m)
  BY <1>1 DEF TwoRings
<1>3. list_add_tail(q, A1, e) = list_insert(q, e, v[m - 1], v[m])
  BY <1>1, <1>2, RingEnds DEF list_add_tail
<1> DEFINE r == list_insert(q, e, v[m - 1], v[m])
           u == Inserted(v, m, m, e)
<1>4. TwoRings(r, u, m + 1, w, n, on \cup {e}) /\ u[0] = v[0]
  <2>1. PICK k \in 1 .. m : k = m
    BY <1>2, RingEnds
  <2>2. LET s == list_insert(q, e, v[k - 1], v[k])
            x == Inserted(v, m, k, e)
        IN  TwoRings(s, x, m + 1, w, n, on \cup {e}) /\ x[0] = v[0]
    BY <1>1, TwoRingsInsert
  <2> QED
    BY <2>1, <2>2
<1> HIDE DEF r, u
<1>5. QueuesHold(r, on \cup {e}, again)
  BY <1>1, <1>4 DEF QueuesHold
<1> QED
  BY <1>3, <1>5 DEF r

LEMMA HoldAddAm ==
  ASSUME NEW q, NEW on, NEW again, QueuesHold(q, on, again),
         NEW e \in Frames \ on
  PROVE  QueuesHold(list_add_head(q, Am, e), on \cup {e}, again \cup {e})
<1>1. PICK v, m, w, n :
        /\ TwoRings(q, v, m, w, n, on)
        /\ v[0] = A1 /\ w[0] = Am /\ again = OnList(w, n)
  BY DEF QueuesHold
<1>2. Ring(q, Nodes, w, n) /\ TwoRings(q, w, n, v, m, on)
  BY <1>1, TwoRingsSwap DEF TwoRings
<1> DEFINE r == list_insert(q, e, w[1 - 1], w[1])
           u == Inserted(w, n, 1, e)
<1>3. list_add_head(q, Am, e) = r
  <2>1. 1 - 1 = 0
    OBVIOUS
  <2> QED
    BY <1>1, <1>2, <2>1, RingEnds DEF list_add_head
<1>4. /\ TwoRings(r, u, n + 1, v, m, on \cup {e}) /\ u[0] = w[0]
      /\ OnList(u, n + 1) = OnList(w, n) \cup {e}
  <2>1. 1 \in 1 .. n
    BY <1>2, RingEnds
  <2> QED
    BY <1>2, <2>1, TwoRingsInsert
<1> HIDE DEF r, u
<1>5. TwoRings(r, v, m, u, n + 1, on \cup {e})
  BY <1>4, TwoRingsSwap
<1>6. QueuesHold(r, on \cup {e}, again \cup {e})
  BY <1>1, <1>4, <1>5 DEF QueuesHold
<1> QED
  BY <1>3, <1>6

LEMMA HoldDel ==
  ASSUME NEW q, NEW on, NEW again, QueuesHold(q, on, again), NEW e \in on
  PROVE  QueuesHold(list_del(q, e), on \ {e}, again \ {e})
<1>1. PICK v, m, w, n :
        /\ TwoRings(q, v, m, w, n, on)
        /\ v[0] = A1 /\ w[0] = Am /\ again = OnList(w, n)
  BY DEF QueuesHold
<1>2. e \in OnList(v, m) \/ e \in OnList(w, n)
  BY <1>1 DEF TwoRings
<1>3. CASE e \in OnList(v, m)
  <2>1. PICK k \in 1 .. m - 1 : e = v[k]
    BY <1>3 DEF OnList
  <2> DEFINE u == Removed(v, m, k)
  <2>2. TwoRings(list_del(q, e), u, m - 1, w, n, on \ {e}) /\ u[0] = v[0]
    BY <1>1, <2>1, TwoRingsRemove
  <2>3. e \notin again
    <3>1. Ring(q, Nodes, v, m) /\ Ring(q, Nodes, w, n)
          /\ OnRing(v, m) \cap OnRing(w, n) = {}
      BY <1>1 DEF TwoRings
    <3> QED
      BY <1>1, <1>3, <3>1, RingNodes
  <2> HIDE DEF u
  <2>4. again \ {e} = OnList(w, n)
    BY <1>1, <2>3
  <2> QED
    BY <1>1, <2>2, <2>4 DEF QueuesHold
<1>4. CASE e \in OnList(w, n)
  <2>1. PICK k \in 1 .. n - 1 : e = w[k]
    BY <1>4 DEF OnList
  <2> DEFINE u == Removed(w, n, k)
  <2>2. TwoRings(q, w, n, v, m, on)
    BY <1>1, TwoRingsSwap
  <2>3. /\ TwoRings(list_del(q, e), u, n - 1, v, m, on \ {e}) /\ u[0] = w[0]
        /\ OnList(u, n - 1) = OnList(w, n) \ {e}
    BY <2>1, <2>2, TwoRingsRemove
  <2> HIDE DEF u
  <2>4. TwoRings(list_del(q, e), v, m, u, n - 1, on \ {e})
    BY <2>3, TwoRingsSwap
  <2> QED
    BY <1>1, <2>3, <2>4 DEF QueuesHold
<1> QED
  BY <1>2, <1>3, <1>4
-----------------------------------------------------------------------------
(* The invariant of the policy *)

(* The lists link exactly the frames in use, and the reference bits that   *)
(* are set are those of the pages on Am.                                   *)
S2QInv ==
  status # "aborted" =>
    \E again :
      /\ QueuesHold(queues, UsedFrames, again)
      /\ {x \in Pages : reference[x]} = {frames[f] : f \in again}

(* OnRef keeps it, if it is called on a page that has just been given a    *)
(* frame, or on one that already had a frame.                              *)
LEMMA OnReferenceKeeps ==
  ASSUME TypeOK', CoremapConsistent', status' # "aborted",
         NEW q, NEW on, NEW again, QueuesHold(q, on, again),
         NEW bits \in [Pages -> BOOLEAN], NEW p \in Pages, pte'[p].valid,
         {x \in Pages : bits[x]} = {frames'[f] : f \in again},
         UsedFrames' = on \cup {pte'[p].frame_number},
         OnReference(q, bits, p)
  PROVE  S2QInv'
<1> DEFINE e == pte'[p].frame_number
<1>1. e \in Frames /\ frames'[e] = p
  BY DEF TypeOK, MMTypeOK, PTE, CoremapConsistent
<1>2. list_entry_is_linked(q, e) <=> e \in on
  BY <1>1, LinkedIsOn
<1>3. again \subseteq on /\ on \subseteq Frames
  BY <1>1, LinkedIsOn
<1>4. queues' = CSC369_PolicyS2QOnRef(q, e) /\ reference' = Referenced(q, bits, e)
  BY DEF OnReference
<1>5. UsedFrames' = on \cup {e}
  OBVIOUS
<1> HIDE DEF e
<1>6. CASE e \in on
  <2>1. queues' = list_add_head(list_del(q, e), Am, e)
    BY <1>2, <1>4, <1>6 DEF CSC369_PolicyS2QOnRef
  <2>2. QueuesHold(list_del(q, e), on \ {e}, again \ {e})
    BY <1>6, HoldDel
  <2>3. QueuesHold(queues', (on \ {e}) \cup {e}, (again \ {e}) \cup {e})
    BY <1>1, <2>1, <2>2, HoldAddAm
  <2>4. (on \ {e}) \cup {e} = UsedFrames' /\ (again \ {e}) \cup {e} = again \cup {e}
    BY <1>5, <1>6
  <2>5. reference' = [bits EXCEPT ![p] = TRUE]
    BY <1>1, <1>2, <1>4, <1>6 DEF Referenced
  <2>6. {x \in Pages : reference'[x]} = {x \in Pages : bits[x]} \cup {p}
    BY <2>5
  <2>7. {frames'[f] : f \in again \cup {e}} = {frames'[f] : f \in again} \cup {p}
    BY <1>1
  <2>8. QueuesHold(queues', UsedFrames', again \cup {e})
    BY <2>3, <2>4
  <2> QED
    BY <2>6, <2>7, <2>8 DEF S2QInv, QueuesHold, TwoRings
<1>7. CASE e \notin on
  <2>1. queues' = list_add_tail(q, A1, e) /\ reference' = bits
    BY <1>2, <1>4, <1>7 DEF CSC369_PolicyS2QOnRef, Referenced
  <2>2. QueuesHold(queues', UsedFrames', again)
    BY <1>1, <1>5, <1>7, <2>1, HoldAddA1
  <2> QED
    BY <2>1, <2>2 DEF S2QInv, QueuesHold, TwoRings
<1> QED
  BY <1>6, <1>7

LEMMA HitKeeps ==
  ASSUME S2QTypeOK, TypeOK', CoremapConsistent, CoremapConsistent', S2QInv,
         status = "running", NEW a \in Accesses, Hit(a),
         OnReference(queues, reference, a.page)
  PROVE  S2QInv'
<1>1. PICK again :
        /\ QueuesHold(queues, UsedFrames, again)
        /\ {x \in Pages : reference[x]} = {frames[f] : f \in again}
  BY DEF S2QInv
<1>2. /\ a.page \in Pages /\ pte[a.page] \in PTE /\ pte[a.page].valid
      /\ pte' = [pte EXCEPT ![a.page].dirty = @ \/ IsWrite(a)]
      /\ frames' = frames /\ status' = "running"
      /\ reference \in [Pages -> BOOLEAN]
  BY DEF Hit, MMHit, Accesses, S2QTypeOK, TypeOK, MMTypeOK
<1>3. /\ pte'[a.page].valid
      /\ pte'[a.page].frame_number = pte[a.page].frame_number
  BY <1>2 DEF S2QTypeOK, TypeOK, MMTypeOK, PTE
<1>4. pte[a.page].frame_number \in UsedFrames
  BY <1>2, Constants DEF UsedFrames, FreeFrames, CoremapConsistent, PTE
<1>5. UsedFrames' = UsedFrames \cup {pte'[a.page].frame_number}
  BY <1>2, <1>3, <1>4 DEF UsedFrames, FreeFrames
<1>6. {x \in Pages : reference[x]} = {frames'[f] : f \in again}
  BY <1>1, <1>2
<1> QED
  BY <1>1, <1>2, <1>3, <1>5, <1>6, OnReferenceKeeps

LEMMA MissFreeKeeps ==
  ASSUME S2QTypeOK, TypeOK', CoremapConsistent', S2QInv, status = "running",
         status' # "aborted", NEW a \in Accesses, MissFree(a),
         OnReference(queues, reference, a.page)
  PROVE  S2QInv'
<1>1. PICK again :
        /\ QueuesHold(queues, UsedFrames, again)
        /\ {x \in Pages : reference[x]} = {frames[f] : f \in again}
  BY DEF S2QInv
<1>2. PICK f \in Frames : f \in FreeFrames /\ Fill(a, f, pte, {})
  BY DEF MissFree, AllocateFree, FindFreeFrame
<1>3. /\ a.page \in Pages /\ pte \in [Pages -> PTE] /\ a.page # NULL
      /\ frames \in [Frames -> Pages \cup {NULL}]
      /\ reference \in [Pages -> BOOLEAN]
  BY Constants DEF Accesses, S2QTypeOK, TypeOK, MMTypeOK
<1>4. /\ pte'[a.page].valid /\ pte'[a.page].frame_number = f
      /\ frames' = [frames EXCEPT ![f] = a.page]
  BY <1>2, <1>3, FillPlaces
<1>5. UsedFrames' = UsedFrames \cup {f}
  BY <1>3, <1>4 DEF UsedFrames, FreeFrames
<1>6. f \notin again /\ again \subseteq Frames
  BY <1>1, <1>2, LinkedIsOn DEF UsedFrames
<1>7. \A g \in again : frames'[g] = frames[g]
  BY <1>3, <1>4, <1>6
<1>8. {x \in Pages : reference[x]} = {frames'[g] : g \in again}
  BY <1>1, <1>7
<1> QED
  BY <1>1, <1>3, <1>4, <1>5, <1>8, OnReferenceKeeps

LEMMA EvictKeeps ==
  ASSUME S2QTypeOK, TypeOK', CoremapConsistent, CoremapConsistent', S2QInv,
         status = "running", status' # "aborted", NEW a \in Accesses, S2QEvict(a)
  PROVE  S2QInv'
<1> DEFINE e == EvictEntry
           v == frames[e]
           bits == [reference EXCEPT ![v] = FALSE]
<1>1. PICK again :
        /\ QueuesHold(queues, UsedFrames, again)
        /\ {x \in Pages : reference[x]} = {frames[f] : f \in again}
  BY DEF S2QInv
<1>2. /\ e \in Frames /\ MissEvict(a, pte[v].frame_number)
      /\ OnReference(list_del(queues, e), bits, a.page)
  BY DEF S2QEvict
<1> HIDE DEF e
<1>3. /\ FreeFrames = {} /\ UsedFrames = Frames
      /\ \A f \in Frames : frames[f] \in Pages /\ frames[f] # NULL
      /\ \A f \in Frames : pte[frames[f]].frame_number = f
  <2>1. FreeFrames = {}
    BY <1>2 DEF MissEvict, AllocateEvict
  <2> QED
    BY <2>1, FullMemory, Constants DEF UsedFrames, CoremapConsistent, S2QTypeOK
<1>4. /\ a.page \in Pages /\ frames \in [Frames -> Pages \cup {NULL}]
      /\ reference \in [Pages -> BOOLEAN] /\ a.page # NULL
  BY Constants DEF Accesses, S2QTypeOK, TypeOK, MMTypeOK
<1>5. PICK offset \in SwapOffsets \cup {CSC369_INVALID_SWAP} :
        Fill(a, e, EvictedTable(v, offset), {EvictCounter(v)})
  BY <1>2, <1>3 DEF MissEvict
<1>6. EvictedTable(v, offset) \in [Pages -> PTE]
  BY <1>2, <1>3, EvictedTableType DEF S2QTypeOK
<1>7. /\ pte'[a.page].valid /\ pte'[a.page].frame_number = e
      /\ frames' = [frames EXCEPT ![e] = a.page]
  BY <1>2, <1>5, <1>6, FillPlaces
<1>8. QueuesHold(list_del(queues, e), Frames \ {e}, again \ {e})
  BY <1>1, <1>2, <1>3, HoldDel
<1>9. bits \in [Pages -> BOOLEAN] /\ v \in Pages
  BY <1>2, <1>3, <1>4
<1>10. {x \in Pages : bits[x]} = {frames'[f] : f \in again \ {e}}
  <2>1. again \subseteq Frames
    BY <1>1, <1>2, LinkedIsOn
  <2>2. \A f \in again \ {e} : frames'[f] = frames[f] /\ frames[f] # v
    BY <1>2, <1>3, <1>4, <1>7, <2>1
  <2>3. {x \in Pages : bits[x]} = {x \in Pages : reference[x]} \ {v}
    BY <1>4, <1>9
  <2>4. {frames'[f] : f \in again \ {e}} = {frames[f] : f \in again} \ {v}
    BY <2>2
  <2> QED
    BY <1>1, <2>3, <2>4
<1>11. UsedFrames' = (Frames \ {e}) \cup {pte'[a.page].frame_number}
  <2>1. \A f \in Frames : frames'[f] # NULL
    BY <1>2, <1>3, <1>4, <1>7
  <2> QED
    BY <1>2, <1>7, <2>1 DEF UsedFrames, FreeFrames
<1> HIDE DEF bits
<1> QED
  BY <1>2, <1>4, <1>7, <1>8, <1>9, <1>10, <1>11, OnReferenceKeeps

LEMMA S2QInvStep ==
  ASSUME S2QTypeOK, TypeOK', CoremapConsistent, CoremapConsistent', S2QInv,
         [S2QNext]_s2qVars
  PROVE  S2QInv'
<1>1. CASE status' = "aborted"
  BY <1>1 DEF S2QInv
<1>2. ASSUME status' # "aborted", NEW a \in Accesses, status = "running",
             \/ (Hit(a) \/ MissFree(a)) /\ OnReference(queues, reference, a.page)
             \/ S2QEvict(a)
      PROVE  S2QInv'
  BY <1>2, HitKeeps, MissFreeKeeps, EvictKeeps
<1>3. ASSUME UNCHANGED <<mmVars, queues, reference>>,
             status # "aborted"
      PROVE  S2QInv'
  <2>1. PICK again :
          /\ QueuesHold(queues, UsedFrames, again)
          /\ {x \in Pages : reference[x]} = {frames[f] : f \in again}
    BY <1>3 DEF S2QInv
  <2>2. queues' = queues /\ reference' = reference /\ frames' = frames
    BY <1>3 DEF mmVars
  <2>3. UsedFrames' = UsedFrames
    BY <2>2 DEF UsedFrames, FreeFrames
  <2>4. QueuesHold(queues', UsedFrames', again)
    BY <2>1, <2>2, <2>3
  <2>5. {x \in Pages : reference'[x]} = {frames'[f] : f \in again}
    BY <2>1, <2>2
  <2> QED
    BY <2>4, <2>5 DEF S2QInv, QueuesHold, TwoRings
<1>4. CASE /\ status' # "aborted"
           /\ \/ TraceEnd /\ UNCHANGED <<queues, reference>>
              \/ Terminated /\ UNCHANGED <<queues, reference>>
              \/ UNCHANGED s2qVars
  BY <1>4, <1>3 DEF TraceEnd, Terminated, s2qVars, vars, simVars
<1> QED
  BY <1>1, <1>2, <1>4 DEF S2QNext

(* At the start both lists are empty.                                      *)
LEMMA S2QInvInit ==
  ASSUME CSC369_PolicyS2QInit
  PROVE  S2QInv
<1> DEFINE q == list_init(list_init(Unlinked, A1), Am)
           v == [k \in 0 .. 1 |-> A1]
           w == [k \in 0 .. 1 |-> Am]
<1>1. /\ "next" \in DOMAIN q /\ "prev" \in DOMAIN q
      /\ q.next \in [Nodes -> Nodes \cup {NULL}]
      /\ q.prev \in [Nodes -> Nodes \cup {NULL}]
      /\ q.next[A1] = A1 /\ q.prev[A1] = A1 /\ q.next[Am] = Am /\ q.prev[Am] = Am
      /\ \A f \in Frames : q.next[f] = NULL
  <2> DEFINE l == list_init(Unlinked, A1)
  <2>1. /\ "next" \in DOMAIN l /\ "prev" \in DOMAIN l
        /\ l.next = [n \in Nodes |-> IF n = A1 THEN A1 ELSE NULL]
        /\ l.prev = [n \in Nodes |-> IF n = A1 THEN A1 ELSE NULL]
    BY DEF list_init, Unlinked
  <2>2. q = list_init(l, Am)
    OBVIOUS
  <2> HIDE DEF l, q
  <2>3. /\ "next" \in DOMAIN q /\ "prev" \in DOMAIN q
        /\ q.next = [l.next EXCEPT ![Am] = Am]
        /\ q.prev = [l.prev EXCEPT ![Am] = Am]
    BY <2>1, <2>2 DEF list_init
  <2> QED
    BY <2>1, <2>3, QueueHeads DEF Nodes
<1>2. /\ v \in [0 .. 1 -> Nodes] /\ v[0] = A1 /\ v[1] = A1
      /\ w \in [0 .. 1 -> Nodes] /\ w[0] = Am /\ w[1] = Am
  BY QueueHeads
<1>3. queues = q /\ reference = [x \in Pages |-> FALSE] /\ UsedFrames = {}
  BY DEF CSC369_PolicyS2QInit, Init, MMCreate, CSC369_CoremapCreate, UsedFrames,
         FreeFrames
<1> HIDE DEF q, v, w
<1>4. 1 - 1 = 0 /\ 0 .. 0 = {0} /\ 1 .. 0 = {} /\ 0 + 1 = 1
  OBVIOUS
<1>5. Ring(q, Nodes, v, 1) /\ Ring(q, Nodes, w, 1)
  BY <1>1, <1>2, <1>4 DEF Ring
<1>6. /\ OnRing(v, 1) = {A1} /\ OnRing(w, 1) = {Am}
      /\ OnList(v, 1) = {} /\ OnList(w, 1) = {}
  BY <1>2, <1>4, Zenon DEF OnRing, OnList
<1>7. TwoRings(q, v, 1, w, 1, {})
  <2>1. Cardinality({}) = 0
    BY FS_EmptySet
  <2> QED
    BY <1>1, <1>2, <1>5, <1>6, <2>1, QueueHeads DEF TwoRings, Pointers
<1>8. QueuesHold(queues, UsedFrames, {})
  BY <1>2, <1>3, <1>6, <1>7 DEF QueuesHold
<1> QED
  BY <1>3, <1>8 DEF S2QInv

(* Everything S2QInv rests on is invariant with it.                        *)
LEMMA S2QInvariant ==
  S2QSpec => [](S2QTypeOK /\ CoremapConsistent /\ S2QInv)
<1>1. CSC369_PolicyS2QInit => S2QInv
  BY S2QInvInit
<1>2. /\ S2QTypeOK /\ S2QTypeOK' /\ CoremapConsistent /\ CoremapConsistent'
      /\ S2QInv /\ [S2QNext]_s2qVars
      => S2QInv'
  BY S2QInvStep DEF S2QTypeOK
<1> QED
  BY <1>1, <1>2, S2QImplementsSpec, S2QTypeCorrect, CoremapCorrect, PTL
     DEF S2QSpec

(* What the traversals of the two lists return.                            *)
Traversed(on, again, v, m, w, n) ==
  /\ TwoRings(queues, v, m, w, n, on)
  /\ v[0] = A1 /\ w[0] = Am /\ again = OnList(w, n)
  /\ m \in Nat \ {0} /\ n \in Nat \ {0}
  /\ m + n = Cardinality(on) + 2
  /\ list_for_each(queues, A1, MEMSIZE) = [k \in 1 .. m - 1 |-> v[k]]
  /\ list_for_each(queues, Am, MEMSIZE) = [k \in 1 .. n - 1 |-> w[k]]

LEMMA TraversalsHold ==
  ASSUME NEW on \in SUBSET Frames, NEW again, QueuesHold(queues, on, again)
  PROVE  \E v, m, w, n : Traversed(on, again, v, m, w, n)
<1>1. PICK v, m, w, n :
        /\ TwoRings(queues, v, m, w, n, on)
        /\ v[0] = A1 /\ w[0] = Am /\ again = OnList(w, n)
  BY DEF QueuesHold
<1>2. /\ Ring(queues, Nodes, v, m) /\ Ring(queues, Nodes, w, n)
      /\ m \in Nat \ {0} /\ n \in Nat \ {0}
      /\ m + n = Cardinality(on) + 2
  BY <1>1 DEF TwoRings, Ring
<1>3. Cardinality(on) \in Nat /\ Cardinality(on) <= MEMSIZE /\ MEMSIZE \in Nat
  BY FramesFinite, Constants
<1>4. m - 1 <= MEMSIZE /\ n - 1 <= MEMSIZE
  BY <1>2, <1>3
<1>5. /\ list_for_each(queues, v[0], MEMSIZE) = [k \in 1 .. m - 1 |-> v[k]]
      /\ list_for_each(queues, w[0], MEMSIZE) = [k \in 1 .. n - 1 |-> w[k]]
  BY <1>2, <1>3, <1>4, ForEachVisits
<1> QED
  BY <1>1, <1>2, <1>5 DEF Traversed

(* csc369_policy_s2q.c:65: on a linked frame the reference bit tells which *)
(* list it is on, whatever was hit, evicted, paged in or failed before;    *)
(* and no bit outlives the residency of its page.                          *)
THEOREM BitTellsQueueCorrect == S2QSpec => []BitTellsQueue
<1>1. ASSUME S2QInv PROVE BitTellsQueue
  <2> SUFFICES ASSUME status # "aborted"
               PROVE {p \in Pages : reference[p]} =
                 {frames[f] : f \in {list_for_each(queues, Am, MEMSIZE)[k] :
                            k \in 1 .. Len(list_for_each(queues, Am, MEMSIZE))}}
    BY DEF BitTellsQueue
  <2>1. PICK again :
          /\ QueuesHold(queues, UsedFrames, again)
          /\ {x \in Pages : reference[x]} = {frames[f] : f \in again}
    BY <1>1 DEF S2QInv
  <2>2. PICK v, m, w, n : Traversed(UsedFrames, again, v, m, w, n)
    <3>1. UsedFrames \in SUBSET Frames
      BY DEF UsedFrames
    <3> QED
      BY <2>1, <3>1, TraversalsHold
  <2>3. again = {list_for_each(queues, Am, MEMSIZE)[k] :
                   k \in 1 .. Len(list_for_each(queues, Am, MEMSIZE))}
    <3> DEFINE t == list_for_each(queues, Am, MEMSIZE)
    <3>1. t = [k \in 1 .. n - 1 |-> w[k]] /\ n \in Nat \ {0} /\ again = OnList(w, n)
      BY <2>2 DEF Traversed
    <3> HIDE DEF t
    <3>2. Len(t) = n - 1 /\ \A k \in 1 .. n - 1 : t[k] = w[k]
      BY <3>1
    <3>3. again = {t[k] : k \in 1 .. Len(t)}
      BY <3>1, <3>2 DEF OnList
    <3> QED
      BY <3>3 DEF t
  <2> QED
    BY <2>1, <2>3
<1> QED
  BY <1>1, S2QInvariant, PTL

(* With memory full, Evict never takes a list head for a frame: when A1 is *)
(* no longer than its share of the memory, Am is not empty.  The divisor   *)
(* has to exceed 1 for that (csc369_policy_s2q.c has 10): were it 1, A1    *)
(* could hold every frame without being long.                              *)
THEOREM VictimCorrect ==
  ASSUME S2Q_DIVISOR > 1
  PROVE  S2QSpec => []VictimIsFrame
<1>1. ASSUME S2QInv PROVE VictimIsFrame
  <2> SUFFICES ASSUME FreeFrames = {}, status = "running"
               PROVE  EvictEntry \in Frames
    BY DEF VictimIsFrame
  <2>1. PICK again : QueuesHold(queues, Frames, again)
    BY <1>1 DEF S2QInv, UsedFrames
  <2>2. PICK v, m, w, n : Traversed(Frames, again, v, m, w, n)
    BY <2>1, TraversalsHold
  <2>3. /\ queues.next[A1] = v[1] /\ queues.prev[Am] = w[n - 1]
        /\ OnList(v, m) \subseteq Frames /\ OnList(w, n) \subseteq Frames
    BY <2>2, RingEnds DEF TwoRings, Traversed
  <2>4. Len(list_for_each(queues, A1, MEMSIZE)) = m - 1
    BY <2>2 DEF Traversed
  <2>5. /\ MEMSIZE \div S2Q_DIVISOR \in Nat
        /\ MEMSIZE \div S2Q_DIVISOR < MEMSIZE
    <3> DEFINE q == MEMSIZE \div S2Q_DIVISOR
    <3>1. /\ S2Q_DIVISOR \in Nat \ {0} /\ MEMSIZE \in Nat \ {0}
          /\ MEMSIZE % S2Q_DIVISOR \in Nat /\ q \in Nat
          /\ MEMSIZE = S2Q_DIVISOR * q + (MEMSIZE % S2Q_DIVISOR)
      <4>1. S2Q_DIVISOR \in Nat \ {0} /\ MEMSIZE \in Nat \ {0}
        BY Constants, DivisorAssumption
      <4> QED
        BY <4>1, ModDivision
    <3> HIDE DEF q
    <3>2. S2Q_DIVISOR * q >= 2 * q
      BY <3>1
    <3> QED
      BY <3>1, <3>2 DEF q
  <2>6. CASE m - 1 > MEMSIZE \div S2Q_DIVISOR
    <3>1. EvictEntry = v[1]
      BY <2>3, <2>4, <2>6 DEF EvictEntry
    <3>2. 1 \in 1 .. m - 1
      BY <2>2, <2>5, <2>6 DEF Traversed
    <3> QED
      BY <2>3, <3>1, <3>2 DEF OnList
  <2>7. CASE ~(m - 1 > MEMSIZE \div S2Q_DIVISOR)
    <3>1. EvictEntry = w[n - 1]
      BY <2>3, <2>4, <2>7 DEF EvictEntry
    <3>2. n - 1 \in 1 .. n - 1
      BY <2>2, <2>5, <2>7, FramesFinite, Constants DEF Traversed
    <3> QED
      BY <2>3, <3>1, <3>2 DEF OnList
  <2> QED
    BY <2>6, <2>7
<1> QED
  BY <1>1, S2QInvariant, PTL

-----------------------------------------------------------------------------
(* S2Q is 2Q *)

(* A sequence without its k-th element.                                    *)
Without(s, k) == SubSeq(s, 1, k - 1) \o SubSeq(s, k + 1, Len(s))

LEMMA WithoutIs ==
  ASSUME NEW T, NEW s \in Seq(T), NEW k \in 1 .. Len(s)
  PROVE  /\ Without(s, k) \in Seq(T)
         /\ Len(Without(s, k)) = Len(s) - 1
         /\ \A i \in 1 .. Len(s) - 1 :
              Without(s, k)[i] = IF i < k THEN s[i] ELSE s[i + 1]
<1> DEFINE l == k - 1
           h == k + 1
           n == Len(s)
<1>1. /\ l \in Nat /\ h \in Nat /\ n \in Nat /\ k \in Nat /\ k >= 1 /\ k <= n
      /\ \A i \in 1 .. n : s[i] \in T
  BY ElementOfSeq, LenProperties
<1> DEFINE x == SubSeq(s, 1, l)
           y == SubSeq(s, h, n)
<1>2. /\ x \in Seq(T) /\ Len(x) = l /\ \A i \in 1 .. l : x[i] = s[i]
  <2>1. 1 \in Int /\ l \in Int /\ \A i \in 1 .. l : s[i] \in T
    BY <1>1
  <2>2. l - 1 + 1 = l /\ (\A i \in 1 .. l : 1 + i - 1 = i)
        /\ (IF 1 <= l THEN l - 1 + 1 ELSE 0) = l
    BY <1>1
  <2> HIDE DEF l
  <2>3. /\ x \in Seq(T) /\ Len(x) = (IF 1 <= l THEN l - 1 + 1 ELSE 0)
        /\ \A i \in 1 .. l - 1 + 1 : x[i] = s[1 + i - 1]
    BY <2>1, SubSeqProperties
  <2> QED
    BY <2>2, <2>3
<1>3. /\ y \in Seq(T) /\ Len(y) = n - k /\ \A i \in 1 .. n - k : y[i] = s[k + i]
  <2>1. n \in Int /\ h \in Int /\ \A i \in h .. n : s[i] \in T
    BY <1>1
  <2>2. n - h + 1 = n - k /\ (\A i \in 1 .. n - k : h + i - 1 = k + i)
        /\ (IF h <= n THEN n - h + 1 ELSE 0) = n - k
    BY <1>1
  <2> HIDE DEF h, n
  <2>3. /\ y \in Seq(T) /\ Len(y) = (IF h <= n THEN n - h + 1 ELSE 0)
        /\ \A i \in 1 .. n - h + 1 : y[i] = s[h + i - 1]
    BY <2>1, SubSeqProperties
  <2> QED
    BY <2>2, <2>3
<1>4. Without(s, k) = x \o y
  BY DEF Without
<1> HIDE DEF x, y
<1>5. /\ x \o y \in Seq(T) /\ Len(x \o y) = l + (n - k)
      /\ \A i \in 1 .. l + (n - k) :
           (x \o y)[i] = IF i <= l THEN x[i] ELSE y[i - l]
  <2>1. /\ x \o y \in Seq(T) /\ Len(x \o y) = Len(x) + Len(y)
        /\ \A i \in 1 .. Len(x) + Len(y) :
             (x \o y)[i] = IF i <= Len(x) THEN x[i] ELSE y[i - Len(x)]
    BY <1>2, <1>3, ConcatProperties
  <2> HIDE DEF l, n
  <2>2. Len(x) = l /\ Len(y) = n - k
    BY <1>2, <1>3
  <2> QED
    BY <2>1, <2>2
<1>6. l + (n - k) = n - 1
  BY <1>1
<1>7. ASSUME NEW i \in 1 .. n - 1
      PROVE  (x \o y)[i] = IF i < k THEN s[i] ELSE s[i + 1]
  <2>1. CASE i < k
    <3>1. i <= l /\ i \in 1 .. l
      BY <1>1, <2>1
    <3> QED
      BY <1>2, <1>5, <1>6, <2>1, <3>1
  <2>2. CASE ~(i < k)
    <3>1. ~(i <= l) /\ i - l \in 1 .. n - k /\ k + (i - l) = i + 1
      BY <1>1, <2>2
    <3> HIDE DEF l
    <3> QED
      BY <1>3, <1>5, <1>6, <2>2, <3>1
  <2> QED
    BY <2>1, <2>2
<1> QED
  BY <1>4, <1>5, <1>6, <1>7

(* A sequence with e in front of it.                                       *)
LEMMA InFrontIs ==
  ASSUME NEW T, NEW s \in Seq(T), NEW e \in T
  PROVE  /\ <<e>> \o s \in Seq(T)
         /\ Len(<<e>> \o s) = Len(s) + 1
         /\ \A i \in 1 .. Len(s) + 1 :
              (<<e>> \o s)[i] = IF i = 1 THEN e ELSE s[i - 1]
<1> DEFINE x == <<e>>
<1>1. x \in Seq(T) /\ Len(x) = 1 /\ x[1] = e /\ Len(s) \in Nat
  OBVIOUS
<1> HIDE DEF x
<1>2. /\ x \o s \in Seq(T) /\ Len(x \o s) = Len(x) + Len(s)
      /\ \A i \in 1 .. Len(x) + Len(s) :
           (x \o s)[i] = IF i <= Len(x) THEN x[i] ELSE s[i - Len(x)]
  BY <1>1, ConcatProperties
<1>3. Len(x) + Len(s) = Len(s) + 1
  BY <1>1
<1>4. \A i \in 1 .. Len(s) + 1 : i <= Len(x) <=> i = 1
  BY <1>1
<1>5. \A i \in 1 .. Len(s) + 1 : (x \o s)[i] = IF i = 1 THEN e ELSE s[i - 1]
  BY <1>1, <1>2, <1>3, <1>4
<1> QED
  BY <1>2, <1>3, <1>5 DEF x

(* The nodes of a ring behind its head.                                    *)
Behind(v, m) == [k \in 1 .. m - 1 |-> v[k]]

LEMMA BehindIs ==
  ASSUME NEW q, NEW v, NEW m, NEW w, NEW n, NEW on, TwoRings(q, v, m, w, n, on)
  PROVE  /\ Behind(v, m) \in Seq(on) /\ Len(Behind(v, m)) = m - 1
         /\ m \in Nat \ {0} /\ n \in Nat \ {0}
         /\ \A k \in 1 .. m - 1 : Behind(v, m)[k] = v[k]
         /\ OnList(v, m) = {Behind(v, m)[k] : k \in 1 .. m - 1}
         /\ OnList(v, m) \cap OnList(w, n) = {}
<1>1. /\ Ring(q, Nodes, v, m) /\ Ring(q, Nodes, w, n)
      /\ m \in Nat \ {0} /\ n \in Nat \ {0}
      /\ OnList(v, m) \cup OnList(w, n) = on
      /\ OnRing(v, m) \cap OnRing(w, n) = {}
  BY DEF TwoRings, Ring
<1>2. \A k \in 1 .. m - 1 : v[k] \in on
  BY <1>1 DEF OnList
<1>3. Behind(v, m) \in Seq(on) /\ Len(Behind(v, m)) = m - 1
  BY <1>1, <1>2 DEF Behind
<1>4. OnList(v, m) \cap OnList(w, n) = {}
  BY <1>1, RingNodes
<1> QED
  BY <1>1, <1>3, <1>4 DEF Behind, OnList

(* The frames in use, as A1 and Am list them.                              *)
ListsHold(q, on, s, t) ==
  \E v, m, w, n :
    /\ TwoRings(q, v, m, w, n, on)
    /\ v[0] = A1 /\ w[0] = Am
    /\ s = Behind(v, m)
    /\ t = Behind(w, n)

LEMMA RingsAreLists ==
  ASSUME NEW q, NEW v, NEW m, NEW w, NEW n, NEW on, TwoRings(q, v, m, w, n, on),
         v[0] = A1, w[0] = Am
  PROVE  ListsHold(q, on, Behind(v, m), Behind(w, n))
BY DEF ListsHold

Listed(s, f) == \E k \in 1 .. Len(s) : s[k] = f

(* The first entry of A1 and the last of Am, as the pointers of the heads. *)
ListEnds(q, s, t) ==
  /\ s # << >> => q.next[A1] = s[1]
  /\ t = << >> => q.prev[Am] = Am
  /\ t # << >> => q.prev[Am] = t[Len(t)]

LEMMA ListsRead ==
  ASSUME NEW q, NEW on \in SUBSET Frames, NEW s, NEW t, ListsHold(q, on, s, t)
  PROVE  /\ list_for_each(q, A1, MEMSIZE) = s
         /\ list_for_each(q, Am, MEMSIZE) = t
         /\ s \in Seq(on) /\ t \in Seq(on)
         /\ \A f \in on : Listed(s, f) \/ Listed(t, f)
         /\ Len(s) + Len(t) = Cardinality(on)
         /\ ListEnds(q, s, t)
<1>1. PICK v, m, w, n :
        /\ TwoRings(q, v, m, w, n, on)
        /\ v[0] = A1 /\ w[0] = Am /\ s = Behind(v, m) /\ t = Behind(w, n)
  BY DEF ListsHold
<1>2. TwoRings(q, w, n, v, m, on)
  BY <1>1, TwoRingsSwap
<1>3. /\ m \in Nat \ {0} /\ n \in Nat \ {0}
      /\ s \in Seq(on) /\ Len(s) = m - 1 /\ \A k \in 1 .. m - 1 : s[k] = v[k]
      /\ OnList(v, m) = {s[k] : k \in 1 .. m - 1}
  <2>1. /\ Behind(v, m) \in Seq(on) /\ Len(Behind(v, m)) = m - 1
        /\ m \in Nat \ {0} /\ n \in Nat \ {0}
        /\ \A k \in 1 .. m - 1 : Behind(v, m)[k] = v[k]
        /\ OnList(v, m) = {Behind(v, m)[k] : k \in 1 .. m - 1}
    <3>1. TwoRings(q, v, m, w, n, on)
      BY <1>1
    <3> QED
      BY ONLY <3>1, BehindIs
  <2>2. s = Behind(v, m)
    BY <1>1
  <2> QED
    BY ONLY <2>1, <2>2
<1>4. /\ t \in Seq(on) /\ Len(t) = n - 1 /\ \A k \in 1 .. n - 1 : t[k] = w[k]
      /\ OnList(w, n) = {t[k] : k \in 1 .. n - 1}
  <2>1. /\ Behind(w, n) \in Seq(on) /\ Len(Behind(w, n)) = n - 1
        /\ \A k \in 1 .. n - 1 : Behind(w, n)[k] = w[k]
        /\ OnList(w, n) = {Behind(w, n)[k] : k \in 1 .. n - 1}
    BY ONLY <1>2, BehindIs
  <2>2. t = Behind(w, n)
    BY <1>1
  <2> QED
    BY ONLY <2>1, <2>2
<1>5. /\ Ring(q, Nodes, v, m) /\ Ring(q, Nodes, w, n)
      /\ OnList(v, m) \cup OnList(w, n) = on /\ m + n = Cardinality(on) + 2
  BY <1>1 DEF TwoRings
<1>6. Cardinality(on) \in Nat /\ Cardinality(on) <= MEMSIZE /\ MEMSIZE \in Nat
  BY FramesFinite, Constants
<1>7. m - 1 <= MEMSIZE /\ n - 1 <= MEMSIZE
  BY <1>3, <1>5, <1>6
<1>8. /\ list_for_each(q, v[0], MEMSIZE) = [k \in 1 .. m - 1 |-> v[k]]
      /\ list_for_each(q, w[0], MEMSIZE) = [k \in 1 .. n - 1 |-> w[k]]
  BY <1>5, <1>6, <1>7, ForEachVisits
<1>9. q.next[A1] = v[1] /\ q.prev[Am] = w[n - 1]
  BY <1>1, <1>5, RingEnds
<1>10. s # << >> => v[1] = s[1]
  BY <1>3
<1>11. w[n - 1] = IF t = << >> THEN Am ELSE t[Len(t)]
  <2>1. CASE n = 1
    <3>1. t = << >> /\ n - 1 = 0
      BY <1>4, <2>1
    <3> QED
      BY <1>1, <3>1
  <2>2. CASE n # 1
    <3>1. t # << >> /\ n - 1 \in 1 .. n - 1
      BY <1>3, <1>4, <2>2
    <3> QED
      BY <1>4, <3>1
  <2> QED
    BY <2>1, <2>2
<1>12. ASSUME NEW f \in on PROVE Listed(s, f) \/ Listed(t, f)
  <2>1. f \in OnList(v, m) \/ f \in OnList(w, n)
    BY <1>5
  <2> QED
    BY <1>3, <1>4, <2>1 DEF Listed
<1>13. Len(s) + Len(t) = Cardinality(on)
  <2> DEFINE c == Cardinality(on)
             i == Len(s)
             j == Len(t)
  <2>1. /\ m \in Nat /\ n \in Nat /\ c \in Nat
        /\ i = m - 1 /\ j = n - 1 /\ m + n = c + 2
    BY <1>3, <1>4, <1>5, <1>6
  <2> HIDE DEF c, i, j
  <2>2. i + j = c
    BY ONLY <2>1
  <2> QED
    BY <2>2 DEF c, i, j
<1> QED
  BY <1>1, <1>3, <1>4, <1>8, <1>9, <1>10, <1>11, <1>12, <1>13
  DEF Behind, ListEnds

(* What Inserted and Removed do behind the head.                           *)
LEMMA BehindInserted ==
  ASSUME NEW v, NEW m \in Nat \ {0}, NEW k \in 1 .. m, NEW e
  PROVE  Behind(Inserted(v, m, k, e), m + 1) =
           [i \in 1 .. m |-> IF i < k THEN v[i] ELSE IF i = k THEN e ELSE v[i - 1]]
BY DEF Behind, Inserted

LEMMA BehindRemoved ==
  ASSUME NEW v, NEW m \in Nat \ {0}, NEW k \in 1 .. m - 1
  PROVE  Behind(Removed(v, m, k), m - 1) =
           [i \in 1 .. m - 2 |-> IF i < k THEN v[i] ELSE v[i + 1]]
BY DEF Behind, Removed

LEMMA ListsAddTail ==
  ASSUME NEW q, NEW on, NEW s, NEW t, ListsHold(q, on, s, t), NEW e \in Frames \ on
  PROVE  ListsHold(list_add_tail(q, A1, e), on \cup {e}, Append(s, e), t)
<1>1. PICK v, m, w, n :
        /\ TwoRings(q, v, m, w, n, on)
        /\ v[0] = A1 /\ w[0] = Am /\ s = Behind(v, m) /\ t = Behind(w, n)
  BY DEF ListsHold
<1>2. Ring(q, Nodes, v, m)
  BY <1>1 DEF TwoRings
<1>3. list_add_tail(q, A1, e) = list_insert(q, e, v[m - 1], v[m])
  BY <1>1, <1>2, RingEnds DEF list_add_tail
<1> DEFINE r == list_insert(q, e, v[m - 1], v[m])
           u == Inserted(v, m, m, e)
<1>4. TwoRings(r, u, m + 1, w, n, on \cup {e}) /\ u[0] = v[0]
  <2>1. PICK k \in 1 .. m : k = m
    BY <1>2, RingEnds
  <2>2. LET rr == list_insert(q, e, v[k - 1], v[k])
            x == Inserted(v, m, k, e)
        IN  TwoRings(rr, x, m + 1, w, n, on \cup {e}) /\ x[0] = v[0]
    <3>1. TwoRings(q, v, m, w, n, on)
      BY <1>1
    <3> QED
      BY ONLY <3>1, TwoRingsInsert, k \in 1 .. m, e \in Frames \ on
  <2> QED
    BY <2>1, <2>2
<1>5. Behind(u, m + 1) = Append(s, e)
  <2> DEFINE b == Behind(u, m + 1)
             all == on \cup {e}
             a == Append(s, e)
  <2>1. /\ m \in Nat \ {0} /\ s \in Seq(on) /\ Len(s) = m - 1
        /\ \A k \in 1 .. m - 1 : s[k] = v[k]
    BY <1>1, BehindIs
  <2>2. b \in Seq(all) /\ Len(b) = (m + 1) - 1
    <3> HIDE DEF r, u
    <3> QED
      BY <1>4, BehindIs
  <2>3. b = [i \in 1 .. m |-> IF i < m THEN v[i] ELSE IF i = m THEN e ELSE v[i - 1]]
    <3>1. m \in Nat \ {0} /\ m \in 1 .. m
      BY <2>1
    <3>2. PICK k \in 1 .. m : k = m
      BY <3>1
    <3>3. Behind(Inserted(v, m, k, e), m + 1) =
            [i \in 1 .. m |-> IF i < k THEN v[i] ELSE IF i = k THEN e ELSE v[i - 1]]
      BY ONLY <3>1, k \in 1 .. m, BehindInserted
    <3> QED
      BY ONLY <3>2, <3>3
  <2> HIDE DEF b, all, r, u
  <2>4. s \in Seq(all) /\ e \in all
    BY <2>1, SeqMonotonic DEF all
  <2>5. a \in Seq(all) /\ Len(a) = m /\ (\A i \in 1 .. m - 1 : a[i] = s[i]) /\ a[m] = e
    BY <2>1, <2>4, AppendProperties
  <2> HIDE DEF a
  <2>6. Len(b) = Len(a) /\ Len(b) = m
    BY <2>1, <2>2, <2>5
  <2>7. ASSUME NEW i \in 1 .. m PROVE b[i] = a[i]
    <3>1. i < m => i \in 1 .. m - 1
      BY <2>1
    <3>2. i < m \/ i = m
      BY <2>1
    <3>3. b[i] = IF i < m THEN v[i] ELSE e
      BY <2>1, <2>3, <3>2
    <3> QED
      BY <2>1, <2>5, <3>1, <3>2, <3>3
  <2>8. b = a
    BY <2>2, <2>5, <2>6, <2>7, SeqEqual
  <2> QED
    BY <2>8 DEF a, b
<1> HIDE DEF r, u
<1>6. ListsHold(r, on \cup {e}, Append(s, e), t)
  <2>1. TwoRings(r, u, m + 1, w, n, on \cup {e}) /\ u[0] = A1 /\ w[0] = Am
    BY <1>1, <1>4
  <2>2. ListsHold(r, on \cup {e}, Behind(u, m + 1), Behind(w, n))
    BY ONLY <2>1, RingsAreLists
  <2> QED
    BY <1>1, <1>5, <2>2
<1> QED
  BY <1>3, <1>6 DEF r

LEMMA ListsAddHead ==
  ASSUME NEW q, NEW on, NEW s, NEW t, ListsHold(q, on, s, t), NEW e \in Frames \ on
  PROVE  ListsHold(list_add_head(q, Am, e), on \cup {e}, s, <<e>> \o t)
<1>1. PICK v, m, w, n :
        /\ TwoRings(q, v, m, w, n, on)
        /\ v[0] = A1 /\ w[0] = Am /\ s = Behind(v, m) /\ t = Behind(w, n)
  BY DEF ListsHold
<1>2. Ring(q, Nodes, w, n) /\ TwoRings(q, w, n, v, m, on)
  BY <1>1, TwoRingsSwap DEF TwoRings
<1> DEFINE r == list_insert(q, e, w[1 - 1], w[1])
           u == Inserted(w, n, 1, e)
<1>3. list_add_head(q, Am, e) = r
  <2>1. 1 - 1 = 0
    OBVIOUS
  <2> QED
    BY <1>1, <1>2, <2>1, RingEnds DEF list_add_head
<1>4. TwoRings(r, u, n + 1, v, m, on \cup {e}) /\ u[0] = w[0]
  <2>1. 1 \in 1 .. n
    BY <1>2, RingEnds
  <2> QED
    BY <1>2, <2>1, TwoRingsInsert
<1>5. Behind(u, n + 1) = <<e>> \o t
  <2> DEFINE b == Behind(u, n + 1)
             all == on \cup {e}
             a == <<e>> \o t
  <2>1. /\ n \in Nat \ {0} /\ t \in Seq(on) /\ Len(t) = n - 1
        /\ \A k \in 1 .. n - 1 : t[k] = w[k]
    BY <1>1, <1>2, BehindIs
  <2>2. b \in Seq(all) /\ Len(b) = (n + 1) - 1
    <3> HIDE DEF r, u
    <3> QED
      BY <1>4, BehindIs
  <2>3. b = [i \in 1 .. n |-> IF i < 1 THEN w[i] ELSE IF i = 1 THEN e ELSE w[i - 1]]
    <3>1. n \in Nat \ {0} /\ 1 \in 1 .. n
      BY <2>1
    <3> QED
      BY ONLY <3>1, BehindInserted
  <2> HIDE DEF b, all, r, u
  <2>4. t \in Seq(all) /\ e \in all
    BY <2>1, SeqMonotonic DEF all
  <2>5. /\ a \in Seq(all) /\ Len(a) = Len(t) + 1
        /\ \A i \in 1 .. Len(t) + 1 : a[i] = IF i = 1 THEN e ELSE t[i - 1]
    BY <2>4, InFrontIs
  <2> HIDE DEF a
  <2>6. Len(b) = Len(a) /\ Len(b) = n /\ Len(t) + 1 = n
    BY <2>1, <2>2, <2>5
  <2>7. ASSUME NEW i \in 1 .. n PROVE b[i] = a[i]
    <3>1. ~(i < 1) /\ (i # 1 => i - 1 \in 1 .. n - 1)
      BY <2>1
    <3>2. b[i] = IF i = 1 THEN e ELSE w[i - 1]
      BY <2>3, <3>1
    <3>3. a[i] = IF i = 1 THEN e ELSE t[i - 1]
      BY <2>5, <2>6
    <3> QED
      BY <2>1, <3>1, <3>2, <3>3
  <2>8. b = a
    BY <2>2, <2>5, <2>6, <2>7, SeqEqual
  <2> QED
    BY <2>8 DEF a, b
<1> HIDE DEF r, u
<1>6. TwoRings(r, v, m, u, n + 1, on \cup {e})
  BY <1>4, TwoRingsSwap
<1>7. ListsHold(r, on \cup {e}, s, <<e>> \o t)
  <2>1. TwoRings(r, v, m, u, n + 1, on \cup {e}) /\ v[0] = A1 /\ u[0] = Am
    BY <1>1, <1>4, <1>6
  <2>2. ListsHold(r, on \cup {e}, Behind(v, m), Behind(u, n + 1))
    BY ONLY <2>1, RingsAreLists
  <2> QED
    BY <1>1, <1>5, <2>2
<1> QED
  BY <1>3, <1>7

(* Removal of the k-th frame from one of the rings.                        *)
DropsFrame(q, v, m, w, n, on, k) ==
  /\ TwoRings(list_del(q, v[k]), Removed(v, m, k), m - 1, w, n, on \ {v[k]})
  /\ Removed(v, m, k)[0] = v[0]
  /\ Behind(Removed(v, m, k), m - 1) = Without(Behind(v, m), k)
  /\ v[k] = Behind(v, m)[k]

LEMMA BehindWithout ==
  ASSUME NEW q, NEW v, NEW m, NEW w, NEW n, NEW on, TwoRings(q, v, m, w, n, on),
         NEW k \in 1 .. m - 1
  PROVE  DropsFrame(q, v, m, w, n, on, k)
<1> DEFINE u == Removed(v, m, k)
           r == list_del(q, v[k])
           left == on \ {v[k]}
           s == Behind(v, m)
           b == Behind(u, m - 1)
           a == Without(s, k)
<1>1. TwoRings(r, u, m - 1, w, n, left) /\ u[0] = v[0]
  BY TwoRingsRemove
<1>2. /\ m \in Nat \ {0} /\ s \in Seq(on) /\ Len(s) = m - 1
      /\ \A i \in 1 .. m - 1 : s[i] = v[i]
  BY BehindIs
<1>3. b = [i \in 1 .. m - 2 |-> IF i < k THEN v[i] ELSE v[i + 1]]
  BY <1>2, BehindRemoved
<1> HIDE DEF u, r, left, s, b
<1>4. b \in Seq(left) /\ Len(b) = (m - 1) - 1
  BY <1>1, BehindIs DEF b
<1>5. b \in Seq(on)
  BY <1>4, SeqMonotonic DEF left
<1>6. /\ a \in Seq(on) /\ Len(a) = Len(s) - 1
      /\ \A i \in 1 .. Len(s) - 1 : a[i] = IF i < k THEN s[i] ELSE s[i + 1]
  BY <1>2, WithoutIs
<1> HIDE DEF a
<1>7. Len(b) = Len(a) /\ Len(b) = m - 2 /\ Len(s) - 1 = m - 2
  BY <1>2, <1>4, <1>6
<1>8. ASSUME NEW i \in 1 .. m - 2 PROVE b[i] = a[i]
  <2>1. i \in 1 .. m - 1 /\ i + 1 \in 1 .. m - 1
    BY <1>2
  <2>2. b[i] = IF i < k THEN v[i] ELSE v[i + 1]
    BY <1>3
  <2>3. a[i] = IF i < k THEN s[i] ELSE s[i + 1]
    BY <1>6, <1>7
  <2> QED
    BY <1>2, <2>1, <2>2, <2>3
<1>9. b = a
  BY <1>5, <1>6, <1>7, <1>8, SeqEqual
<1> QED
  BY <1>1, <1>2, <1>9 DEF u, r, left, s, b, a, DropsFrame

LEMMA ListsDelA1 ==
  ASSUME NEW q, NEW on, NEW s, NEW t, ListsHold(q, on, s, t), NEW k \in 1 .. Len(s)
  PROVE  ListsHold(list_del(q, s[k]), on \ {s[k]}, Without(s, k), t)
<1>1. PICK v, m, w, n :
        /\ TwoRings(q, v, m, w, n, on)
        /\ v[0] = A1 /\ w[0] = Am /\ s = Behind(v, m) /\ t = Behind(w, n)
  BY DEF ListsHold
<1>2. k \in 1 .. m - 1
  BY <1>1, BehindIs
<1> DEFINE u == Removed(v, m, k)
<1>3. /\ TwoRings(list_del(q, v[k]), u, m - 1, w, n, on \ {v[k]})
      /\ u[0] = v[0] /\ Behind(u, m - 1) = Without(Behind(v, m), k)
      /\ v[k] = Behind(v, m)[k]
  <2>1. TwoRings(q, v, m, w, n, on)
    BY <1>1
  <2>2. DropsFrame(q, v, m, w, n, on, k)
    BY ONLY <1>2, <2>1, BehindWithout
  <2> QED
    BY ONLY <2>2 DEF DropsFrame
<1> HIDE DEF u
<1>4. ListsHold(list_del(q, v[k]), on \ {v[k]}, Behind(u, m - 1), Behind(w, n))
  <2>1. /\ TwoRings(list_del(q, v[k]), u, m - 1, w, n, on \ {v[k]})
        /\ u[0] = A1 /\ w[0] = Am
    BY <1>1, <1>3
  <2> QED
    BY ONLY <2>1, RingsAreLists
<1> QED
  BY <1>1, <1>3, <1>4

LEMMA ListsDelAm ==
  ASSUME NEW q, NEW on, NEW s, NEW t, ListsHold(q, on, s, t), NEW k \in 1 .. Len(t)
  PROVE  ListsHold(list_del(q, t[k]), on \ {t[k]}, s, Without(t, k))
<1>1. PICK v, m, w, n :
        /\ TwoRings(q, v, m, w, n, on)
        /\ v[0] = A1 /\ w[0] = Am /\ s = Behind(v, m) /\ t = Behind(w, n)
  BY DEF ListsHold
<1>2. TwoRings(q, w, n, v, m, on)
  BY <1>1, TwoRingsSwap
<1>3. k \in 1 .. n - 1
  BY <1>1, <1>2, BehindIs
<1> DEFINE u == Removed(w, n, k)
<1>4. /\ TwoRings(list_del(q, w[k]), u, n - 1, v, m, on \ {w[k]})
      /\ u[0] = w[0] /\ Behind(u, n - 1) = Without(Behind(w, n), k)
      /\ w[k] = Behind(w, n)[k]
  <2>1. DropsFrame(q, w, n, v, m, on, k)
    BY ONLY <1>2, <1>3, BehindWithout
  <2> QED
    BY ONLY <2>1 DEF DropsFrame
<1> HIDE DEF u
<1>5. TwoRings(list_del(q, w[k]), v, m, u, n - 1, on \ {w[k]})
  BY <1>4, TwoRingsSwap
<1>6. ListsHold(list_del(q, w[k]), on \ {w[k]}, Behind(v, m), Behind(u, n - 1))
  <2>1. /\ TwoRings(list_del(q, w[k]), v, m, u, n - 1, on \ {w[k]})
        /\ v[0] = A1 /\ u[0] = Am
    BY <1>1, <1>4, <1>5
  <2> QED
    BY ONLY <2>1, RingsAreLists
<1> QED
  BY <1>1, <1>4, <1>6

MapsInto(fr, on, T) == \A f \in on : fr[f] \in T

(* The pages that the frames of s hold.                                    *)
Held(s, fr) == [k \in 1 .. Len(s) |-> fr[s[k]]]

LEMMA HeldIs ==
  ASSUME NEW on, NEW s \in Seq(on), NEW fr, NEW T, MapsInto(fr, on, T)
  PROVE  /\ Held(s, fr) \in Seq(T) /\ Len(Held(s, fr)) = Len(s) /\ Len(s) \in Nat
         /\ \A k \in 1 .. Len(s) : Held(s, fr)[k] = fr[s[k]]
<1>1. Len(s) \in Nat /\ \A k \in 1 .. Len(s) : s[k] \in on /\ fr[s[k]] \in T
  BY LenProperties, ElementOfSeq DEF MapsInto
<1> QED
  BY <1>1 DEF Held

LEMMA HeldKept ==
  ASSUME NEW on, NEW s \in Seq(on), NEW fr, NEW gr, \A f \in on : fr[f] = gr[f]
  PROVE  Held(s, fr) = Held(s, gr)
<1>1. Len(s) \in Nat /\ \A k \in 1 .. Len(s) : s[k] \in on
  BY LenProperties, ElementOfSeq
<1> QED
  BY <1>1 DEF Held

(* One more frame at the end is one more page at the end.                 *)
HeldAlong(s, e, fr) == Held(Append(s, e), fr) = Append(Held(s, fr), fr[e])

LEMMA HeldAppend ==
  ASSUME NEW on, NEW s \in Seq(on), NEW fr, NEW T, NEW e \in on,
         MapsInto(fr, on, T)
  PROVE  HeldAlong(s, e, fr)
<1> DEFINE x == Append(s, e)
           h == Held(s, fr)
           p == fr[e]
           g == Held(x, fr)
           n == Len(s)
<1>1. /\ x \in Seq(on) /\ Len(x) = n + 1 /\ x[n + 1] = e
      /\ \A k \in 1 .. n : x[k] = s[k]
  BY AppendProperties
<1> HIDE DEF x
<1>2. h \in Seq(T) /\ Len(h) = n /\ n \in Nat /\ \A k \in 1 .. n : h[k] = fr[s[k]]
  <2>1. s \in Seq(on) /\ MapsInto(fr, on, T)
    OBVIOUS
  <2> QED
    BY ONLY <2>1, HeldIs
<1>3. g \in Seq(T) /\ Len(g) = Len(x) /\ \A k \in 1 .. Len(x) : g[k] = fr[x[k]]
  <2>1. x \in Seq(on) /\ MapsInto(fr, on, T)
    BY <1>1
  <2> QED
    BY ONLY <2>1, HeldIs
<1>4. p \in T
  BY DEF MapsInto
<1> HIDE DEF h, p, g, n
<1>5. /\ Append(h, p) \in Seq(T) /\ Len(Append(h, p)) = n + 1
      /\ \A k \in 1 .. n : Append(h, p)[k] = h[k]
      /\ Append(h, p)[n + 1] = p
  BY <1>2, <1>4, AppendProperties
<1>6. \A k \in 1 .. n + 1 : k \in 1 .. n \/ k = n + 1
  BY <1>2
<1>7. \A k \in 1 .. n + 1 : g[k] = Append(h, p)[k]
  BY <1>1, <1>2, <1>3, <1>5, <1>6 DEF p
<1>8. g = Append(h, p)
  BY <1>1, <1>3, <1>5, <1>7, SeqEqual
<1> QED
  BY <1>8 DEF g, x, h, p, HeldAlong

LEMMA HeldInFront ==
  ASSUME NEW on, NEW s \in Seq(on), NEW fr, NEW T, NEW e \in on,
         MapsInto(fr, on, T)
  PROVE  Held(<<e>> \o s, fr) = <<fr[e]>> \o Held(s, fr)
<1> DEFINE x == <<e>> \o s
           h == Held(s, fr)
           p == fr[e]
           g == Held(x, fr)
           y == <<p>> \o h
           n == Len(s)
<1>1. /\ x \in Seq(on) /\ Len(x) = n + 1
      /\ \A k \in 1 .. n + 1 : x[k] = IF k = 1 THEN e ELSE s[k - 1]
  BY InFrontIs
<1> HIDE DEF x
<1>2. h \in Seq(T) /\ Len(h) = n /\ n \in Nat /\ \A k \in 1 .. n : h[k] = fr[s[k]]
  <2>1. s \in Seq(on) /\ MapsInto(fr, on, T)
    OBVIOUS
  <2> QED
    BY ONLY <2>1, HeldIs
<1>3. g \in Seq(T) /\ Len(g) = Len(x) /\ \A k \in 1 .. Len(x) : g[k] = fr[x[k]]
  <2>1. x \in Seq(on) /\ MapsInto(fr, on, T)
    BY <1>1
  <2> QED
    BY ONLY <2>1, HeldIs
<1>4. p \in T
  BY DEF MapsInto
<1> HIDE DEF h, p, g, n
<1>5. /\ y \in Seq(T) /\ Len(y) = Len(h) + 1
      /\ \A k \in 1 .. Len(h) + 1 : y[k] = IF k = 1 THEN p ELSE h[k - 1]
  BY <1>2, <1>4, InFrontIs
<1> HIDE DEF y
<1>6. ASSUME NEW k \in 1 .. n + 1 PROVE g[k] = y[k]
  <2>1. CASE k = 1
    BY <1>1, <1>2, <1>3, <1>5, <2>1 DEF p
  <2>2. CASE k # 1
    <3>1. k - 1 \in 1 .. n
      BY <1>2, <2>2
    <3>2. g[k] = fr[x[k]] /\ h[k - 1] = fr[s[k - 1]]
      BY <1>1, <1>2, <1>3, <3>1
    <3> QED
      BY <1>1, <1>2, <1>5, <2>2, <3>2
  <2> QED
    BY <2>1, <2>2
<1>7. Len(g) = Len(y) /\ Len(g) = n + 1
  BY <1>1, <1>2, <1>3, <1>5
<1>8. g = y
  BY <1>3, <1>5, <1>6, <1>7, SeqEqual
<1> QED
  BY <1>8 DEF g, x, y, h, p

LEMMA HeldWithout ==
  ASSUME NEW on, NEW s \in Seq(on), NEW fr, NEW T, NEW j \in 1 .. Len(s),
         MapsInto(fr, on, T)
  PROVE  Held(Without(s, j), fr) = Without(Held(s, fr), j)
<1> DEFINE x == Without(s, j)
           h == Held(s, fr)
           g == Held(x, fr)
           y == Without(h, j)
           n == Len(s)
<1>1. /\ x \in Seq(on) /\ Len(x) = n - 1
      /\ \A k \in 1 .. n - 1 : x[k] = IF k < j THEN s[k] ELSE s[k + 1]
  BY WithoutIs
<1> HIDE DEF x
<1>2. h \in Seq(T) /\ Len(h) = n /\ n \in Nat /\ \A k \in 1 .. n : h[k] = fr[s[k]]
  <2>1. s \in Seq(on) /\ MapsInto(fr, on, T)
    OBVIOUS
  <2> QED
    BY ONLY <2>1, HeldIs
<1>3. g \in Seq(T) /\ Len(g) = Len(x) /\ \A k \in 1 .. Len(x) : g[k] = fr[x[k]]
  <2>1. x \in Seq(on) /\ MapsInto(fr, on, T)
    BY <1>1
  <2> QED
    BY ONLY <2>1, HeldIs
<1>4. j \in 1 .. n
  OBVIOUS
<1> HIDE DEF h, g, n
<1>5. /\ y \in Seq(T) /\ Len(y) = Len(h) - 1
      /\ \A k \in 1 .. Len(h) - 1 : y[k] = IF k < j THEN h[k] ELSE h[k + 1]
  BY <1>2, <1>4, WithoutIs
<1> HIDE DEF y
<1>6. ASSUME NEW k \in 1 .. n - 1 PROVE g[k] = y[k]
  <2>1. k \in 1 .. n /\ k + 1 \in 1 .. n
    BY <1>2
  <2>2. g[k] = fr[x[k]] /\ h[k] = fr[s[k]] /\ h[k + 1] = fr[s[k + 1]]
    BY <1>1, <1>2, <1>3, <2>1
  <2> QED
    BY <1>1, <1>2, <1>5, <2>2
<1>7. Len(g) = Len(y) /\ Len(g) = n - 1
  BY <1>1, <1>2, <1>3, <1>5
<1>8. g = y
  BY <1>3, <1>5, <1>6, <1>7, SeqEqual
<1> QED
  BY <1>8 DEF g, x, y, h

(* The two queues of 2Q, read off the lists before and after a step.       *)
LEMMA QueuesNow ==
  ASSUME NEW s, NEW t, ListsHold(queues, UsedFrames, s, t)
  PROVE  PagesOf(A1) = Held(s, frames) /\ PagesOf(Am) = Held(t, frames)
<1>1. UsedFrames \in SUBSET Frames
  BY DEF UsedFrames
<1>2. list_for_each(queues, A1, MEMSIZE) = s /\ list_for_each(queues, Am, MEMSIZE) = t
  BY <1>1, ListsRead
<1> QED
  BY <1>2 DEF PagesOf, Held

LEMMA QueuesNext ==
  ASSUME NEW s, NEW t, ListsHold(queues', UsedFrames', s, t)
  PROVE  PagesOf(A1)' = Held(s, frames') /\ PagesOf(Am)' = Held(t, frames')
<1> DEFINE q == queues'
           on == UsedFrames'
<1>1. on \in SUBSET Frames /\ ListsHold(q, on, s, t)
  BY DEF UsedFrames
<1> HIDE DEF q, on
<1>2. list_for_each(q, A1, MEMSIZE) = s /\ list_for_each(q, Am, MEMSIZE) = t
  BY <1>1, ListsRead
<1> QED
  BY <1>2 DEF PagesOf, Held, q

(* TwoQ's operator is the same.                                            *)
LEMMA RemoveAtIs == \A s, k : TwoQ!RemoveAt(s, k) = Without(s, k)
BY DEF TwoQ!RemoveAt, Without

(* The state before a step: the lists, and the pages on them.              *)
LEMMA ListsNow ==
  ASSUME S2QInv, status # "aborted"
  PROVE  \E s, t : ListsHold(queues, UsedFrames, s, t)
<1>1. PICK again : QueuesHold(queues, UsedFrames, again)
  BY DEF S2QInv
<1>2. PICK v, m, w, n :
        TwoRings(queues, v, m, w, n, UsedFrames) /\ v[0] = A1 /\ w[0] = Am
  BY <1>1 DEF QueuesHold
<1> QED
  BY <1>2 DEF ListsHold

(* Which list OnRef puts a frame on.                                       *)
LEMMA OnReferencePlaces ==
  ASSUME NEW q, NEW on, NEW s, NEW t, ListsHold(q, on, s, t), NEW bits, NEW p,
         OnReference(q, bits, p), status' # "aborted",
         NEW e \in Frames, e = pte'[p].frame_number
  PROVE  /\ e \in on => queues' = list_add_head(list_del(q, e), Am, e)
         /\ e \notin on => queues' = list_add_tail(q, A1, e)
<1>1. PICK v, m, w, n :
        TwoRings(q, v, m, w, n, on) /\ v[0] = A1 /\ w[0] = Am
  BY DEF ListsHold
<1>2. QueuesHold(q, on, OnList(w, n))
  BY <1>1 DEF QueuesHold
<1>3. list_entry_is_linked(q, e) <=> e \in on
  <2> DEFINE again == OnList(w, n)
  <2>1. QueuesHold(q, on, again)
    BY <1>2
  <2> HIDE DEF again
  <2> QED
    BY <2>1, LinkedIsOn
<1>4. queues' = CSC369_PolicyS2QOnRef(q, e)
  BY DEF OnReference
<1> QED
  BY <1>3, <1>4 DEF CSC369_PolicyS2QOnRef

LEMMA UsedHoldPages ==
  ASSUME TypeOK
  PROVE  MapsInto(frames, UsedFrames, Pages)
BY DEF TypeOK, MMTypeOK, MapsInto, UsedFrames, FreeFrames

(* A hit moves its page to the front of the queue of pages seen again.     *)
LEMMA HitTouches ==
  ASSUME TypeOK, TypeOK', CoremapConsistent, S2QInv, status = "running",
         status' # "aborted", NEW a \in Accesses, Hit(a),
         OnReference(queues, reference, a.page), NEW p \in Pages, p = a.page
  PROVE  TwoQ!Touch(p)
<1> DEFINE on == UsedFrames
<1>1. PICK s, t : ListsHold(queues, on, s, t)
  BY ListsNow
<1>2. /\ pte[p] \in PTE /\ pte[p].valid
      /\ pte' = [pte EXCEPT ![p].dirty = @ \/ IsWrite(a)]
      /\ frames' = frames /\ frames \in [Frames -> Pages \cup {NULL}]
  BY DEF Hit, MMHit, TypeOK, MMTypeOK
<1>3. pte'[p].frame_number = pte[p].frame_number
  BY <1>2 DEF TypeOK, MMTypeOK, PTE
<1>4. PICK e \in Frames : e = pte[p].frame_number /\ frames[e] = p
  BY <1>2 DEF CoremapConsistent, PTE
<1>5. /\ e \in on /\ UsedFrames' = on /\ on \in SUBSET Frames
      /\ MapsInto(frames, on, Pages)
  BY <1>2, <1>4, Constants, UsedHoldPages DEF UsedFrames, FreeFrames
<1> HIDE DEF on
<1> DEFINE d == list_del(queues, e)
           left == on \ {e}
           once == PagesOf(A1)
           again == PagesOf(Am)
<1>6. queues' = list_add_head(d, Am, e)
  <2>1. OnReference(queues, reference, p) /\ e = pte'[p].frame_number
    BY <1>3, <1>4
  <2> QED
    BY <1>1, <1>5, <2>1, OnReferencePlaces
<1>7. /\ s \in Seq(on) /\ t \in Seq(on)
      /\ \A f \in on : Listed(s, f) \/ Listed(t, f)
  <2>1. on \in SUBSET Frames /\ ListsHold(queues, on, s, t)
    BY <1>1, <1>5
  <2> QED
    BY ONLY <2>1, ListsRead
<1>8. once = Held(s, frames) /\ again = Held(t, frames)
  BY <1>1, QueuesNow DEF on
<1>9. /\ Len(once) = Len(s) /\ Len(again) = Len(t)
      /\ once \in Seq(Pages) /\ again \in Seq(Pages)
      /\ \A k \in 1 .. Len(s) : once[k] = frames[s[k]]
      /\ \A k \in 1 .. Len(t) : again[k] = frames[t[k]]
  BY <1>5, <1>7, <1>8, HeldIs
<1>10. left \cup {e} = on /\ e \in Frames \ left /\ left \subseteq on
  BY <1>5
<1> HIDE DEF d, left, once, again
<1>11. CASE Listed(s, e)
  <2>1. PICK j \in 1 .. Len(s) : s[j] = e
    BY <1>11 DEF Listed
  <2> DEFINE u == Without(s, j)
             r == <<e>> \o t
  <2>2. ListsHold(d, left, u, t)
    BY <1>1, <2>1, ListsDelA1 DEF d, left
  <2>3. u \in Seq(on)
    BY <1>7, WithoutIs
  <2>4. Held(u, frames) = Without(once, j)
    BY <1>5, <1>7, <1>8, HeldWithout
  <2>5. Held(r, frames) = <<p>> \o again
    <3>1. Held(<<e>> \o t, frames) = <<frames[e]>> \o Held(t, frames)
      BY <1>5, <1>7, HeldInFront
    <3> QED
      BY <1>4, <1>8, <3>1
  <2> HIDE DEF u
  <2>6. ListsHold(queues', UsedFrames', u, r)
    BY <1>5, <1>6, <1>10, <2>2, ListsAddHead
  <2> HIDE DEF r
  <2>7. once' = Without(once, j) /\ again' = <<p>> \o again
    BY <1>2, <2>4, <2>5, <2>6, QueuesNext DEF once, again
  <2>8. j \in 1 .. Len(once) /\ once[j] = p
    BY <1>4, <1>9, <2>1
  <2> QED
    BY <2>7, <2>8, RemoveAtIs DEF TwoQ!Touch, once, again
<1>12. CASE Listed(t, e)
  <2>1. PICK j \in 1 .. Len(t) : t[j] = e
    BY <1>12 DEF Listed
  <2> DEFINE u == Without(t, j)
             r == <<e>> \o u
             h == Without(again, j)
  <2>2. ListsHold(d, left, s, u)
    BY <1>1, <2>1, ListsDelAm DEF d, left
  <2>3. u \in Seq(on)
    BY <1>7, WithoutIs
  <2>4. Held(u, frames) = h
    BY <1>5, <1>7, <1>8, HeldWithout
  <2> HIDE DEF u, h
  <2>5. Held(r, frames) = <<p>> \o h
    BY <1>4, <1>5, <2>3, <2>4, HeldInFront
  <2>6. ListsHold(queues', UsedFrames', s, r)
    BY <1>5, <1>6, <1>10, <2>2, ListsAddHead
  <2> HIDE DEF r
  <2>7. once' = once /\ again' = <<p>> \o Without(again, j)
    BY <1>2, <1>8, <2>5, <2>6, QueuesNext DEF once, again, h
  <2>8. j \in 1 .. Len(again) /\ again[j] = p
    BY <1>4, <1>9, <2>1
  <2> QED
    BY <2>7, <2>8, RemoveAtIs DEF TwoQ!Touch, once, again
<1> QED
  BY <1>5, <1>7, <1>11, <1>12

(* What is resident, and how much of it.                                   *)
LEMMA ResidentIs ==
  ASSUME TypeOK, CoremapConsistent, status # "aborted",
         NEW s, NEW t, ListsHold(queues, UsedFrames, s, t)
  PROVE  /\ \A p \in Pages : ~pte[p].valid => p \notin TwoQ!Resident
         /\ Len(PagesOf(A1)) = Len(s) /\ Len(PagesOf(Am)) = Len(t)
         /\ Len(s) + Len(t) = Cardinality(UsedFrames)
<1>1. UsedFrames \in SUBSET Frames /\ MapsInto(frames, UsedFrames, Pages)
  BY UsedHoldPages DEF UsedFrames
<1>2. /\ s \in Seq(UsedFrames) /\ t \in Seq(UsedFrames)
      /\ Len(s) + Len(t) = Cardinality(UsedFrames)
  BY <1>1, ListsRead
<1>3. PagesOf(A1) = Held(s, frames) /\ PagesOf(Am) = Held(t, frames)
  BY QueuesNow
<1> DEFINE once == PagesOf(A1)
           again == PagesOf(Am)
           on == UsedFrames
<1>4. /\ Len(once) = Len(s) /\ Len(again) = Len(t)
      /\ \A k \in 1 .. Len(s) : once[k] = frames[s[k]]
      /\ \A k \in 1 .. Len(t) : again[k] = frames[t[k]]
  BY <1>1, <1>2, <1>3, HeldIs
<1> HIDE DEF once, again
<1>5. ASSUME NEW p \in Pages, p \in TwoQ!Resident PROVE pte[p].valid
  <2>1. \/ \E k \in 1 .. Len(once) : p = once[k]
        \/ \E k \in 1 .. Len(again) : p = again[k]
    BY <1>5 DEF TwoQ!Resident, TwoQ!Elements, once, again
  <2>2. (\A k \in 1 .. Len(s) : s[k] \in on) /\ (\A k \in 1 .. Len(t) : t[k] \in on)
    BY <1>2, ElementOfSeq
  <2>3. \E f \in on : frames[f] = p
    BY <1>4, <2>1, <2>2
  <2>4. PICK f \in Frames : frames[f] = p
    BY <1>1, <2>3
  <2> QED
    BY <2>4, Constants DEF CoremapConsistent
<1> QED
  BY <1>2, <1>4, <1>5 DEF once, again

(* A page loaded into a free frame joins the back of the FIFO queue.       *)
LEMMA MissLoads ==
  ASSUME TypeOK, TypeOK', CoremapConsistent, S2QInv, status = "running",
         status' # "aborted", NEW a \in Accesses, MissFree(a),
         OnReference(queues, reference, a.page), NEW p \in Pages, p = a.page
  PROVE  TwoQ!Load(p)
<1> DEFINE on == UsedFrames
           once == PagesOf(A1)
           again == PagesOf(Am)
<1>1. PICK s, t : ListsHold(queues, on, s, t)
  BY ListsNow
<1>2. /\ pte \in [Pages -> PTE] /\ frames \in [Frames -> Pages \cup {NULL}]
      /\ ~pte[p].valid /\ p # NULL
  BY Constants DEF MissFree, TypeOK, MMTypeOK
<1>3. PICK f \in Frames : f \in FreeFrames /\ Fill(a, f, pte, {})
  BY DEF MissFree, AllocateFree, FindFreeFrame
<1>4. /\ pte'[p].valid /\ pte'[p].frame_number = f
      /\ frames' = [frames EXCEPT ![f] = p]
  BY <1>2, <1>3, FillPlaces
<1>5. /\ on \in SUBSET Frames /\ f \in Frames \ on
      /\ UsedFrames' = on \cup {f} /\ MapsInto(frames, on, Pages)
  BY <1>2, <1>3, <1>4, UsedHoldPages DEF UsedFrames, FreeFrames
<1>6. /\ p \notin TwoQ!Resident
      /\ Len(once) = Len(s) /\ Len(again) = Len(t)
      /\ Len(s) + Len(t) = Cardinality(on)
  BY <1>1, <1>2, ResidentIs
<1>7. once = Held(s, frames) /\ again = Held(t, frames)
  BY <1>1, QueuesNow
<1> DEFINE all == on \cup {f}
<1> HIDE DEF on, once, again
<1>8. s \in Seq(on) /\ t \in Seq(on)
  BY <1>1, <1>5, ListsRead
<1>9. Len(once) + Len(again) < MEMSIZE
  <2>1. IsFiniteSet(on) /\ all \in SUBSET Frames
    BY <1>5, FramesFinite
  <2>2. Cardinality(all) = Cardinality(on) + 1
    BY <1>5, <2>1, FS_AddElement
  <2> DEFINE c == Cardinality(on)
             d == Cardinality(all)
  <2>3. c \in Nat /\ d \in Nat /\ d <= MEMSIZE /\ d = c + 1 /\ MEMSIZE \in Nat
    BY <1>5, <2>1, <2>2, FramesFinite, Constants
  <2>4. Len(once) + Len(again) = c
    BY <1>6
  <2> HIDE DEF c, d
  <2> QED
    BY <2>3, <2>4
<1> DEFINE r == Append(s, f)
<1>10. queues' = list_add_tail(queues, A1, f)
  <2>1. OnReference(queues, reference, p) /\ f = pte'[p].frame_number
    BY <1>4
  <2> QED
    BY <1>1, <1>5, <2>1, OnReferencePlaces
<1>11. ListsHold(queues', all, r, t)
  BY <1>1, <1>5, <1>10, ListsAddTail
<1>12. s \in Seq(all) /\ t \in Seq(all) /\ f \in all
  BY <1>8, SeqMonotonic
<1>13. /\ MapsInto(frames', all, Pages) /\ frames'[f] = p
       /\ \A g \in on : frames'[g] = frames[g]
  BY <1>2, <1>4, <1>5 DEF MapsInto
<1> DEFINE fr == frames'
<1>14. Held(s, fr) = once /\ Held(t, fr) = again
  <2> HIDE DEF fr
  <2> QED
    BY <1>7, <1>8, <1>13, HeldKept DEF fr
<1>15. Held(r, fr) = Append(once, p)
  <2>1. MapsInto(fr, all, Pages) /\ fr[f] = p
    BY <1>13
  <2> HIDE DEF fr, all
  <2>2. Held(Append(s, f), fr) = Append(Held(s, fr), fr[f])
    <3>1. HeldAlong(s, f, fr)
      BY <1>12, <2>1, HeldAppend
    <3> QED
      BY ONLY <3>1 DEF HeldAlong
  <2> QED
    BY <1>14, <2>1, <2>2
<1> HIDE DEF r
<1>16. once' = Append(once, p) /\ again' = again
  BY <1>5, <1>11, <1>14, <1>15, QueuesNext DEF once, again
<1> QED
  BY <1>6, <1>9, <1>16 DEF TwoQ!Load, once, again

(* Without its first element a sequence is its tail, without its last one  *)
(* its front.                                                              *)
LEMMA WithoutEnds ==
  ASSUME NEW T, NEW s \in Seq(T), s # << >>
  PROVE  /\ Without(s, 1) = Tail(s)
         /\ Without(s, Len(s)) = TwoQ!Front(s)
<1> DEFINE n == Len(s)
           x == Tail(s)
           y == SubSeq(s, 1, n - 1)
           b == Without(s, 1)
           c == Without(s, n)
<1>1. n \in Nat \ {0} /\ 1 \in 1 .. n /\ n \in 1 .. n
      /\ \A i \in 1 .. n : s[i] \in T
  BY EmptySeq, ElementOfSeq
<1>2. /\ x \in Seq(T) /\ Len(x) = n - 1 /\ \A i \in 1 .. n - 1 : x[i] = s[i + 1]
  BY <1>1, HeadTailProperties
<1>3. /\ y \in Seq(T) /\ Len(y) = n - 1 /\ \A i \in 1 .. n - 1 : y[i] = s[i]
  <2> DEFINE l == n - 1
  <2>1. 1 \in Int /\ l \in Int /\ \A i \in 1 .. l : s[i] \in T
    BY <1>1
  <2>2. l \in Nat
    BY <1>1
  <2> HIDE DEF l
  <2>3. /\ SubSeq(s, 1, l) \in Seq(T)
        /\ Len(SubSeq(s, 1, l)) = (IF 1 <= l THEN l - 1 + 1 ELSE 0)
        /\ \A i \in 1 .. l - 1 + 1 : SubSeq(s, 1, l)[i] = s[1 + i - 1]
    BY <2>1, SubSeqProperties
  <2>4. l - 1 + 1 = l /\ (\A i \in 1 .. l : 1 + i - 1 = i)
        /\ (IF 1 <= l THEN l - 1 + 1 ELSE 0) = l
    BY ONLY <2>2
  <2>5. /\ SubSeq(s, 1, l) \in Seq(T) /\ Len(SubSeq(s, 1, l)) = l
        /\ \A i \in 1 .. l : SubSeq(s, 1, l)[i] = s[i]
    BY <2>3, <2>4
  <2> QED
    BY <2>5 DEF l
<1>4. /\ b \in Seq(T) /\ Len(b) = n - 1
      /\ \A i \in 1 .. n - 1 : b[i] = IF i < 1 THEN s[i] ELSE s[i + 1]
  BY <1>1, WithoutIs
<1>5. /\ c \in Seq(T) /\ Len(c) = n - 1
      /\ \A i \in 1 .. n - 1 : c[i] = IF i < n THEN s[i] ELSE s[i + 1]
  <2> HIDE DEF n
  <2>1. n = Len(s)
    BY DEF n
  <2> QED
    BY <1>1, <2>1, WithoutIs
<1>6. y = TwoQ!Front(s)
  BY DEF TwoQ!Front
<1> HIDE DEF n, x, y, b, c
<1>7. \A i \in 1 .. n - 1 : ~(i < 1) /\ i < n
  BY <1>1
<1>8. \A i \in 1 .. n - 1 : b[i] = x[i] /\ c[i] = y[i]
  BY <1>2, <1>3, <1>4, <1>5, <1>7
<1>9. b = x
  BY <1>2, <1>4, <1>8, SeqEqual
<1>10. c = y
  BY <1>3, <1>5, <1>8, SeqEqual
<1> QED
  BY <1>6, <1>9, <1>10 DEF n, x, b, c

(* With memory full, the page that missed joins the back of the FIFO       *)
(* queue, in the frame of the oldest page seen once or of the least        *)
(* recently used one, as the length of the FIFO queue decides.             *)
LEMMA EvictReplaces ==
  ASSUME TypeOK, TypeOK', CoremapConsistent, S2QInv, status = "running",
         status' # "aborted", NEW a \in Accesses, S2QEvict(a),
         NEW p \in Pages, p = a.page
  PROVE  TwoQ!Replace(p)
<1> DEFINE e == EvictEntry
           v == frames[e]
           bits == [reference EXCEPT ![v] = FALSE]
           once == PagesOf(A1)
           again == PagesOf(Am)
           d == list_del(queues, e)
           left == Frames \ {e}
           long == MEMSIZE \div S2Q_DIVISOR
<1>1. /\ e \in Frames /\ MissEvict(a, pte[v].frame_number)
      /\ OnReference(d, bits, a.page)
  BY DEF S2QEvict
<1> HIDE DEF e
<1>2. /\ FreeFrames = {} /\ UsedFrames = Frames
      /\ \A f \in Frames : frames[f] \in Pages
      /\ pte[v].frame_number = e
      /\ pte \in [Pages -> PTE] /\ ~pte[p].valid
      /\ frames \in [Frames -> Pages \cup {NULL}] /\ p # NULL
  <2>1. FreeFrames = {} /\ ~pte[p].valid
    BY <1>1 DEF MissEvict, AllocateEvict
  <2> QED
    BY <1>1, <2>1, FullMemory, Constants
    DEF UsedFrames, CoremapConsistent, TypeOK, MMTypeOK
<1>5. /\ pte'[p].frame_number = e
      /\ frames' = [frames EXCEPT ![e] = p]
  <2>1. PICK offset \in SwapOffsets \cup {CSC369_INVALID_SWAP} :
          Fill(a, e, EvictedTable(v, offset), {EvictCounter(v)})
    BY <1>1, <1>2 DEF MissEvict
  <2>2. EvictedTable(v, offset) \in [Pages -> PTE]
    BY <1>1, <1>2, EvictedTableType
  <2> QED
    BY <1>1, <2>1, <2>2, FillPlaces
<1>6. UsedFrames' = Frames
  BY <1>1, <1>2, <1>5 DEF UsedFrames, FreeFrames
<1>7. PICK s, t : ListsHold(queues, Frames, s, t)
  BY <1>2, ListsNow
<1>8. /\ p \notin TwoQ!Resident
      /\ Len(once) = Len(s) /\ Len(again) = Len(t)
      /\ Len(s) + Len(t) = MEMSIZE
      /\ once = Held(s, frames) /\ again = Held(t, frames)
  BY <1>2, <1>7, ResidentIs, QueuesNow, FramesFinite
<1>9. /\ list_for_each(queues, A1, MEMSIZE) = s
      /\ s \in Seq(Frames) /\ t \in Seq(Frames)
      /\ s # << >> => queues.next[A1] = s[1]
      /\ t = << >> => queues.prev[Am] = Am
      /\ t # << >> => queues.prev[Am] = t[Len(t)]
  <2>1. PICK on \in SUBSET Frames : on = Frames
    OBVIOUS
  <2>2. ListsHold(queues, on, s, t)
    BY <1>7, <2>1
  <2>3. /\ list_for_each(queues, A1, MEMSIZE) = s
        /\ s \in Seq(on) /\ t \in Seq(on)
    BY <2>2, ListsRead
  <2>4. ListEnds(queues, s, t)
    BY <2>2, ListsRead
  <2> QED
    BY <2>1, <2>3, <2>4 DEF ListEnds
<1>10. e = IF Len(s) > long THEN queues.next[A1] ELSE queues.prev[Am]
  BY <1>9 DEF EvictEntry, e
<1>11. left \cup {e} = Frames /\ e \in Frames \ left /\ e \notin left
       /\ left \in SUBSET Frames
  BY <1>1
<1> HIDE DEF once, again, d, left, bits, long, v
<1>12. queues' = list_add_tail(d, A1, e)
       \/ ~ \E x, y : ListsHold(d, left, x, y)
  <2> SUFFICES ASSUME NEW x, NEW y, ListsHold(d, left, x, y)
               PROVE  queues' = list_add_tail(d, A1, e)
    OBVIOUS
  <2>1. OnReference(d, bits, p) /\ e = pte'[p].frame_number
    BY <1>1, <1>5
  <2> QED
    BY <1>1, <1>11, <2>1, OnReferencePlaces
<1> DEFINE fr == frames'
<1>13. /\ MapsInto(fr, Frames, Pages) /\ MapsInto(frames, Frames, Pages) /\ fr[e] = p
       /\ \A g \in left : fr[g] = frames[g]
  BY <1>1, <1>2, <1>5 DEF MapsInto, left
<1> HIDE DEF fr
(* The queues after the step, given the lists once e is off them.          *)
<1>14. ASSUME NEW x, NEW y, ListsHold(d, left, x, y)
       PROVE  /\ once' = Append(Held(x, frames), p)
              /\ again' = Held(y, frames)
  <2> DEFINE r == Append(x, e)
  <2>1. queues' = list_add_tail(d, A1, e)
    BY <1>12, <1>14
  <2>2. ListsHold(queues', UsedFrames', r, y)
    BY <1>6, <1>11, <1>14, <2>1, ListsAddTail
  <2>3. x \in Seq(left) /\ y \in Seq(left)
    BY <1>11, <1>14, ListsRead
  <2>4. Held(x, fr) = Held(x, frames) /\ Held(y, fr) = Held(y, frames)
    BY <1>13, <2>3, HeldKept
  <2>5. x \in Seq(Frames)
    BY <1>11, <2>3, SeqMonotonic
  <2>6. Held(Append(x, e), fr) = Append(Held(x, fr), fr[e])
    <3>1. PICK gr : gr = fr
      OBVIOUS
    <3>2. MapsInto(gr, Frames, Pages)
      BY <1>13, <3>1
    <3>3. PICK g \in Frames : g = e
      BY <1>1
    <3>4. PICK z \in Seq(Frames) : z = x
      BY <2>5
    <3>5. HeldAlong(z, g, gr)
      BY ONLY <3>2, HeldAppend, g \in Frames, z \in Seq(Frames)
    <3>6. Held(Append(z, g), gr) = Append(Held(z, gr), gr[g])
      BY ONLY <3>5 DEF HeldAlong
    <3> QED
      BY <3>1, <3>3, <3>4, <3>6
  <2>7. Held(r, fr) = Append(Held(x, frames), p)
    BY <1>13, <2>4, <2>6
  <2> HIDE DEF r
  <2> QED
    BY <2>2, <2>4, <2>7, QueuesNext DEF once, again, fr
<1>15. once \in Seq(Pages) /\ again \in Seq(Pages)
  BY <1>8, <1>9, <1>13, HeldIs
<1>16. long \in Nat /\ Len(s) \in Nat /\ Len(t) \in Nat
  <2>1. S2Q_DIVISOR \in Nat \ {0} /\ MEMSIZE \in Nat
    BY Constants, DivisorAssumption
  <2> QED
    BY <1>9, <2>1, ModDivision, LenProperties DEF long
<1>17. CASE Len(s) > long
  <2>1. Len(s) # 0 /\ s # << >> /\ 1 \in 1 .. Len(s)
    BY <1>16, <1>17, EmptySeq
  <2>2. e = s[1]
    BY <1>9, <1>10, <1>17, <2>1
  <2> DEFINE u == Without(s, 1)
  <2>3. ListsHold(d, left, u, t)
    <3>1. ListsHold(list_del(queues, s[1]), Frames \ {s[1]}, Without(s, 1), t)
      BY <1>7, <2>1, ListsDelA1
    <3> QED
      BY <2>2, <3>1 DEF d, left
  <2>4. Held(u, frames) = Without(once, 1)
    BY <1>8, <1>9, <1>13, <2>1, HeldWithout
  <2>5. Without(once, 1) = Tail(once)
    <3>1. once # << >>
      BY <1>8, <2>1, EmptySeq
    <3> QED
      BY <1>15, <3>1, WithoutEnds
  <2> HIDE DEF u
  <2>6. once' = Append(Tail(once), p) /\ again' = again
    BY <1>8, <1>14, <2>3, <2>4, <2>5
  <2> QED
    BY <1>8, <1>17, <2>6 DEF TwoQ!Replace, once, again, long
<1>18. CASE ~(Len(s) > long)
  <2>1. t # << >> /\ e = t[Len(t)]
    BY <1>1, <1>9, <1>10, <1>18, QueueHeads
  <2>2. Len(t) \in 1 .. Len(t)
    BY <1>9, <2>1, EmptySeq
  <2> DEFINE n == Len(t)
             u == Without(t, n)
  <2>3. ListsHold(d, left, s, u)
    <3> HIDE DEF n
    <3>1. n \in 1 .. Len(t) /\ e = t[n]
      BY <2>1, <2>2 DEF n
    <3>2. ListsHold(list_del(queues, t[n]), Frames \ {t[n]}, s, Without(t, n))
      BY <1>7, <3>1, ListsDelAm
    <3> QED
      BY <3>1, <3>2 DEF d, left
  <2>4. Held(u, frames) = Without(again, n)
    <3> HIDE DEF n
    <3>1. n \in 1 .. Len(t)
      BY <2>2 DEF n
    <3> QED
      BY <1>8, <1>9, <1>13, <3>1, HeldWithout
  <2>5. Without(again, n) = TwoQ!Front(again)
    <3>1. again # << >> /\ n = Len(again)
      BY <1>8, <2>2, EmptySeq
    <3> HIDE DEF n
    <3> QED
      BY <1>15, <3>1, WithoutEnds
  <2> HIDE DEF u, n
  <2>6. once' = Append(once, p) /\ again' = TwoQ!Front(again)
    BY <1>8, <1>14, <2>3, <2>4, <2>5
  <2> QED
    BY <1>8, <1>18, <2>6 DEF TwoQ!Replace, once, again, long
<1> QED
  BY <1>17, <1>18

LEMMA TwoQStep ==
  ASSUME TypeOK, TypeOK', CoremapConsistent, S2QInv, status' # "aborted",
         [S2QNext]_s2qVars
  PROVE  [TwoQ!TQNext]_(TwoQ!tqVars)
<1>1. ASSUME NEW a \in Accesses, status = "running",
             \/ (Hit(a) \/ MissFree(a)) /\ OnReference(queues, reference, a.page)
             \/ S2QEvict(a)
      PROVE  TwoQ!TQNext
  <2>1. PICK p \in Pages : p = a.page
    BY DEF Accesses
  <2>2. TwoQ!Touch(p) \/ TwoQ!Load(p) \/ TwoQ!Replace(p)
    BY <1>1, <2>1, HitTouches, MissLoads, EvictReplaces
  <2> QED
    BY <2>2 DEF TwoQ!TQNext
<1>2. CASE \/ TraceEnd /\ UNCHANGED <<queues, reference>>
           \/ Terminated /\ UNCHANGED <<queues, reference>>
           \/ UNCHANGED s2qVars
  <2>1. UNCHANGED <<queues, frames>>
    BY <1>2 DEF TraceEnd, Terminated, s2qVars, vars, mmVars
  <2> QED
    BY <2>1 DEF PagesOf, TwoQ!tqVars
<1> QED
  BY <1>1, <1>2 DEF S2QNext

(* csc369_policy_s2q.c quotes the algorithm of the paper: pages seen once  *)
(* wait in a FIFO queue, the others in a least-recently-used one, and the  *)
(* length of the former decides which gives up a page.  The two lists of   *)
(* frames are these two queues of pages, for every memory size and every   *)
(* divisor, as long as nothing aborts.                                     *)
THEOREM S2QImplementsTwoQueue ==
  ASSUME SwapLargeEnough, ReliableDisk
  PROVE  S2QSpec => ImplementsTwoQueue
<1>1. CSC369_PolicyS2QInit /\ S2QInv => TwoQ!TQInit
  <2> SUFFICES ASSUME CSC369_PolicyS2QInit, S2QInv PROVE TwoQ!TQInit
    OBVIOUS
  <2>1. UsedFrames = {} /\ status # "aborted"
    BY DEF CSC369_PolicyS2QInit, Init, MMCreate, CSC369_CoremapCreate, UsedFrames,
           FreeFrames
  <2>2. PICK s, t : ListsHold(queues, UsedFrames, s, t)
    BY <2>1, ListsNow
  <2> DEFINE on == UsedFrames
  <2>3. on = {} /\ on \in SUBSET Frames /\ ListsHold(queues, on, s, t)
    BY <2>1, <2>2
  <2> HIDE DEF on
  <2>4. s \in Seq(on) /\ t \in Seq(on)
    BY <2>3, ListsRead
  <2>5. s = << >> /\ t = << >>
    BY <2>3, <2>4, EmptySeq, ElementOfSeq
  <2>6. Held(s, frames) = << >> /\ Held(t, frames) = << >>
    BY <2>5 DEF Held
  <2> QED
    BY <2>2, <2>6, QueuesNow DEF TwoQ!TQInit
<1>2. /\ TypeOK /\ TypeOK' /\ CoremapConsistent /\ S2QInv /\ NeverAborts'
      /\ [S2QNext]_s2qVars
      => [TwoQ!TQNext]_(TwoQ!tqVars)
  BY TwoQStep DEF NeverAborts
<1>3. Spec => []NeverAborts
  BY NoAbort
<1> QED
  BY <1>1, <1>2, <1>3, S2QInvariant, S2QImplementsSpec, TypeCorrect, PTL
  DEF S2QSpec, ImplementsTwoQueue, TwoQ!TQSpec
=============================================================================
