----------------------------- MODULE PolicyS2Q -----------------------------
(***************************************************************************)
(* MemSim under the simplified 2Q policy (csc369_policy_s2q.c): every      *)
(* frame in use is on one of two circular lists, A1 or Am.                 *)
(***************************************************************************)
EXTENDS MemSim

CONSTANTS
  A1, Am,       \* the two list heads
  S2Q_DIVISOR   \* A1 is long above 1/S2Q_DIVISOR of the memory (10 in the code)

ASSUME HeadsAssumption ==
  /\ A1 # Am /\ A1 # NULL /\ Am # NULL
  /\ A1 \notin Frames /\ Am \notin Frames /\ NULL \notin Frames
ASSUME DivisorAssumption == S2Q_DIVISOR \in Nat \ {0}

VARIABLES
  queues,       \* next and prev of the frames' entries and of the two heads
  reference     \* the reference bit of each page's entry

s2qVars == <<vars, queues, reference>>

Nodes == Frames \cup {A1, Am}

S2QTypeOK ==
  /\ TypeOK
  /\ queues \in [next : [Nodes -> Nodes \cup {NULL}],
                 prev : [Nodes -> Nodes \cup {NULL}]]
  /\ reference \in [Pages -> BOOLEAN]

Unlinked == [next |-> [n \in Nodes |-> NULL], prev |-> [n \in Nodes |-> NULL]]

CSC369_PolicyS2QInit ==
  /\ Init
  /\ queues = list_init(list_init(Unlinked, A1), Am)
  /\ reference = [p \in Pages |-> FALSE]

(* Faulty variant: A1 is used as a stack.                                  *)
OnRefAddsHead(q, f) ==
  IF list_entry_is_linked(q, f)
    THEN list_add_head(list_del(q, f), Am, f)
    ELSE list_add_head(q, A1, f)

(* CSC369_PolicyS2QOnRef(f): the lists after it.  A first reference puts   *)
(* the frame at the end of A1; any further one at the front of Am.         *)
CSC369_PolicyS2QOnRef(q, f) ==
  IF list_entry_is_linked(q, f)
    THEN list_add_head(list_del(q, f), Am, f)
    ELSE list_add_tail(q, A1, f)

(* The reference bits after it: set from the second reference on.          *)
Referenced(q, bits, f) ==
  IF list_entry_is_linked(q, f) THEN [bits EXCEPT ![frames'[f]] = TRUE] ELSE bits

(* OnRef is called on the frame of the access, unless memsim aborted.      *)
OnReference(q, bits, p) ==
  LET f == pte'[p].frame_number
  IN  IF status' = "aborted"
        THEN queues' = q /\ reference' = bits
        ELSE /\ queues' = CSC369_PolicyS2QOnRef(q, f)
             /\ reference' = Referenced(q, bits, f)

(* Faulty variant: A1 may fill the memory.                                 *)
EvictEntryHighThreshold ==
  IF Len(list_for_each(queues, A1, MEMSIZE)) > MEMSIZE
    THEN queues.next[A1]
    ELSE queues.prev[Am]

(* The entry CSC369_PolicyS2QEvict takes: the first of A1 when A1 is long, *)
(* else the last of Am.  On an empty list that is the head itself.         *)
EvictEntry ==
  IF Len(list_for_each(queues, A1, MEMSIZE)) > MEMSIZE \div S2Q_DIVISOR
    THEN queues.next[A1]
    ELSE queues.prev[Am]

(* Faulty variant: the victim's reference bit stays set.                   *)
S2QEvictKeepsBit(a) ==
  LET v == frames[EvictEntry]
  IN  /\ EvictEntry \in Frames
      /\ MissEvict(a, pte[v].frame_number)
      /\ OnReference(list_del(queues, EvictEntry), reference, a.page)

S2QEvict(a) ==
  LET v == frames[EvictEntry]
  IN  /\ EvictEntry \in Frames
      /\ MissEvict(a, pte[v].frame_number)
      /\ OnReference(list_del(queues, EvictEntry), [reference EXCEPT ![v] = FALSE],
                     a.page)

S2QNext ==
  \/ \E a \in Accesses :
       /\ status = "running"
       /\ WellFormed(a)
       /\ \/ (Hit(a) \/ MissFree(a)) /\ OnReference(queues, reference, a.page)
          \/ S2QEvict(a)
  \/ (TraceEnd \/ Terminated) /\ UNCHANGED <<queues, reference>>

S2QSpec == CSC369_PolicyS2QInit /\ [][S2QNext]_s2qVars

-----------------------------------------------------------------------------
(* Whenever memory is full, Evict finds a frame: it never takes a list     *)
(* head for a frame, which would be memory outside the coremap.            *)
VictimIsFrame ==
  FreeFrames = {} /\ status = "running" => EvictEntry \in Frames

(* csc369_policy_s2q.c:65: a linked frame is "on A1 queue (if reference    *)
(* bit is 0)", else on Am; and the bit is clear while a page is not        *)
(* resident, so that a reloaded page is again seen for the first time.     *)
BitTellsQueue ==
  status # "aborted" =>
    {p \in Pages : reference[p]} =
      {frames[f] : f \in {list_for_each(queues, Am, MEMSIZE)[k] :
                            k \in 1 .. Len(list_for_each(queues, Am, MEMSIZE))}}

(* The pages on a list, in the order of the list.                          *)
PagesOf(head) ==
  LET entries == list_for_each(queues, head, MEMSIZE)
  IN  [k \in 1 .. Len(entries) |-> frames[entries[k]]]

TwoQ == INSTANCE TwoQueue
          WITH once <- PagesOf(A1), again <- PagesOf(Am), Capacity <- MEMSIZE,
               Threshold <- MEMSIZE \div S2Q_DIVISOR

(* The lists of frames implement the algorithm of the paper on pages.      *)
ImplementsTwoQueue == TwoQ!TQSpec
=============================================================================
