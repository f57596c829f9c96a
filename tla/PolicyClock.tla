----------------------------- MODULE PolicyClock -----------------------------
(***************************************************************************)
(* MemSim under the Clock policy (csc369_policy_clock.c).                  *)
(*                                                                         *)
(* The ring of frames has no head of its own: list points at the entry of  *)
(* the frame that is taken for the head, and moves.  The loop of Evict is  *)
(* modelled one iteration per step, with the access being served in        *)
(* pending; nothing else runs meanwhile.                                   *)
(***************************************************************************)
EXTENDS MemSim

(* The null pointer is no frame's entry, and no access.                    *)
ASSUME NullPointerAssumption == NULL \notin Frames /\ NULL \notin Accesses

VARIABLES
  clock,        \* next and prev of each frame's entry, and the globals list, hand
  reference,    \* the reference bit of each page's entry
  pending       \* the access whose miss made Evict run; NULL outside Evict

clockVars == <<vars, clock, reference, pending>>

ClockTypeOK ==
  /\ TypeOK
  /\ clock \in [next : [Frames -> Frames \cup {NULL}],
                prev : [Frames -> Frames \cup {NULL}],
                list : Frames \cup {NULL}, hand : Frames \cup {NULL}]
  /\ reference \in [Pages -> BOOLEAN]
  /\ pending \in Accesses \cup {NULL}

(* Entries are zeroed with the coremap; list and hand are static.          *)
ClockInit ==
  /\ Init
  /\ clock = [next |-> [f \in Frames |-> NULL], prev |-> [f \in Frames |-> NULL],
              list |-> NULL, hand |-> NULL]
  /\ reference = [p \in Pages |-> FALSE]
  /\ pending = NULL

(* Faulty variant: a new frame goes in after the head.                     *)
OnRefAddsAfterHead(c, f) ==
  IF c.list = NULL
    THEN [list_init(list_entry_init(c, f), f) EXCEPT !.list = f, !.hand = f]
  ELSE IF ~list_entry_is_linked(c, f)
    THEN [list_add_head(list_entry_init(c, f), c.list, f) EXCEPT !.hand = f]
  ELSE c

(* CSC369_PolicyClockOnRef(f): the ring after it.  A frame not yet linked  *)
(* goes in before the head and the hand moves onto it.                     *)
CSC369_PolicyClockOnRef(c, f) ==
  IF c.list = NULL
    THEN [list_init(list_entry_init(c, f), f) EXCEPT !.list = f, !.hand = f]
  ELSE IF ~list_entry_is_linked(c, f)
    THEN [list_add_tail(list_entry_init(c, f), c.list, f) EXCEPT !.hand = f]
  ELSE c

(* Faulty variant: list keeps pointing at the frame that was taken out.    *)
UnlinkKeepsHead(c) == list_del(c, c.hand)

(* Taking the frame under the hand out of the ring (Evict's last part).    *)
Unlink(c) ==
  LET rest == [list_del(c, c.hand) EXCEPT !.list = c.next[c.hand]]
  IN  IF rest.list = c.hand THEN [rest EXCEPT !.list = NULL] ELSE rest

(* Faulty variant: the hand moves to the frame after it in the coremap.    *)
AdvanceByIndex(c) == [c EXCEPT !.hand = c.hand + 1]

Advance(c) == [c EXCEPT !.hand = c.next[c.hand]]

(* ExecuteMemInstruction calls OnRef on the frame the access ended up in,  *)
(* unless the simulator aborted.                                           *)
OnReference(c, p) ==
  IF status' = "aborted"
    THEN clock' = c /\ UNCHANGED reference
    ELSE /\ clock' = CSC369_PolicyClockOnRef(c, pte'[p].frame_number)
         /\ reference' = [reference EXCEPT
                            ![frames'[pte'[p].frame_number]] = TRUE]

ClockAccess(a) ==
  /\ status = "running" /\ pending = NULL
  /\ WellFormed(a)
  /\ Hit(a) \/ MissFree(a)
  /\ OnReference(clock, a.page)
  /\ UNCHANGED pending

(* A miss with memory full: Evict starts by stepping the hand.             *)
EvictBegins(a) ==
  /\ status = "running" /\ pending = NULL
  /\ WellFormed(a)
  /\ ~pte[a.page].valid /\ FreeFrames = {}
  /\ clock' = Advance(clock)
  /\ pending' = a
  /\ UNCHANGED <<vars, reference>>

(* Faulty variant: the bit is not cleared.                                 *)
EvictOnlyAdvances ==
  /\ pending # NULL
  /\ reference[frames[clock.hand]]
  /\ clock' = Advance(clock)
  /\ UNCHANGED <<vars, reference, pending>>

(* The frame under the hand has been referenced: clear its bit, move on.   *)
EvictSkips ==
  /\ pending # NULL
  /\ reference[frames[clock.hand]]
  /\ reference' = [reference EXCEPT ![frames[clock.hand]] = FALSE]
  /\ clock' = Advance(clock)
  /\ UNCHANGED <<vars, pending>>

(* It has not: it leaves the ring, its page is evicted, and the access     *)
(* that missed completes in the frame its entry names.                     *)
EvictFinds ==
  /\ pending # NULL
  /\ ~reference[frames[clock.hand]]
  /\ MissEvict(pending, pte[frames[clock.hand]].frame_number)
  /\ OnReference(Unlink(clock), pending.page)
  /\ pending' = NULL

ClockTraceEnd ==
  /\ pending = NULL
  /\ TraceEnd \/ Terminated
  /\ UNCHANGED <<clock, reference, pending>>

ClockNext ==
  \/ \E a \in Accesses : ClockAccess(a) \/ EvictBegins(a)
  \/ EvictSkips
  \/ EvictFinds
  \/ ClockTraceEnd

(* The loop is ordinary sequential code: it keeps executing.               *)
ClockSpec ==
  ClockInit /\ [][ClockNext]_clockVars /\ WF_clockVars(EvictSkips \/ EvictFinds)

-----------------------------------------------------------------------------
(* The ring links exactly the frames in use, in one cycle, forwards and    *)
(* backwards, and the hand is on it: Evict dereferences only live frames.  *)
RingWellFormed ==
  LET used == Frames \ FreeFrames
      n == Cardinality(used)
      ring == Walk(clock, clock.hand, n)
  IN  status # "aborted" =>
        /\ clock.list = NULL <=> used = {}
        /\ \A f \in Frames \ used : ~list_entry_is_linked(clock, f)
        /\ used # {} =>
             /\ clock.list \in used
             /\ {ring[k] : k \in 1 .. n} = used
             /\ clock.next[ring[n]] = clock.hand
             /\ \A f \in used : clock.prev[clock.next[f]] = f

(* The while (true) of Evict ends: every miss gets its frame.              *)
EvictTerminates == pending # NULL ~> pending = NULL

(* The ring, read from the frame Evict will look at next.                  *)
ClockQueue ==
  LET ring == Walk(clock, IF pending = NULL /\ clock.hand # NULL
                            THEN clock.next[clock.hand] ELSE clock.hand,
                   Cardinality(Frames \ FreeFrames))
  IN  [k \in DOMAIN ring |-> frames[ring[k]]]

Second == INSTANCE SecondChance
            WITH queue <- ClockQueue, Capacity <- MEMSIZE,
                 referenced <- {p \in Pages : reference[p]},
                 evicting <- pending # NULL

(* The ring with its moving head and hand behaves as a second-chance queue *)
(* of pages: no reference bit is lost, no page overtakes another.          *)
ImplementsSecondChance == Second!SCSpec
=============================================================================
