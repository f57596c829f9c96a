------------------------------ MODULE PolicyRR ------------------------------
(***************************************************************************)
(* MemSim under the round-robin policy (csc369_policy_rr.c).               *)
(***************************************************************************)
EXTENDS MemSim

VARIABLE i      \* the static counter of CSC369_PolicyRREvict

rrVars == <<vars, i>>

RRTypeOK == TypeOK /\ i \in Frames

RRInit == Init /\ i = 0

(* Faulty variants: no wrap-around; the counter is stepped before use.     *)
RREvictNoWrap(victim) == victim = i /\ i' = i + 1
RREvictStepsFirst(victim) == i' = (i + 1) % MEMSIZE /\ victim = i'

(* CSC369_PolicyRREvict returns the counter and steps it; OnRef does       *)
(* nothing.                                                                *)
CSC369_PolicyRREvict(victim) ==
  victim = i /\ i' = (i + 1) % MEMSIZE

RRAccess(a) ==
  /\ status = "running"
  /\ WellFormed(a)
  /\ \/ Hit(a) /\ UNCHANGED i
     \/ MissFree(a) /\ UNCHANGED i
     \/ \E f \in Frames : CSC369_PolicyRREvict(f) /\ MissEvict(a, f)

RRNext ==
  \/ \E a \in Accesses : RRAccess(a)
  \/ (TraceEnd \/ Terminated) /\ UNCHANGED i

RRSpec == RRInit /\ [][RRNext]_rrVars

-----------------------------------------------------------------------------
(* The resident pages in the order in which they were loaded: frame i      *)
(* holds the oldest, and the others follow round the array.                *)
LoadOrder ==
  [j \in 1 .. Cardinality(Frames \ FreeFrames) |-> frames[(i + j - 1) % MEMSIZE]]

Fifo == INSTANCE FIFO WITH queue <- LoadOrder, Capacity <- MEMSIZE

(* csc369_policy_rr.c: "since our simulated traces have only one process   *)
(* that never frees memory regions, this is equivalent to FIFO".           *)
ImplementsFIFO == Fifo!FIFOSpec
=============================================================================
