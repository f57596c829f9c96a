------------------------------ MODULE TwoQueue ------------------------------
(***************************************************************************)
(* Simplified 2Q replacement as the comments of csc369_policy_s2q.c quote  *)
(* it from the paper: pages seen once wait in a FIFO queue, pages seen     *)
(* again live in a least-recently-used queue.                              *)
(***************************************************************************)
EXTENDS Naturals, Sequences, SequencesExt

CONSTANTS Pages, Capacity, Threshold

VARIABLES
  once,        \* resident pages referenced once, oldest first (A1)
  again        \* the other resident pages, most recently used first (Am)

tqVars == <<once, again>>

Elements(q) == {q[j] : j \in 1 .. Len(q)}
Resident == Elements(once) \cup Elements(again)

TQInit == once = << >> /\ again = << >>

(* A page referenced again becomes the most recently used one, whichever   *)
(* queue it was in.                                                        *)
Touch(p) ==
  \/ \E j \in 1 .. Len(once) :
       /\ once[j] = p
       /\ once' = RemoveAt(once, j)
       /\ again' = <<p>> \o again
  \/ \E j \in 1 .. Len(again) :
       /\ again[j] = p
       /\ again' = <<p>> \o RemoveAt(again, j)
       /\ UNCHANGED once

Load(p) ==
  /\ p \notin Resident /\ Len(once) + Len(again) < Capacity
  /\ once' = Append(once, p)
  /\ UNCHANGED again

(* The oldest page of the FIFO queue goes if that queue is long, else the  *)
(* least recently used one.                                                *)
Replace(p) ==
  /\ p \notin Resident /\ Len(once) + Len(again) = Capacity
  /\ IF Len(once) > Threshold
       THEN once' = Append(Tail(once), p) /\ UNCHANGED again
       ELSE once' = Append(once, p) /\ again' = Front(again)

TQNext == \E p \in Pages : Touch(p) \/ Load(p) \/ Replace(p)

TQSpec == TQInit /\ [][TQNext]_tqVars
=============================================================================
