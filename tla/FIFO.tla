-------------------------------- MODULE FIFO --------------------------------
(***************************************************************************)
(* First-in first-out replacement: the page loaded longest ago goes first. *)
(***************************************************************************)
EXTENDS Naturals, Sequences

CONSTANTS Pages, Capacity

VARIABLE queue     \* resident pages, oldest first

Resident == {queue[j] : j \in 1 .. Len(queue)}

FIFOInit == queue = << >>

Load(p) == Len(queue) < Capacity /\ queue' = Append(queue, p)

Replace(p) == Len(queue) = Capacity /\ queue' = Append(Tail(queue), p)

FIFONext == \E p \in Pages \ Resident : Load(p) \/ Replace(p)

FIFOSpec == FIFOInit /\ [][FIFONext]_queue
=============================================================================
