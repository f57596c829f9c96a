---------------------------- MODULE SecondChance ----------------------------
(***************************************************************************)
(* Second-chance replacement, the policy the clock implements: FIFO order, *)
(* but a page referenced since it was last considered goes to the back of  *)
(* the queue, once, instead of being replaced.                             *)
(***************************************************************************)
EXTENDS Naturals, Sequences

CONSTANTS Pages, Capacity

VARIABLES
  queue,       \* resident pages, the next to be considered first
  referenced,  \* resident pages referenced since last considered
  evicting     \* a victim is being looked for

scVars == <<queue, referenced, evicting>>

Resident == {queue[j] : j \in 1 .. Len(queue)}

SCInit == queue = << >> /\ referenced = {} /\ evicting = FALSE

Touch(p) ==
  /\ ~evicting /\ p \in Resident
  /\ referenced' = referenced \cup {p}
  /\ UNCHANGED <<queue, evicting>>

Load(p) ==
  /\ ~evicting /\ p \notin Resident /\ Len(queue) < Capacity
  /\ queue' = Append(queue, p)
  /\ referenced' = referenced \cup {p}
  /\ UNCHANGED evicting

StartEviction ==
  /\ ~evicting /\ Len(queue) = Capacity
  /\ evicting' = TRUE
  /\ UNCHANGED <<queue, referenced>>

Spare ==
  /\ evicting /\ Head(queue) \in referenced
  /\ queue' = Append(Tail(queue), Head(queue))
  /\ referenced' = referenced \ {Head(queue)}
  /\ UNCHANGED evicting

Replace(p) ==
  /\ evicting /\ p \notin Resident /\ Head(queue) \notin referenced
  /\ queue' = Append(Tail(queue), p)
  /\ referenced' = referenced \cup {p}
  /\ evicting' = FALSE

SCNext ==
  \/ \E p \in Pages : Touch(p) \/ Load(p) \/ Replace(p)
  \/ StartEviction
  \/ Spare

SCSpec == SCInit /\ [][SCNext]_scVars
=============================================================================
