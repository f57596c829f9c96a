----------------------------- MODULE FlatMemory -----------------------------
(***************************************************************************)
(* What the simulated virtual memory promises its user: one array of bytes *)
(* per page, zero at first, changed only when the user stores a byte, and  *)
(* then exactly as the user asked.                                         *)
(***************************************************************************)
CONSTANTS
  Pages, Offsets, Values,
  TraceOffsets  \* the offsets the user stores at

VARIABLES
  mem,          \* what memory holds
  written       \* what the user has stored at each page and offset

flatVars == <<mem, written>>

FlatInit ==
  /\ mem = [p \in Pages |-> [o \in Offsets |-> 0]]
  /\ written = [p \in Pages |-> [o \in TraceOffsets |-> 0]]

Store(p, o, v) ==
  /\ mem' = [mem EXCEPT ![p][o] = v]
  /\ written' = [written EXCEPT ![p][o] = v]

FlatNext ==
  \E p \in Pages, o \in Offsets \cap TraceOffsets, v \in Values : Store(p, o, v)

FlatSpec == FlatInit /\ [][FlatNext]_flatVars
=============================================================================
