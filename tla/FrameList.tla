------------------------------ MODULE FrameList ------------------------------
(***************************************************************************)
(* The circular doubly-linked list of list.h.  Each frame embeds one list  *)
(* entry, so an entry is named by its frame; list heads are further nodes. *)
(* A record with fields next and prev holds the two pointers of every      *)
(* node; list operations take such a record and return the changed one.    *)
(* Any further fields of the record are left alone.                        *)
(***************************************************************************)
EXTENDS Integers, Sequences

CONSTANT NULL   \* the null pointer

(* Self-links a node: list_init.                                           *)
list_init(l, head) ==
  [l EXCEPT !.next[head] = head, !.prev[head] = head]

(* The unlinked state of an entry: both pointers NULL.                     *)
list_entry_init(l, entry) ==
  [l EXCEPT !.next[entry] = NULL, !.prev[entry] = NULL]

list_entry_is_linked(l, entry) == l.next[entry] # NULL

(* __list_insert: entry goes between prev and next, which may be one node. *)
list_insert(l, entry, prev, next) ==
  [l EXCEPT !.prev = [[@ EXCEPT ![next] = entry] EXCEPT ![entry] = prev],
            !.next = [[@ EXCEPT ![entry] = next] EXCEPT ![prev] = entry]]

list_add_head(l, head, entry) == list_insert(l, entry, head, l.next[head])

list_add_tail(l, head, entry) == list_insert(l, entry, l.prev[head], head)

list_del(l, entry) ==
  LET unlinked == [l EXCEPT !.prev[l.next[entry]] = l.prev[entry],
                            !.next[l.prev[entry]] = l.next[entry]]
  IN  list_entry_init(unlinked, entry)

(* The n nodes met by following next from start, start included.           *)
Walk(l, start, n) ==
  LET node[k \in 1 .. n] == IF k = 1 THEN start ELSE l.next[node[k - 1]]
  IN  [k \in 1 .. n |-> node[k]]

(* The entries that list_for_each visits, in order: those met from head    *)
(* until head is met again.  max bounds the length of the list.            *)
list_for_each(l, head, max) ==
  LET nodes == Walk(l, head, max + 2)
      last == CHOOSE k \in 1 .. max + 1 :
                /\ nodes[k + 1] = head
                /\ \A j \in 2 .. k : nodes[j] # head
  IN  SubSeq(nodes, 2, last)
=============================================================================
