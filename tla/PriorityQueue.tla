--------------------------- MODULE PriorityQueue ---------------------------
(***************************************************************************)
(* The ordered wait list that the solver pool (internal/scraper) and the    *)
(* monitor's scan queue both keep: a slice whose entries are sorted by     *)
(* an integer priority (the lower number is served first) and, among equal *)
(* priorities, by arrival.  Both packages write the same insertion         *)
(* loop: walk to the first entry with a strictly larger number and put the *)
(* newcomer in front of it.                                                *)
(***************************************************************************)
EXTENDS Integers, SequencesExt

(* Faulty variant: the newcomer goes in front of its equals, too. *)
OutrankedOrEqual(q, key, p) == {i \in DOMAIN q : p <= key[q[i]]}

(* The entries of q that a newcomer of priority p goes in front of.        *)
Outranked(q, key, p) == {i \in DOMAIN q : p < key[q[i]]}

(* Faulty variant: every newcomer goes to the end. *)
EndPosition(q, key, p) == Len(q) + 1

(* Where the insertion loop stops: the first outranked entry, or the end.  *)
InsertPosition(q, key, p) ==
  IF Outranked(q, key, p) = {} THEN Len(q) + 1 ELSE Min(Outranked(q, key, p))

(* The queue with e put in its place; key maps an entry to its priority.   *)
InsertByPriority(q, key, e) == InsertAt(q, InsertPosition(q, key, key[e]), e)

(* No entry stands behind one with a larger number.                        *)
SortedByPriority(q, key) ==
  \A i, j \in DOMAIN q : i < j => key[q[i]] <= key[q[j]]

(* Entry a stands before entry b.                                          *)
Precedes(q, a, b) == \E i, j \in DOMAIN q : i < j /\ q[i] = a /\ q[j] = b

NoDuplicates(q) == \A i, j \in DOMAIN q : q[i] = q[j] => i = j
=============================================================================
