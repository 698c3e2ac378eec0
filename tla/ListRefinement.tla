--------------------------- MODULE ListRefinement ---------------------------
(***************************************************************************)
(* The rings of IntrusiveList implement ListQueues: a list is the sequence *)
(* of entries that the next pointers spell.                                *)
(***************************************************************************)
EXTENDS IntrusiveList, Sequences

ASSUME EntryAssumption == IsFiniteSet(Entry)

(* Where a loop over what is on h begins: list_for_each, or the rest of a  *)
(* cascade.                                                                *)
First(h) ==
  IF h \in lists THEN mem.next[h]
  ELSE IF walk # NULL /\ walk.list = h THEN walk.pos
  ELSE h

(* The node reached from x after k next pointers of entries.               *)
Reached(m, x) ==
  LET f[k \in 0 .. Cardinality(Entry)] ==
        IF k = 0 THEN x
        ELSE IF f[k - 1] \in Entry THEN m.next[f[k - 1]] ELSE f[k - 1]
  IN  f

(* The entries from x on until the loop is back at h; all that it met when *)
(* it never comes back.                                                    *)
UpTo(m, x, h) ==
  LET f    == Reached(m, x)
      ends == {k \in DOMAIN f : f[k] = h}
      len  == IF ends = {} THEN Cardinality(Entry) + 1
              ELSE CHOOSE k \in ends : \A j \in ends : k <= j
  IN  [i \in 1 .. len |-> f[i - 1]]

Contents == [h \in Heads |-> UpTo(mem, First(h), h)]

Traversed == IF walk = NULL THEN NULL ELSE walk.list

Queues == INSTANCE ListQueues WITH
  Lists <- Heads, queue <- Contents, moving <- Traversed

(* The lists behave as sequences: every call does to the sequences of      *)
(* entries that the next pointers spell what its description says, and a   *)
(* cascade meets every entry of its list once and in order, although it    *)
(* relinks each while it stands on it.                                     *)
ImplementsQueues == Queues!Spec
=============================================================================
