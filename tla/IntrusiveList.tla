---------------------------- MODULE IntrusiveList ----------------------------
(***************************************************************************)
(* The doubly linked rings of dmlist.h at the level of their pointers, and *)
(* what dmtimermodule.cpp does with them: the heads are the slots of the   *)
(* wheel and the work_list and tv_list on the stack of its functions, the  *)
(* entries are the m_stEntry of the timer elements.                        *)
(*                                                                         *)
(* The memory is a record of the two pointers of every node.  A function   *)
(* of dmlist.h is an operator from memory to memory; the stores to one     *)
(* field are listed in the order of the code, since nodes may coincide.    *)
(*                                                                         *)
(* owner is auxiliary: the list a caller takes an entry to be on.  It      *)
(* states what the functions ask of their callers, never what they do.     *)
(***************************************************************************)
EXTENDS Naturals, FiniteSets

CONSTANTS
  Slot,    \* the vec[i] of the wheel
  Local,   \* list heads on the stack: work_list, tv_list
  Entry,   \* the entries
  NULL,    \* the null pointer; also: on no list, in no traversal
  POISON   \* LIST_POISON1 and LIST_POISON2

Heads == Slot \union Local
Node == Heads \union Entry

(* A traversal of __Cascade: its tv_list, pTimer and pTemp.                *)
Walk == [list : Local, pos : Node, tmp : Node]

ASSUME ListAssumption ==
  /\ Slot \intersect Local = {}
  /\ Heads \intersect Entry = {}
  /\ NULL \notin Node
  /\ NULL \notin Walk
  /\ POISON \notin Node

VARIABLES
  mem,     \* the fields next and prev of every node
  lists,   \* the heads that are lists now
  owner,   \* [Entry -> the head of its list, or NULL]
  walk     \* the traversal that is going on, or NULL

vars == <<mem, lists, owner, walk>>

-----------------------------------------------------------------------------
(* The functions of dmlist.h.                                              *)

INIT_LIST_HEAD(m, h) ==
  [next |-> [m.next EXCEPT ![h] = h], prev |-> [m.prev EXCEPT ![h] = h]]

(* Insert new between p and n, which follow one another.                   *)
__list_add(m, new, p, n) ==
  [next |-> [m.next EXCEPT ![new] = n, ![p] = new],
   prev |-> [m.prev EXCEPT ![n] = new, ![new] = p]]

list_add(m, new, h)      == __list_add(m, new, h, m.next[h])

(* Wrong: the new entry goes in front of the last one.                     *)
ListAddBeforeLast(m, new, h) == __list_add(m, new, m.prev[m.prev[h]], m.prev[h])

list_add_tail(m, new, h) == __list_add(m, new, m.prev[h], h)

(* Wrong: the successor still points back at what was removed.             *)
ListDelForwardOnly(m, p, n) == [m EXCEPT !.next[p] = n]

__list_del(m, p, n) ==
  [next |-> [m.next EXCEPT ![p] = n], prev |-> [m.prev EXCEPT ![n] = p]]

Unlinked(m, e) == __list_del(m, m.prev[e], m.next[e])

list_del(m, e) ==
  [next |-> [Unlinked(m, e).next EXCEPT ![e] = POISON],
   prev |-> [Unlinked(m, e).prev EXCEPT ![e] = POISON]]

list_del_init(m, e) == INIT_LIST_HEAD(Unlinked(m, e), e)

list_move(m, e, h)      == list_add(Unlinked(m, e), e, h)
list_move_tail(m, e, h) == list_add_tail(Unlinked(m, e), e, h)

(* The third store reads old->prev, which the second one sets when old is  *)
(* an empty list.                                                          *)
list_replace(m, old, new) ==
  LET back == [m.prev EXCEPT ![m.next[old]] = new]
  IN  [next |-> [m.next EXCEPT ![new] = m.next[old], ![back[old]] = new],
       prev |-> [back EXCEPT ![new] = back[old]]]

list_replace_init(m, old, new) == INIT_LIST_HEAD(list_replace(m, old, new), old)

list_empty(m, h)       == m.next[h] = h
list_is_singular(m, h) == ~list_empty(m, h) /\ m.next[h] = m.prev[h]

(* The first entries of h, up to e, become the list l.                     *)
__list_cut_position(m, l, h, e) ==
  [next |-> [m.next EXCEPT ![l] = m.next[h], ![e] = l, ![h] = m.next[e]],
   prev |-> [m.prev EXCEPT ![m.next[h]] = l, ![l] = e, ![m.next[e]] = h]]

CutLeavesAlone(m, h, e) ==
  \/ list_empty(m, h)
  \/ list_is_singular(m, h) /\ m.next[h] # e /\ h # e

list_cut_position(m, l, h, e) ==
  IF CutLeavesAlone(m, h, e) THEN m
  ELSE IF e = h THEN INIT_LIST_HEAD(m, l)
  ELSE __list_cut_position(m, l, h, e)

(* The entries of l, which is not empty, go between p and n.               *)
__list_splice(m, l, p, n) ==
  [next |-> [m.next EXCEPT ![p] = m.next[l], ![m.prev[l]] = n],
   prev |-> [m.prev EXCEPT ![m.next[l]] = p, ![n] = m.prev[l]]]

list_splice(m, l, h) ==
  IF list_empty(m, l) THEN m ELSE __list_splice(m, l, h, m.next[h])

list_splice_tail(m, l, h) ==
  IF list_empty(m, l) THEN m ELSE __list_splice(m, l, m.prev[h], h)

list_splice_init(m, l, h) ==
  IF list_empty(m, l) THEN m ELSE INIT_LIST_HEAD(list_splice(m, l, h), l)

list_splice_tail_init(m, l, h) ==
  IF list_empty(m, l) THEN m ELSE INIT_LIST_HEAD(list_splice_tail(m, l, h), l)

-----------------------------------------------------------------------------
(* The entries of a list, and what a caller knows of its lists.            *)

Owned(h)  == {x \in Entry : owner[x] = h}
Given(S, h) == [x \in Entry |-> IF x \in S THEN h ELSE owner[x]]
Free(e)   == owner[e] = NULL
Linked(e) == owner[e] \in lists

(* front holds the entries of h from the first one up to e.                *)
IsFront(front, h, e) ==
  /\ mem.next[h] \in front /\ e \in front /\ mem.next[e] \notin front
  /\ \A x \in front : x # e => mem.next[x] \in front
  /\ \A x \in front : x # mem.next[h] => mem.prev[x] \in front

-----------------------------------------------------------------------------
(* CDMTimerModule::Init makes every slot a list; elements come from their  *)
(* constructor with two null pointers, heads on the stack with anything.   *)
Init ==
  /\ mem = [next |-> [x \in Node |-> IF x \in Slot THEN x ELSE NULL],
            prev |-> [x \in Node |-> IF x \in Slot THEN x ELSE NULL]]
  /\ lists = Slot
  /\ owner = [e \in Entry |-> NULL]
  /\ walk = NULL

(* LIST_HEAD(l): a head on the stack becomes an empty list.                *)
InitHead(l) ==
  /\ walk = NULL /\ l \in Local \ lists
  /\ mem' = INIT_LIST_HEAD(mem, l)
  /\ lists' = lists \union {l}
  /\ UNCHANGED <<owner, walk>>

(* The frame of a head on the stack is left; what is in it then is never   *)
(* read.                                                                   *)
Gone(m, l) ==
  [next |-> [m.next EXCEPT ![l] = NULL], prev |-> [m.prev EXCEPT ![l] = NULL]]

(* Run or __ReleaseElement is done with its work_list; an entry that it did*)
(* not reach would be on no list from now on.                              *)
Return(l) ==
  /\ walk = NULL /\ l \in lists \intersect Local /\ list_empty(mem, l)
  /\ mem' = Gone(mem, l)
  /\ lists' = lists \ {l}
  /\ owner' = Given(Owned(l), NULL)
  /\ UNCHANGED walk

AddFirst(e, h) ==
  /\ walk = NULL /\ Free(e) /\ h \in lists
  /\ mem' = list_add(mem, e, h)
  /\ owner' = Given({e}, h)
  /\ UNCHANGED <<lists, walk>>

(* AddTimerElement ends with it.                                           *)
AddLast(e, h) ==
  /\ walk = NULL /\ Free(e) /\ h \in lists
  /\ mem' = list_add_tail(mem, e, h)
  /\ owner' = Given({e}, h)
  /\ UNCHANGED <<lists, walk>>

Delete(e) ==
  /\ walk = NULL /\ Linked(e)
  /\ mem' = list_del(mem, e)
  /\ owner' = Given({e}, NULL)
  /\ UNCHANGED <<lists, walk>>

DeleteInit(e) ==
  /\ walk = NULL /\ Linked(e)
  /\ mem' = list_del_init(mem, e)
  /\ owner' = Given({e}, NULL)
  /\ UNCHANGED <<lists, walk>>

TimerPending(e) == mem.next[e] # NULL

(* RemoveTimerElement; without assertions it leaves an element that is not *)
(* pending alone.                                                          *)
Removed(m, e) ==
  IF TimerPending(e)
  THEN [next |-> [list_del(m, e).next EXCEPT ![e] = NULL],
        prev |-> [list_del(m, e).prev EXCEPT ![e] = NULL]]
  ELSE m

(* Run and __ReleaseElement take the first entry of a list that is not     *)
(* empty.                                                                  *)
RemoveFirst(h) ==
  /\ walk = NULL /\ h \in lists /\ ~list_empty(mem, h)
  /\ mem' = Removed(mem, mem.next[h])
  /\ owner' = Given({mem.next[h]}, NULL)
  /\ UNCHANGED <<lists, walk>>

(* The entry f takes the place of e.                                       *)
Replace(e, f) ==
  /\ walk = NULL /\ Linked(e) /\ Free(f)
  /\ mem' = list_replace_init(mem, e, f)
  /\ owner' = [owner EXCEPT ![f] = owner[e], ![e] = NULL]
  /\ UNCHANGED <<lists, walk>>

(* The list h goes over to l, as from a slot to work_list.                 *)
ReplaceInit(h, l) ==
  /\ walk = NULL /\ h \in lists /\ l \in Local \ lists
  /\ mem' = list_replace_init(mem, h, l)
  /\ lists' = lists \union {l}
  /\ owner' = Given(Owned(h), l)
  /\ UNCHANGED walk

Move(e, h) ==
  /\ walk = NULL /\ Linked(e) /\ h \in lists
  /\ mem' = list_move(mem, e, h)
  /\ owner' = Given({e}, h)
  /\ UNCHANGED <<lists, walk>>

MoveTail(e, h) ==
  /\ walk = NULL /\ Linked(e) /\ h \in lists
  /\ mem' = list_move_tail(mem, e, h)
  /\ owner' = Given({e}, h)
  /\ UNCHANGED <<lists, walk>>

(* The entries of h up to e go over to the empty list l.                   *)
Cut(l, h, e) ==
  /\ walk = NULL /\ {l, h} \subseteq lists /\ l # h /\ list_empty(mem, l)
  /\ IF CutLeavesAlone(mem, h, e) \/ e = h
     THEN e \in Owned(h) \union {h} /\ UNCHANGED owner
     ELSE \E front \in SUBSET Owned(h) :
            IsFront(front, h, e) /\ owner' = Given(front, l)
  /\ mem' = list_cut_position(mem, l, h, e)
  /\ UNCHANGED <<lists, walk>>

(* The entries of l go over to h.  Without _init the head of l still points*)
(* to them: it is a head on the stack that is left behind.                 *)
Joined(l, h) ==
  /\ walk = NULL /\ {l, h} \subseteq lists /\ l # h
  /\ owner' = Given(Owned(l), h)
  /\ UNCHANGED walk

Splice(l, h) ==
  /\ Joined(l, h) /\ l \in Local
  /\ mem' = Gone(list_splice(mem, l, h), l)
  /\ lists' = lists \ {l}

SpliceTail(l, h) ==
  /\ Joined(l, h) /\ l \in Local
  /\ mem' = Gone(list_splice_tail(mem, l, h), l)
  /\ lists' = lists \ {l}

SpliceInit(l, h) ==
  Joined(l, h) /\ mem' = list_splice_init(mem, l, h) /\ UNCHANGED lists

SpliceTailInit(l, h) ==
  Joined(l, h) /\ mem' = list_splice_tail_init(mem, l, h) /\ UNCHANGED lists

-----------------------------------------------------------------------------
(* __Cascade detaches the slot h into its tv_list l and goes through it,   *)
(* linking every entry anew without taking it out of l first.              *)

(* Wrong: pTimer is read from tv_list before the slot is detached to it.   *)
CascadeBeginEarly(h, l) ==
  /\ walk = NULL /\ h \in lists /\ l \in Local \ lists
  /\ mem' = list_replace_init(mem, h, l)
  /\ owner' = Given(Owned(h), l)
  /\ walk' = [list |-> l, pos |-> mem.next[l], tmp |-> mem'.next[mem'.next[l]]]
  /\ UNCHANGED lists

CascadeBegin(h, l) ==
  /\ walk = NULL /\ h \in lists /\ l \in Local \ lists
  /\ mem' = list_replace_init(mem, h, l)
  /\ owner' = Given(Owned(h), l)
  /\ walk' = [list |-> l, pos |-> mem'.next[l], tmp |-> mem'.next[mem'.next[l]]]
  /\ UNCHANGED lists

(* Wrong: the successor is read from the entry after it was moved.         *)
CascadeStepUnsafe(h) ==
  /\ walk # NULL /\ walk.pos # walk.list /\ h \in lists
  /\ mem' = list_add_tail(mem, walk.pos, h)
  /\ owner' = Given({walk.pos}, h)
  /\ walk' = [walk EXCEPT !.pos = mem'.next[walk.pos], !.tmp = mem'.next[walk.tmp]]
  /\ UNCHANGED lists

(* AddTimerElement, which here may choose any slot, the detached one too:  *)
(* more than the wheel does; then pTimer = pTemp, pTemp = its successor.   *)
CascadeStep(h) ==
  /\ walk # NULL /\ walk.pos # walk.list /\ h \in lists
  /\ mem' = list_add_tail(mem, walk.pos, h)
  /\ owner' = Given({walk.pos}, h)
  /\ walk' = [walk EXCEPT !.pos = walk.tmp, !.tmp = mem'.next[walk.tmp]]
  /\ UNCHANGED lists

CascadeEnd ==
  /\ walk # NULL /\ walk.pos = walk.list
  /\ mem' = Gone(mem, walk.list)
  /\ owner' = Given(Owned(walk.list), NULL)
  /\ walk' = NULL
  /\ UNCHANGED lists

Next ==
  \/ \E l \in Local : InitHead(l) \/ Return(l)
  \/ \E h \in Heads : RemoveFirst(h)
  \/ \E e \in Entry : Delete(e) \/ DeleteInit(e)
  \/ \E e, f \in Entry : Replace(e, f)
  \/ \E e \in Entry, h \in Heads :
       AddFirst(e, h) \/ AddLast(e, h) \/ Move(e, h) \/ MoveTail(e, h)
  \/ \E l, h \in Heads :
       \/ Splice(l, h) \/ SpliceTail(l, h) \/ SpliceInit(l, h) \/ SpliceTailInit(l, h)
       \/ ReplaceInit(h, l) \/ CascadeBegin(h, l)
       \/ \E e \in Entry \union {h} : Cut(l, h, e)
  \/ \E h \in Heads : CascadeStep(h)
  \/ CascadeEnd

Spec == Init /\ [][Next]_vars

(* The loop of __Cascade is sequential code: it goes on.                   *)
FairSpec == Spec /\ WF_vars((\E h \in Heads : CascadeStep(h)) \/ CascadeEnd)

-----------------------------------------------------------------------------
Pointer == Node \union {NULL, POISON}

(* Types, and that every entry is on a list that is one now, on the one    *)
(* that is traversed, or on none.                                          *)
ListTypeOK ==
  /\ mem \in [next : [Node -> Pointer], prev : [Node -> Pointer]]
  /\ lists \in SUBSET Heads
  /\ owner \in [Entry -> lists \union {NULL, IF walk = NULL THEN NULL ELSE walk.list}]
  /\ walk \in Walk \union {NULL}

(* The list a node is on; a head is on its own.                            *)
Where(x) == IF x \in Heads THEN x ELSE owner[x]

(* Every list and its entries are closed under next and prev, which are    *)
(* the inverse of each other: whatever mixture of calls, no entry is       *)
(* reached from two lists, and no removal reaches into another list.       *)
RingInv ==
  \A x \in Node : Where(x) \in lists =>
    /\ mem.next[x] \in Node /\ Where(mem.next[x]) = Where(x)
    /\ mem.prev[x] \in Node /\ Where(mem.prev[x]) = Where(x)
    /\ mem.prev[mem.next[x]] = x /\ mem.next[mem.prev[x]] = x

(* What __Cascade has still to visit hangs together by its next pointers   *)
(* alone: pTemp is the successor of pTimer, no two entries have the same   *)
(* successor, and none leads back to pTimer.  The prev pointers of the     *)
(* detached list are wrong from the first step on.                         *)
WalkInv ==
  walk # NULL =>
    /\ walk.list \notin lists /\ mem.next[walk.list] \in Node
    /\ Where(walk.pos) = walk.list
    /\ walk.pos # walk.list => walk.tmp = mem.next[walk.pos]
    /\ \A x \in Owned(walk.list) :
         /\ mem.next[x] \in Node /\ Where(mem.next[x]) = walk.list
         /\ mem.next[x] # walk.pos
         /\ \A y \in Owned(walk.list) : mem.next[x] = mem.next[y] => x = y

(* The traversal of __Cascade comes to an end, wherever the entries go.    *)
CascadeEnds == walk # NULL ~> walk = NULL
=============================================================================
