------------------------------ MODULE ListQueues ------------------------------
(***************************************************************************)
(* What dmlist.h promises: every list is a sequence of entries, and every  *)
(* entry is on at most one.  A cascade takes the entries of one list, in   *)
(* their order and each once, to the ends of other lists.                  *)
(***************************************************************************)
EXTENDS Sequences, SequencesExt

CONSTANTS
  Lists,   \* the lists
  Entry,
  NULL     \* no cascade

VARIABLES
  queue,     \* [Lists -> Seq(Entry)]
  moving     \* the list a cascade empties, or NULL

On(e) == {h \in Lists : e \in ToSet(queue[h])}

Init == queue = [h \in Lists |-> << >>] /\ moving = NULL

Idle == moving = NULL /\ UNCHANGED moving

PushFirst(e, h) ==
  Idle /\ On(e) = {} /\ queue' = [queue EXCEPT ![h] = <<e>> \o @]

PushLast(e, h) ==
  Idle /\ On(e) = {} /\ queue' = [queue EXCEPT ![h] = Append(@, e)]

(* The queues without the i-th entry of h.                                 *)
Without(h, i) == [queue EXCEPT ![h] = RemoveAt(@, i)]

Take(e) ==
  /\ Idle
  /\ \E h \in Lists : \E i \in DOMAIN queue[h] :
       queue[h][i] = e /\ queue' = Without(h, i)

MoveFirst(e, h) ==
  /\ Idle
  /\ \E g \in Lists : \E i \in DOMAIN queue[g] :
       queue[g][i] = e /\ queue' = [Without(g, i) EXCEPT ![h] = <<e>> \o @]

MoveLast(e, h) ==
  /\ Idle
  /\ \E g \in Lists : \E i \in DOMAIN queue[g] :
       queue[g][i] = e /\ queue' = [Without(g, i) EXCEPT ![h] = Append(@, e)]

Substitute(e, f) ==
  /\ Idle /\ On(f) = {}
  /\ \E h \in On(e) : \E i \in DOMAIN queue[h] :
       queue[h][i] = e /\ queue' = [queue EXCEPT ![h][i] = f]

JoinFirst(l, h) ==
  /\ Idle /\ l # h
  /\ queue' = [queue EXCEPT ![l] = << >>, ![h] = queue[l] \o @]

JoinLast(l, h) ==
  /\ Idle /\ l # h
  /\ queue' = [queue EXCEPT ![l] = << >>, ![h] = @ \o queue[l]]

Split(l, h) ==
  /\ Idle /\ l # h /\ queue[l] = << >>
  /\ \E i \in DOMAIN queue[h] :
       queue' = [queue EXCEPT ![l] = SubSeq(queue[h], 1, i),
                              ![h] = SubSeq(@, i + 1, Len(@))]

Detach(h, l) ==
  /\ moving = NULL /\ l # h /\ queue[l] = << >>
  /\ queue' = [queue EXCEPT ![l] = queue[h], ![h] = << >>]
  /\ moving' = l

Relink(h) ==
  /\ moving # NULL /\ h # moving /\ queue[moving] # << >>
  /\ queue' = [queue EXCEPT ![moving] = Tail(@), ![h] = Append(@, Head(queue[moving]))]
  /\ UNCHANGED moving

Done ==
  moving # NULL /\ queue[moving] = << >> /\ moving' = NULL /\ UNCHANGED queue

Next ==
  \/ \E e \in Entry : Take(e)
  \/ \E e \in Entry, h \in Lists :
       PushFirst(e, h) \/ PushLast(e, h) \/ MoveFirst(e, h) \/ MoveLast(e, h)
  \/ \E e, f \in Entry : Substitute(e, f)
  \/ \E l, h \in Lists :
       JoinFirst(l, h) \/ JoinLast(l, h) \/ Split(l, h) \/ Detach(h, l)
  \/ \E h \in Lists : Relink(h)
  \/ Done

Spec == Init /\ [][Next]_<<queue, moving>>
=============================================================================
