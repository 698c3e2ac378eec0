------------------------- MODULE IntrusiveListProofs -------------------------
(***************************************************************************)
(* Proofs about IntrusiveList, for every set of heads and entries: the     *)
(* pointers of every list stay a ring of their own under every sequence of *)
(* calls, cascades included, and the rings implement the sequences of      *)
(* ListQueues.                                                             *)
(***************************************************************************)
EXTENDS ListRefinement, FiniteSetTheorems, WellFoundedInduction, NaturalsInduction, TLAPS

Memory == [next : [Node -> Pointer], prev : [Node -> Pointer]]
Places == [Node -> Heads \union {NULL}]

(* RingInv of any memory m, any places at of the nodes and any lists ls.   *)
Rings(m, at, ls) ==
  \A x \in Node : at[x] \in ls =>
    /\ m.next[x] \in Node /\ at[m.next[x]] = at[x]
    /\ m.prev[x] \in Node /\ at[m.prev[x]] = at[x]
    /\ m.prev[m.next[x]] = x /\ m.next[m.prev[x]] = x

(* The places of the nodes in the present state.                           *)
At == [x \in Node |-> Where(x)]

-----------------------------------------------------------------------------
(* Inserting a node that is on no list after a node of a list.             *)
LEMMA AddRings ==
  ASSUME NEW m \in Memory, NEW at \in Places, NEW ls \in SUBSET Heads,
         Rings(m, at, ls),
         NEW e \in Node, at[e] \notin ls,
         NEW a \in Node, at[a] \in ls
  PROVE  /\ __list_add(m, e, a, m.next[a]) \in Memory
         /\ Rings(__list_add(m, e, a, m.next[a]), [at EXCEPT ![e] = at[a]], ls)
  <1> DEFINE b == m.next[a]
             r == __list_add(m, e, a, b)
             to == [at EXCEPT ![e] = at[a]]
  <1>1. b \in Node /\ at[b] = at[a] /\ m.prev[b] = a /\ e # a /\ e # b
    BY DEF Rings
  <1>2. r \in Memory
    BY <1>1 DEF __list_add, Memory, Pointer
  <1>3. /\ \A x \in Node : r.next[x] = IF x = a THEN e ELSE IF x = e THEN b ELSE m.next[x]
        /\ \A x \in Node : r.prev[x] = IF x = e THEN a ELSE IF x = b THEN e ELSE m.prev[x]
        /\ \A x \in Node : to[x] = IF x = e THEN at[a] ELSE at[x]
    BY <1>1 DEF __list_add, Memory, Places
  <1>4. Rings(r, to, ls)
    BY <1>1, <1>3 DEF Rings
  <1> QED BY <1>2, <1>4

(* Inserting at the end of a list: after the last node.                    *)
LEMMA AddTailRings ==
  ASSUME NEW m \in Memory, NEW at \in Places, NEW ls \in SUBSET Heads,
         Rings(m, at, ls),
         NEW e \in Node, at[e] \notin ls,
         NEW h \in Heads, at[h] = h, h \in ls
  PROVE  /\ list_add_tail(m, e, h) \in Memory
         /\ Rings(list_add_tail(m, e, h), [at EXCEPT ![e] = h], ls)
  <1>1. h \in Node
    BY DEF Node
  <1>2. m.prev[h] \in Node /\ at[m.prev[h]] = h /\ m.next[m.prev[h]] = h
    BY <1>1 DEF Rings
  <1>3. list_add_tail(m, e, h) = __list_add(m, e, m.prev[h], m.next[m.prev[h]])
    BY <1>2 DEF list_add_tail
  <1> QED BY <1>2, <1>3, AddRings

(* Inserting at the front of a list.                                       *)
LEMMA AddHeadRings ==
  ASSUME NEW m \in Memory, NEW at \in Places, NEW ls \in SUBSET Heads,
         Rings(m, at, ls),
         NEW e \in Node, at[e] \notin ls,
         NEW h \in Heads, at[h] = h, h \in ls
  PROVE  /\ list_add(m, e, h) \in Memory
         /\ Rings(list_add(m, e, h), [at EXCEPT ![e] = h], ls)
  BY AddRings DEF list_add, Node

(* Taking an entry out of its list; what its own pointers become is open.  *)
LEMMA DelRings ==
  ASSUME NEW m \in Memory, NEW at \in Places, NEW ls \in SUBSET Heads,
         Rings(m, at, ls), NULL \notin ls,
         NEW e \in Node, at[e] \in ls, at[e] # e,
         NEW to \in Places, to[e] \notin ls,
         \A x \in Node : x # e => to[x] = at[x],
         NEW r \in Memory,
         \A x \in Node : x # e => r.next[x] = Unlinked(m, e).next[x]
                               /\ r.prev[x] = Unlinked(m, e).prev[x]
  PROVE  Rings(r, to, ls)
  <1> DEFINE a == m.prev[e]
             b == m.next[e]
  <1>1. /\ a \in Node /\ b \in Node /\ at[a] = at[e] /\ at[b] = at[e]
        /\ m.next[a] = e /\ m.prev[b] = e
    BY DEF Rings
  <1>2. \A x \in Node : x # e =>
          /\ r.next[x] = IF x = a THEN b ELSE m.next[x]
          /\ r.prev[x] = IF x = b THEN a ELSE m.prev[x]
    BY <1>1 DEF Unlinked, __list_del, Memory
  <1>3. \A x \in Node : to[x] \in ls => x # e /\ to[x] = at[x]
    OBVIOUS
  <1>4. ASSUME a = e \/ b = e
        PROVE  a = e /\ b = e
    BY <1>1, <1>4
  <1>5. ASSUME NEW x \in Node, to[x] \in ls
        PROVE  /\ r.next[x] \in Node /\ to[r.next[x]] = to[x]
               /\ r.prev[x] \in Node /\ to[r.prev[x]] = to[x]
               /\ r.prev[r.next[x]] = x /\ r.next[r.prev[x]] = x
    <2>1. x # e /\ at[x] \in ls /\ to[x] = at[x]
      BY <1>3, <1>5
    <2>2. /\ m.next[x] \in Node /\ at[m.next[x]] = at[x]
          /\ m.prev[x] \in Node /\ at[m.prev[x]] = at[x]
          /\ m.prev[m.next[x]] = x /\ m.next[m.prev[x]] = x
      BY <2>1 DEF Rings
    <2>3. CASE x = a /\ x = b
      BY <1>1, <1>2, <1>4, <2>1, <2>2, <2>3
    <2>4. CASE x = a /\ x # b
      BY <1>1, <1>2, <1>4, <2>1, <2>2, <2>4
    <2>5. CASE x # a /\ x = b
      BY <1>1, <1>2, <1>4, <2>1, <2>2, <2>5
    <2>6. CASE x # a /\ x # b
      <3>1. m.next[x] # e /\ m.prev[x] # e
        BY <1>1, <2>2, <2>6
      <3> QED BY <1>1, <1>2, <1>4, <2>1, <2>2, <2>6, <3>1
    <2> QED BY <2>3, <2>4, <2>5, <2>6
  <1> QED BY <1>5 DEF Rings

(* The pointers of a node that is on no list do not matter.                *)
LEMMA OffListRings ==
  ASSUME NEW m \in Memory, NEW at \in Places, NEW ls \in SUBSET Heads,
         Rings(m, at, ls),
         NEW e \in Node, at[e] \notin ls,
         NEW r \in Memory,
         \A x \in Node : x # e => r.next[x] = m.next[x] /\ r.prev[x] = m.prev[x]
  PROVE  Rings(r, at, ls)
  BY DEF Rings

(* Fewer lists.                                                            *)
LEMMA FewerRings ==
  ASSUME NEW m \in Memory, NEW at \in Places, NEW ls \in SUBSET Heads,
         Rings(m, at, ls), NEW ks \in SUBSET ls,
         NEW to \in Places, \A x \in Node : to[x] # at[x] => at[x] \notin ks /\ to[x] \notin ks
  PROVE  Rings(m, to, ks)
  BY DEF Rings

(* A head that is no list becomes an empty one.                            *)
LEMMA InitRings ==
  ASSUME NEW m \in Memory, NEW at \in Places, NEW ls \in SUBSET Heads,
         Rings(m, at, ls),
         NEW h \in Heads, at[h] = h, h \notin ls,
         NEW to \in Places, to[h] = h,
         \A x \in Node : to[x] # at[x] => at[x] \notin ls /\ to[x] \notin ls,
         \A x \in Node : to[x] = h => x = h
  PROVE  /\ INIT_LIST_HEAD(m, h) \in Memory
         /\ Rings(INIT_LIST_HEAD(m, h), to, ls \union {h})
  <1> DEFINE r == INIT_LIST_HEAD(m, h)
  <1>1. h \in Node
    BY DEF Node
  <1>2. r \in Memory
    BY <1>1 DEF INIT_LIST_HEAD, Memory, Pointer
  <1>3. \A x \in Node : /\ r.next[x] = IF x = h THEN h ELSE m.next[x]
                        /\ r.prev[x] = IF x = h THEN h ELSE m.prev[x]
    BY <1>1 DEF INIT_LIST_HEAD, Memory
  <1>4. ASSUME NEW x \in Node, to[x] \in ls \union {h}
        PROVE  /\ r.next[x] \in Node /\ to[r.next[x]] = to[x]
               /\ r.prev[x] \in Node /\ to[r.prev[x]] = to[x]
               /\ r.prev[r.next[x]] = x /\ r.next[r.prev[x]] = x
    <2>1. CASE x = h
      BY <1>1, <1>3, <2>1
    <2>2. CASE x # h
      <3>1. at[x] \in ls /\ to[x] = at[x]
        BY <1>4, <2>2
      <3> QED BY <1>1, <1>3, <2>2, <3>1 DEF Rings
    <2> QED BY <2>1, <2>2
  <1> QED BY <1>2, <1>4 DEF Rings

(* A node that is on no list takes the place of one that is.  When the old *)
(* node is the head of its list, so is the new one then.                   *)
LEMMA ReplaceRings ==
  ASSUME NEW m \in Memory, NEW at \in Places, NEW ls \in SUBSET Heads,
         Rings(m, at, ls),
         NEW e \in Node, at[e] \in ls,
         NEW f \in Node, at[f] \notin ls,
         NEW k \in Heads \union {NULL},
         NEW to \in Places, to[f] = k, to[e] # k,
         \A x \in Node : x # e /\ x # f /\ at[x] # at[e] => to[x] = at[x],
         \A x \in Node : x # e /\ x # f /\ at[x] = at[e] => to[x] = k,
         NEW ks \in SUBSET Heads, k \in ks, to[e] \notin ks,
         ks \subseteq ls \union {k},
         \A x \in Node : x # f => at[x] # k \/ k = at[e]
  PROVE  /\ list_replace(m, e, f) \in Memory
         /\ Rings(list_replace(m, e, f), to, ks)
  <1> DEFINE a == m.prev[e]
             b == m.next[e]
             r == list_replace(m, e, f)
  <1>1. /\ a \in Node /\ b \in Node /\ at[a] = at[e] /\ at[b] = at[e]
        /\ m.next[a] = e /\ m.prev[b] = e /\ e # f /\ a # f /\ b # f
    BY DEF Rings
  <1>2. \A x \in Node :
          /\ r.next[x] = IF b = e
                         THEN IF x = f THEN f ELSE m.next[x]
                         ELSE IF x = a THEN f ELSE IF x = f THEN b ELSE m.next[x]
          /\ r.prev[x] = IF b = e
                         THEN IF x = e THEN f ELSE IF x = f THEN f ELSE m.prev[x]
                         ELSE IF x = f THEN a ELSE IF x = b THEN f ELSE m.prev[x]
    BY <1>1 DEF list_replace, Memory
  <1>3. r \in Memory
    BY <1>1 DEF list_replace, Memory, Pointer
  <1>4. ASSUME NEW x \in Node, to[x] \in ks
        PROVE  /\ r.next[x] \in Node /\ to[r.next[x]] = to[x]
               /\ r.prev[x] \in Node /\ to[r.prev[x]] = to[x]
               /\ r.prev[r.next[x]] = x /\ r.next[r.prev[x]] = x
    <2>1. x # e
      BY <1>4
    <2>2. CASE x = f
      BY <1>1, <1>2, <2>2
    <2>3. CASE x # f /\ at[x] = at[e]
      <3>1. to[x] = k
        BY <2>1, <2>3
      <3>2. /\ m.next[x] \in Node /\ at[m.next[x]] = at[e]
            /\ m.prev[x] \in Node /\ at[m.prev[x]] = at[e]
            /\ m.prev[m.next[x]] = x /\ m.next[m.prev[x]] = x
        BY <2>3 DEF Rings
      <3>3. m.next[x] # f /\ m.prev[x] # f
        BY <3>2
      <3>4. CASE b = e
        <4>1. a = e /\ m.next[x] # e /\ m.prev[x] # e
          BY <1>1, <2>1, <3>2, <3>4
        <4> QED BY <1>1, <1>2, <2>1, <2>3, <3>1, <3>2, <3>3, <3>4, <4>1
      <3>5. CASE b # e
        <4>1. a # e
          BY <1>1, <3>5
        <4>2. m.next[x] = e => x = a
          BY <1>1, <3>2
        <4>3. m.prev[x] = e => x = b
          BY <1>1, <3>2
        <4> QED BY <1>1, <1>2, <2>1, <2>3, <3>1, <3>2, <3>3, <3>5, <4>1, <4>2, <4>3
      <3> QED BY <3>4, <3>5
    <2>4. CASE x # f /\ at[x] # at[e]
      <3>1. to[x] = at[x] /\ at[x] \in ls
        BY <1>4, <2>1, <2>4
      <3>2. /\ m.next[x] \in Node /\ at[m.next[x]] = at[x]
            /\ m.prev[x] \in Node /\ at[m.prev[x]] = at[x]
            /\ m.prev[m.next[x]] = x /\ m.next[m.prev[x]] = x
        BY <3>1 DEF Rings
      <3> QED BY <1>1, <1>2, <2>1, <2>4, <3>1, <3>2
    <2> QED BY <2>2, <2>3, <2>4
  <1> QED BY <1>3, <1>4 DEF Rings

(* The entries of the list l, which is not empty, go between the node p of *)
(* the list h and its successor.                                           *)
LEMMA SpliceRings ==
  ASSUME NEW m \in Memory, NEW at \in Places, NEW ls \in SUBSET Heads,
         Rings(m, at, ls),
         NEW l \in ls, NEW h \in ls, l # h, at[l] = l, at[h] = h,
         m.next[l] # l,
         NEW p \in Node, at[p] = h,
         NEW to \in Places, to[l] = l,
         \A x \in Node : x # l => to[x] = IF at[x] = l THEN h ELSE at[x]
  PROVE  /\ __list_splice(m, l, p, m.next[p]) \in Memory
         /\ Rings(__list_splice(m, l, p, m.next[p]), to, ls \ {l})
  <1> DEFINE n == m.next[p]
             first == m.next[l]
             last == m.prev[l]
             r == __list_splice(m, l, p, n)
  <1>1. l \in Node /\ h \in Node
    BY DEF Node
  <1>2. /\ n \in Node /\ at[n] = h /\ m.prev[n] = p
        /\ first \in Node /\ at[first] = l /\ m.prev[first] = l /\ first # l
        /\ last \in Node /\ at[last] = l /\ m.next[last] = l /\ last # l
    BY <1>1 DEF Rings
  <1>3. r \in Memory
    BY <1>2 DEF __list_splice, Memory, Pointer
  <1>4. \A x \in Node :
          /\ r.next[x] = IF x = p THEN first ELSE IF x = last THEN n ELSE m.next[x]
          /\ r.prev[x] = IF x = n THEN last ELSE IF x = first THEN p ELSE m.prev[x]
    BY <1>2 DEF __list_splice, Memory
  <1>5. ASSUME NEW x \in Node, to[x] \in ls \ {l}
        PROVE  /\ r.next[x] \in Node /\ to[r.next[x]] = to[x]
               /\ r.prev[x] \in Node /\ to[r.prev[x]] = to[x]
               /\ r.prev[r.next[x]] = x /\ r.next[r.prev[x]] = x
    <2>1. x # l /\ at[x] \in ls
      BY <1>5
    <2>2. /\ m.next[x] \in Node /\ at[m.next[x]] = at[x]
          /\ m.prev[x] \in Node /\ at[m.prev[x]] = at[x]
          /\ m.prev[m.next[x]] = x /\ m.next[m.prev[x]] = x
      BY <2>1 DEF Rings
    <2>3. /\ r.next[x] \in Node /\ to[r.next[x]] = to[x] /\ r.prev[r.next[x]] = x
      <3>1. CASE x = p
        BY <1>2, <1>4, <2>1, <2>2, <3>1
      <3>2. CASE x = last
        BY <1>2, <1>4, <2>1, <2>2, <3>2
      <3>3. CASE x # p /\ x # last
        <4>1. m.next[x] # n /\ m.next[x] # first /\ m.next[x] # l
          BY <1>2, <2>1, <2>2, <3>3
        <4> QED BY <1>2, <1>4, <2>1, <2>2, <3>3, <4>1
      <3> QED BY <3>1, <3>2, <3>3
    <2>4. /\ r.prev[x] \in Node /\ to[r.prev[x]] = to[x] /\ r.next[r.prev[x]] = x
      <3>1. CASE x = n
        BY <1>2, <1>4, <2>1, <2>2, <3>1
      <3>2. CASE x = first
        BY <1>2, <1>4, <2>1, <2>2, <3>2
      <3>3. CASE x # n /\ x # first
        <4>1. m.prev[x] # p /\ m.prev[x] # last /\ m.prev[x] # l
          BY <1>2, <2>1, <2>2, <3>3
        <4> QED BY <1>2, <1>4, <2>1, <2>2, <3>3, <4>1
      <3> QED BY <3>1, <3>2, <3>3
    <2> QED BY <2>3, <2>4
  <1> QED BY <1>3, <1>5 DEF Rings

(* Joining an empty list to h moves no node.                               *)
LEMMA SpliceEmptyRings ==
  ASSUME NEW m \in Memory, NEW at \in Places, NEW ls \in SUBSET Heads,
         Rings(m, at, ls),
         NEW l \in ls, NEW h \in ls, l # h, at[l] = l, at[h] = h,
         m.next[l] = l,
         NEW to \in Places, to[l] = l,
         \A x \in Node : x # l => to[x] = IF at[x] = l THEN h ELSE at[x]
  PROVE  Rings(m, to, ls)
  <1>1. l \in Node /\ m.prev[l] = l
    BY DEF Rings, Node
  <1>2. ASSUME NEW x \in Node, to[x] \in ls
        PROVE  /\ m.next[x] \in Node /\ to[m.next[x]] = to[x]
               /\ m.prev[x] \in Node /\ to[m.prev[x]] = to[x]
               /\ m.prev[m.next[x]] = x /\ m.next[m.prev[x]] = x
    <2>1. at[x] \in ls
      BY <1>2
    <2>2. /\ m.next[x] \in Node /\ at[m.next[x]] = at[x]
          /\ m.prev[x] \in Node /\ at[m.prev[x]] = at[x]
          /\ m.prev[m.next[x]] = x /\ m.next[m.prev[x]] = x
      BY <2>1 DEF Rings
    <2>3. x # l => m.next[x] # l /\ m.prev[x] # l
      BY <1>1, <2>2
    <2> QED BY <1>1, <2>2, <2>3
  <1> QED BY <1>2 DEF Rings

(* The nodes of h in front, those from the first one up to e, become the   *)
(* list l, which was empty.                                                *)
LEMMA CutRings ==
  ASSUME NEW m \in Memory, NEW at \in Places, NEW ls \in SUBSET Heads,
         Rings(m, at, ls),
         NEW l \in ls, NEW h \in ls, l # h, at[l] = l, at[h] = h,
         m.next[l] = l,
         NEW e \in Node, NEW front \in SUBSET Node,
         \A x \in front : at[x] = h /\ x # h,
         m.next[h] \in front, e \in front, m.next[e] \notin front,
         \A x \in front : x # e => m.next[x] \in front,
         \A x \in front : x # m.next[h] => m.prev[x] \in front,
         NEW to \in Places,
         \A x \in Node : to[x] = IF x \in front THEN l ELSE at[x]
  PROVE  /\ __list_cut_position(m, l, h, e) \in Memory
         /\ Rings(__list_cut_position(m, l, h, e), to, ls)
  <1> DEFINE first == m.next[h]
             rest == m.next[e]
             r == __list_cut_position(m, l, h, e)
  <1>1. l \in Node /\ h \in Node
    BY DEF Node
  <1>2. /\ first \in Node /\ m.prev[first] = h /\ first # h /\ first # l
        /\ rest \in Node /\ at[rest] = h /\ m.prev[rest] = e /\ rest # l
        /\ m.prev[l] = l /\ l \notin front /\ h \notin front /\ e # l /\ e # h
    BY <1>1 DEF Rings
  <1>3. r \in Memory
    BY <1>1, <1>2 DEF __list_cut_position, Memory, Pointer
  <1>4. \A x \in Node :
          /\ r.next[x] = IF x = h THEN rest ELSE IF x = e THEN l
                         ELSE IF x = l THEN first ELSE m.next[x]
          /\ r.prev[x] = IF x = rest THEN h ELSE IF x = l THEN e
                         ELSE IF x = first THEN l ELSE m.prev[x]
    BY <1>1, <1>2 DEF __list_cut_position, Memory
  <1>5. ASSUME NEW x \in Node, to[x] \in ls
        PROVE  /\ r.next[x] \in Node /\ to[r.next[x]] = to[x]
               /\ r.prev[x] \in Node /\ to[r.prev[x]] = to[x]
               /\ r.prev[r.next[x]] = x /\ r.next[r.prev[x]] = x
    <2>1. at[x] \in ls
      BY <1>5
    <2>2. /\ m.next[x] \in Node /\ at[m.next[x]] = at[x]
          /\ m.prev[x] \in Node /\ at[m.prev[x]] = at[x]
          /\ m.prev[m.next[x]] = x /\ m.next[m.prev[x]] = x
      BY <2>1 DEF Rings
    <2>3. /\ r.next[x] \in Node /\ to[r.next[x]] = to[x] /\ r.prev[r.next[x]] = x
      <3>1. CASE x = h
        BY <1>1, <1>2, <1>4, <3>1
      <3>2. CASE x = e
        BY <1>1, <1>2, <1>4, <3>2
      <3>3. CASE x = l
        BY <1>1, <1>2, <1>4, <3>3
      <3>4. CASE x # h /\ x # e /\ x # l
        <4>1. m.next[x] # rest /\ m.next[x] # l /\ m.next[x] # first
          BY <1>1, <1>2, <2>2, <3>4
        <4>2. m.next[x] \in front <=> x \in front
          BY <1>2, <2>2, <3>4, <4>1
        <4> QED BY <1>1, <1>2, <1>4, <2>2, <3>4, <4>1, <4>2
      <3> QED BY <3>1, <3>2, <3>3, <3>4
    <2>4. /\ r.prev[x] \in Node /\ to[r.prev[x]] = to[x] /\ r.next[r.prev[x]] = x
      <3>1. CASE x = rest
        BY <1>1, <1>2, <1>4, <3>1
      <3>2. CASE x = l
        BY <1>1, <1>2, <1>4, <3>2
      <3>3. CASE x = first
        BY <1>1, <1>2, <1>4, <3>3
      <3>4. CASE x # rest /\ x # l /\ x # first
        <4>1. m.prev[x] # e /\ m.prev[x] # l /\ m.prev[x] # h
          BY <1>1, <1>2, <2>2, <3>4
        <4>2. m.prev[x] \in front <=> x \in front
          BY <1>2, <2>2, <3>4, <4>1
        <4> QED BY <1>1, <1>2, <1>4, <2>2, <3>4, <4>1, <4>2
      <3> QED BY <3>1, <3>2, <3>3, <3>4
    <2> QED BY <2>3, <2>4
  <1> QED BY <1>3, <1>5 DEF Rings

-----------------------------------------------------------------------------
(* A list detached to a head that is no list, and initialised again.       *)
LEMMA ReplaceInitRings ==
  ASSUME NEW m \in Memory, NEW at \in Places, NEW ls \in SUBSET Heads,
         Rings(m, at, ls),
         NEW h \in ls, NEW l \in Heads \ ls, at[h] = h, at[l] = l,
         \A x \in Node : x # l => at[x] # l,
         NEW to \in Places, to[h] = h,
         \A x \in Node : x # h => to[x] = IF at[x] = h THEN l ELSE at[x]
  PROVE  /\ list_replace_init(m, h, l) \in Memory
         /\ Rings(list_replace_init(m, h, l), to, ls \union {l})
  <1> DEFINE ks == (ls \ {h}) \union {l}
             r == list_replace(m, h, l)
  <1>1. h \in Node /\ l \in Node /\ h # l /\ to[l] = l
    BY DEF Node
  <1>2. r \in Memory /\ Rings(r, to, ks)
    <2> HIDE DEF ks
    <2>1. at[h] \in ls /\ at[l] \notin ls /\ to[l] = l /\ to[h] # l
      BY <1>1
    <2>2. /\ \A x \in Node : x # h /\ x # l /\ at[x] # at[h] => to[x] = at[x]
          /\ \A x \in Node : x # h /\ x # l /\ at[x] = at[h] => to[x] = l
          /\ \A x \in Node : x # l => at[x] # l \/ l = at[h]
      OBVIOUS
    <2>3. /\ ks \in SUBSET Heads /\ l \in ks /\ to[h] \notin ks
          /\ ks \subseteq ls \union {l} /\ l \in Heads \union {NULL}
      BY <1>1 DEF ks
    <2> QED BY <1>1, <2>1, <2>2, <2>3, ReplaceRings
  <1>3. \A x \in Node : to[x] = h => x = h
    BY <1>1
  <1>4. /\ INIT_LIST_HEAD(r, h) \in Memory
        /\ Rings(INIT_LIST_HEAD(r, h), to, ks \union {h})
    <2> HIDE DEF r, ks
    <2>1. ks \in SUBSET Heads /\ h \in Heads /\ h \notin ks
      BY <1>1 DEF ks
    <2> QED BY <1>2, <1>3, <2>1, InitRings
  <1>5. ks \union {h} = ls \union {l}
    OBVIOUS
  <1> QED BY <1>4, <1>5 DEF list_replace_init

IInv == ListTypeOK /\ RingInv /\ WalkInv

(* The place of every node, and RingInv by them.                           *)
LEMMA PlacesOf ==
  ASSUME ListTypeOK
  PROVE  /\ mem \in Memory /\ lists \in SUBSET Heads /\ NULL \notin lists
         /\ At \in Places
         /\ \A h \in Heads : At[h] = h
         /\ \A e \in Entry : At[e] = owner[e] /\ e \notin Heads
         /\ walk # NULL => walk.list \in Local /\ walk.list \in Heads
         /\ RingInv <=> Rings(mem, At, lists)
  <1>1. walk # NULL => walk.list \in Local /\ walk.list \in Heads
    BY DEF ListTypeOK, Heads, Walk
  <1>2. \A e \in Entry : owner[e] \in Heads \union {NULL} /\ e \notin Heads
    BY <1>1, ListAssumption DEF ListTypeOK
  <1>3. At \in Places
    BY <1>2 DEF At, Places, Where, Node
  <1>4. /\ mem \in Memory /\ lists \in SUBSET Heads /\ NULL \notin lists
    <2>1. mem \in Memory /\ lists \in SUBSET Heads
      BY DEF ListTypeOK, Memory
    <2> QED BY <2>1, ListAssumption DEF Node
  <1>5. /\ \A h \in Heads : At[h] = h
        /\ \A e \in Entry : At[e] = owner[e]
    BY <1>2 DEF At, Where, Node
  <1>6. RingInv <=> Rings(mem, At, lists)
    BY DEF RingInv, Rings, At
  <1> QED BY <1>1, <1>2, <1>3, <1>4, <1>5, <1>6

(* What a call outside a traversal has to show.                            *)
LEMMA Rest ==
  ASSUME walk' = NULL,
         mem' \in Memory, lists' \in SUBSET Heads,
         owner' \in [Entry -> lists' \union {NULL}],
         NEW to \in Places,
         \A h \in Heads : to[h] = h, \A e \in Entry : to[e] = owner'[e],
         Rings(mem', to, lists')
  PROVE  IInv'
  <1>1. ListTypeOK'
    BY DEF ListTypeOK, Memory
  <1>2. RingInv'
    BY ListAssumption DEF RingInv, Rings, Where, Node
  <1>3. WalkInv'
    BY DEF WalkInv
  <1> QED BY <1>1, <1>2, <1>3 DEF IInv

LEMMA InitIInv == Init => IInv
  <1> SUFFICES ASSUME Init PROVE IInv
    OBVIOUS
  <1>1. ListTypeOK
    <2>1. mem \in [next : [Node -> Pointer], prev : [Node -> Pointer]]
      BY DEF Init, Pointer
    <2> QED BY <2>1 DEF Init, ListTypeOK, Heads
  <1>2. RingInv
    BY ListAssumption DEF Init, RingInv, Where, Node, Heads
  <1>3. WalkInv
    BY DEF Init, WalkInv
  <1> QED BY <1>1, <1>2, <1>3 DEF IInv

(* Adding an entry that is on no list, at either end.                      *)
LEMMA AddStep ==
  ASSUME IInv, NEW e \in Entry, NEW h \in Heads,
         AddFirst(e, h) \/ AddLast(e, h)
  PROVE  IInv'
  <1> DEFINE to == [At EXCEPT ![e] = h]
  <1>1. /\ walk = NULL /\ walk' = NULL /\ owner[e] = NULL /\ h \in lists
        /\ lists' = lists /\ owner' = [x \in Entry |-> IF x = e THEN h ELSE owner[x]]
        /\ \/ mem' = list_add(mem, e, h) \/ mem' = list_add_tail(mem, e, h)
    BY DEF AddFirst, AddLast, Free, Given
  <1>2. e \in Node /\ At[e] \notin lists
    BY <1>1, PlacesOf DEF IInv, Node
  <1>3. mem' \in Memory /\ Rings(mem', to, lists)
    BY <1>1, <1>2, PlacesOf, AddHeadRings, AddTailRings DEF IInv
  <1>4. to \in Places /\ (\A k \in Heads : to[k] = k) /\ (\A x \in Entry : to[x] = owner'[x])
    BY <1>1, <1>2, PlacesOf DEF IInv, Places, Node
  <1>5. owner' \in [Entry -> lists' \union {NULL}]
    BY <1>1 DEF IInv, ListTypeOK
  <1> QED BY <1>1, <1>3, <1>4, <1>5, PlacesOf, Rest DEF IInv

(* Taking an entry out of its list, whatever becomes of its pointers.      *)
LEMMA RemoveStep ==
  ASSUME IInv, NEW e \in Entry, walk = NULL, owner[e] \in lists,
         mem' \in Memory,
         \A x \in Node : x # e => mem'.next[x] = Unlinked(mem, e).next[x]
                               /\ mem'.prev[x] = Unlinked(mem, e).prev[x],
         owner' = Given({e}, NULL), lists' = lists, walk' = walk
  PROVE  IInv'
  <1> DEFINE to == [At EXCEPT ![e] = NULL]
  <1>1. e \in Node /\ At[e] \in lists /\ At[e] # e
    BY PlacesOf DEF IInv, Node
  <1>2. owner' = [x \in Entry |-> IF x = e THEN NULL ELSE owner[x]]
    BY DEF Given
  <1>3. to \in Places /\ (\A k \in Heads : to[k] = k) /\ (\A x \in Entry : to[x] = owner'[x])
    BY <1>1, <1>2, PlacesOf DEF IInv, Places, Node
  <1>4. to[e] \notin lists /\ \A x \in Node : x # e => to[x] = At[x]
    BY <1>1, PlacesOf DEF IInv, Places
  <1>5. Rings(mem', to, lists)
    <2> HIDE DEF to
    <2> QED BY <1>1, <1>3, <1>4, PlacesOf, DelRings DEF IInv
  <1>6. owner' \in [Entry -> lists' \union {NULL}]
    BY <1>2 DEF IInv, ListTypeOK
  <1> QED BY <1>3, <1>5, <1>6, PlacesOf, Rest DEF IInv

(* The neighbours of an entry on a list are nodes.                         *)
LEMMA Neighbours ==
  ASSUME IInv, NEW e \in Entry, owner[e] \in lists
  PROVE  /\ mem.next[e] \in Node /\ mem.prev[e] \in Node
         /\ Unlinked(mem, e) \in Memory
  <1>1. e \in Node /\ At[e] \in lists
    BY PlacesOf DEF IInv, Node
  <1>2. mem.next[e] \in Node /\ mem.prev[e] \in Node
    BY <1>1, PlacesOf DEF IInv, Rings
  <1> QED BY <1>1, <1>2, PlacesOf DEF IInv, Unlinked, __list_del, Memory, Pointer

(* What list_del and list_del_init do to the other nodes.                  *)
LEMMA DeleteShape ==
  ASSUME IInv, NEW e \in Entry, Delete(e) \/ DeleteInit(e)
  PROVE  /\ walk = NULL /\ owner[e] \in lists /\ mem' \in Memory
         /\ \A x \in Node : x # e => mem'.next[x] = Unlinked(mem, e).next[x]
                                  /\ mem'.prev[x] = Unlinked(mem, e).prev[x]
         /\ owner' = Given({e}, NULL) /\ lists' = lists /\ walk' = walk
  <1>1. /\ walk = NULL /\ owner[e] \in lists /\ e \in Node
        /\ owner' = Given({e}, NULL) /\ lists' = lists /\ walk' = walk
        /\ mem' = list_del(mem, e) \/ mem' = list_del_init(mem, e)
    BY DEF Delete, DeleteInit, Linked, Node
  <1> DEFINE u == Unlinked(mem, e)
  <1>2. u \in Memory
    BY <1>1, Neighbours
  <1>3. /\ mem' \in Memory
        /\ \A x \in Node : x # e => mem'.next[x] = u.next[x] /\ mem'.prev[x] = u.prev[x]
    <2> HIDE DEF u
    <2>1. CASE mem' = [next |-> [u.next EXCEPT ![e] = POISON],
                       prev |-> [u.prev EXCEPT ![e] = POISON]]
      BY <1>1, <1>2, <2>1 DEF Memory, Pointer
    <2>2. CASE mem' = [next |-> [u.next EXCEPT ![e] = e],
                       prev |-> [u.prev EXCEPT ![e] = e]]
      BY <1>1, <1>2, <2>2 DEF Memory, Pointer
    <2> QED BY <1>1, <2>1, <2>2 DEF list_del, list_del_init, INIT_LIST_HEAD, u
  <1> QED BY <1>1, <1>3

LEMMA DeleteStep ==
  ASSUME IInv, NEW e \in Entry, Delete(e) \/ DeleteInit(e)
  PROVE  IInv'
  BY DeleteShape, RemoveStep

(* The first entry of a list that is not empty is pending, and taken out.  *)
LEMMA RemoveFirstShape ==
  ASSUME IInv, NEW h \in Heads, RemoveFirst(h)
  PROVE  \E e \in Entry :
           /\ walk = NULL /\ owner[e] \in lists /\ mem' \in Memory
           /\ \A x \in Node : x # e => mem'.next[x] = Unlinked(mem, e).next[x]
                                    /\ mem'.prev[x] = Unlinked(mem, e).prev[x]
           /\ owner' = Given({e}, NULL) /\ lists' = lists /\ walk' = walk
  <1> DEFINE e == mem.next[h]
             u == Unlinked(mem, e)
  <1>1. /\ walk = NULL /\ h \in lists /\ e # h /\ mem' = Removed(mem, e)
        /\ owner' = Given({e}, NULL) /\ lists' = lists /\ walk' = walk
    BY DEF RemoveFirst, list_empty
  <1>2. h \in Node /\ At[h] = h /\ At[e] = h /\ e \in Node
    BY <1>1, PlacesOf DEF IInv, Rings, Node
  <1>3. e \in Entry /\ owner[e] \in lists
    BY <1>1, <1>2, PlacesOf DEF IInv, Node
  <1>4. u \in Memory /\ mem.next[e] \in Node
    BY <1>3, Neighbours
  <1>5. TimerPending(e)
    BY <1>4, ListAssumption DEF TimerPending
  <1>6. mem' = [next |-> [[u.next EXCEPT ![e] = POISON] EXCEPT ![e] = NULL],
                prev |-> [[u.prev EXCEPT ![e] = POISON] EXCEPT ![e] = NULL]]
    BY <1>1, <1>5 DEF Removed, list_del
  <1>7. /\ mem' \in Memory
        /\ \A x \in Node : x # e => mem'.next[x] = u.next[x] /\ mem'.prev[x] = u.prev[x]
    <2> HIDE DEF u
    <2> QED BY <1>2, <1>4, <1>6 DEF Memory, Pointer
  <1> QED BY <1>1, <1>3, <1>7

LEMMA RemoveFirstStep ==
  ASSUME IInv, NEW h \in Heads, RemoveFirst(h)
  PROVE  IInv'
  <1>1. PICK e \in Entry :
           /\ walk = NULL /\ owner[e] \in lists /\ mem' \in Memory
           /\ \A x \in Node : x # e => mem'.next[x] = Unlinked(mem, e).next[x]
                                    /\ mem'.prev[x] = Unlinked(mem, e).prev[x]
           /\ owner' = Given({e}, NULL) /\ lists' = lists /\ walk' = walk
    BY RemoveFirstShape
  <1> QED BY <1>1, RemoveStep

(* Taking an entry out of its list and adding it to one, perhaps the same. *)
LEMMA MoveStep ==
  ASSUME IInv, NEW e \in Entry, NEW h \in Heads, Move(e, h) \/ MoveTail(e, h)
  PROVE  IInv'
  <1> DEFINE u == Unlinked(mem, e)
             off == [At EXCEPT ![e] = NULL]
             to == [off EXCEPT ![e] = h]
  <1>1. /\ walk = NULL /\ walk' = NULL /\ owner[e] \in lists /\ h \in lists
        /\ lists' = lists /\ owner' = [x \in Entry |-> IF x = e THEN h ELSE owner[x]]
        /\ mem' = list_add(u, e, h) \/ mem' = list_add_tail(u, e, h)
    BY DEF Move, MoveTail, Linked, Given, list_move, list_move_tail
  <1>2. e \in Node /\ At[e] \in lists /\ At[e] # e /\ e # h
    BY <1>1, PlacesOf DEF IInv, Node
  <1>3. u \in Memory
    BY <1>1, Neighbours
  <1>4. /\ off \in Places /\ off[e] = NULL /\ off[h] = h
        /\ \A x \in Node : x # e => off[x] = At[x]
    BY <1>2, PlacesOf DEF IInv, Places, Node
  <1>5. Rings(u, off, lists)
    <2> HIDE DEF u, off
    <2>1. \A x \in Node : x # e => u.next[x] = Unlinked(mem, e).next[x]
                                /\ u.prev[x] = Unlinked(mem, e).prev[x]
      BY DEF u
    <2> QED BY <1>2, <1>3, <1>4, <2>1, PlacesOf, DelRings DEF IInv
  <1>6. mem' \in Memory /\ Rings(mem', to, lists)
    <2> HIDE DEF u, off
    <2>1. off[e] \notin lists
      BY <1>4, PlacesOf DEF IInv
    <2> QED BY <1>1, <1>2, <1>3, <1>4, <1>5, <2>1, PlacesOf, AddHeadRings, AddTailRings DEF IInv
  <1>7. to \in Places /\ (\A k \in Heads : to[k] = k) /\ (\A x \in Entry : to[x] = owner'[x])
    BY <1>1, <1>2, PlacesOf DEF IInv, Places, Node
  <1>8. owner' \in [Entry -> lists' \union {NULL}]
    BY <1>1 DEF IInv, ListTypeOK
  <1> QED BY <1>1, <1>6, <1>7, <1>8, PlacesOf, Rest DEF IInv

(* A head that is no list is the place of no entry, outside a traversal.   *)
LEMMA Unowned ==
  ASSUME IInv, walk = NULL, NEW l \in Heads, l \notin lists
  PROVE  /\ \A x \in Entry : owner[x] # l
         /\ \A x \in Node : x # l => At[x] # l
  <1>1. \A x \in Entry : owner[x] # l
    <2>1. l # NULL
      BY ListAssumption DEF Node
    <2> QED BY <2>1 DEF IInv, ListTypeOK
  <1> QED BY <1>1, PlacesOf DEF IInv, Node

LEMMA InitHeadStep ==
  ASSUME IInv, NEW l \in Local, InitHead(l)
  PROVE  IInv'
  <1>1. /\ walk = NULL /\ walk' = NULL /\ l \in Heads /\ l \notin lists
        /\ mem' = INIT_LIST_HEAD(mem, l) /\ lists' = lists \union {l} /\ owner' = owner
    BY DEF InitHead, Heads
  <1>2. At[l] = l /\ \A x \in Node : At[x] = l => x = l
    BY <1>1, PlacesOf, Unowned DEF IInv
  <1>3. mem' \in Memory /\ Rings(mem', At, lists')
    BY <1>1, <1>2, PlacesOf, InitRings DEF IInv
  <1>4. lists' \in SUBSET Heads /\ owner' \in [Entry -> lists' \union {NULL}]
    BY <1>1, PlacesOf DEF IInv, ListTypeOK
  <1>5. At \in Places /\ (\A h \in Heads : At[h] = h) /\ (\A e \in Entry : At[e] = owner'[e])
    BY <1>1, PlacesOf DEF IInv
  <1> DEFINE to == At
  <1> HIDE DEF to
  <1>6. Rings(mem', to, lists') /\ to \in Places
        /\ (\A h \in Heads : to[h] = h) /\ (\A e \in Entry : to[e] = owner'[e])
    BY <1>3, <1>5 DEF to
  <1> QED BY <1>1, <1>3, <1>4, <1>6, Rest

(* A head l that is no list any more, nor anything that it did not reach.  *)
LEMMA GoneStep ==
  ASSUME IInv, NEW l \in Local, walk = NULL \/ walk.list = l,
         mem' = Gone(mem, l), lists' = lists \ {l},
         owner' = Given(Owned(l), NULL), walk' = NULL
  PROVE  IInv'
  <1> DEFINE to == [x \in Node |-> IF x \in Heads THEN x ELSE owner'[x]]
  <1>1. l \in Heads /\ l \in Node
    BY DEF Heads, Node
  <1>2. owner' = [x \in Entry |-> IF owner[x] = l THEN NULL ELSE owner[x]]
    BY DEF Given, Owned
  <1>3. owner' \in [Entry -> lists' \union {NULL}]
    BY <1>2 DEF IInv, ListTypeOK
  <1>4. lists' \in SUBSET Heads /\ lists' \in SUBSET lists
    BY PlacesOf DEF IInv
  <1>5. /\ to \in Places /\ (\A h \in Heads : to[h] = h) /\ (\A e \in Entry : to[e] = owner'[e])
        /\ \A x \in Node : to[x] = IF x \in Heads THEN x ELSE owner'[x]
    BY <1>3, <1>4, PlacesOf DEF IInv, Places, Node
  <1>6. \A x \in Node : to[x] # At[x] => At[x] \notin lists' /\ to[x] \notin lists'
    BY <1>2, <1>4, <1>5, PlacesOf DEF IInv, Node
  <1>7. Rings(mem, to, lists')
    <2> HIDE DEF to
    <2> QED BY <1>4, <1>5, <1>6, PlacesOf, FewerRings DEF IInv
  <1>8. /\ mem' \in Memory
        /\ \A x \in Node : x # l => mem'.next[x] = mem.next[x] /\ mem'.prev[x] = mem.prev[x]
    BY <1>1, PlacesOf DEF IInv, Gone, Memory, Pointer
  <1>9. Rings(mem', to, lists')
    <2> HIDE DEF to
    <2>1. to[l] \notin lists'
      BY <1>1, <1>5
    <2> QED BY <1>1, <1>4, <1>5, <1>7, <1>8, <2>1, PlacesOf, OffListRings DEF IInv
  <1> HIDE DEF to
  <1> QED BY <1>3, <1>4, <1>5, <1>8, <1>9, Rest

LEMMA ReplaceStep ==
  ASSUME IInv, NEW e \in Entry, NEW f \in Entry, Replace(e, f)
  PROVE  IInv'
  <1> DEFINE k == owner[e]
             to == [[At EXCEPT ![f] = k] EXCEPT ![e] = NULL]
             r == list_replace(mem, e, f)
  <1>1. /\ walk = NULL /\ walk' = NULL /\ k \in lists /\ owner[f] = NULL
        /\ mem' = INIT_LIST_HEAD(r, e) /\ lists' = lists
        /\ owner' = [owner EXCEPT ![f] = k, ![e] = NULL]
    BY DEF Replace, Linked, Free, list_replace_init
  <1>2. /\ e \in Node /\ f \in Node /\ At[e] = k /\ At[f] = NULL /\ e # f
        /\ k \in Heads /\ NULL \notin lists /\ k # NULL
    BY <1>1, PlacesOf DEF IInv, Node
  <1>3. /\ to \in Places /\ to[f] = k /\ to[e] = NULL
        /\ \A x \in Node : x # e /\ x # f => to[x] = At[x]
    BY <1>1, <1>2, PlacesOf DEF IInv, Places
  <1>4. (\A h \in Heads : to[h] = h) /\ (\A x \in Entry : to[x] = owner'[x])
    <2>1. owner \in [Entry -> lists \union {NULL}]
      BY <1>1 DEF IInv, ListTypeOK
    <2> QED BY <1>1, <1>2, <1>3, <2>1, PlacesOf DEF IInv, Node
  <1>5. r \in Memory /\ Rings(r, to, lists)
    <2> HIDE DEF to, k
    <2>1. /\ \A x \in Node : x # e /\ x # f /\ At[x] # At[e] => to[x] = At[x]
          /\ \A x \in Node : x # e /\ x # f /\ At[x] = At[e] => to[x] = k
          /\ \A x \in Node : x # f => At[x] # k \/ k = At[e]
      BY <1>2, <1>3
    <2>2. lists \in SUBSET Heads /\ lists \subseteq lists \union {k} /\ k \in Heads \union {NULL}
      BY <1>2, PlacesOf DEF IInv
    <2> QED BY <1>1, <1>2, <1>3, <2>1, <2>2, PlacesOf, ReplaceRings DEF IInv
  <1>6. /\ mem' \in Memory
        /\ \A x \in Node : x # e => mem'.next[x] = r.next[x] /\ mem'.prev[x] = r.prev[x]
    <2> HIDE DEF r
    <2> QED BY <1>1, <1>2, <1>5 DEF INIT_LIST_HEAD, Memory, Pointer
  <1>7. Rings(mem', to, lists)
    <2> HIDE DEF to, r
    <2> QED BY <1>2, <1>3, <1>5, <1>6, PlacesOf, OffListRings DEF IInv
  <1>8. owner' \in [Entry -> lists' \union {NULL}]
    BY <1>1 DEF IInv, ListTypeOK
  <1> HIDE DEF to
  <1> QED BY <1>1, <1>3, <1>4, <1>6, <1>7, <1>8, PlacesOf, Rest DEF IInv

(* The places after the entries of h are given to l, and the rings then.   *)
LEMMA DetachedRings ==
  ASSUME IInv, walk = NULL, NEW h \in lists, NEW l \in Local \ lists,
         mem' = list_replace_init(mem, h, l), owner' = Given(Owned(h), l),
         NEW to, to = [x \in Node |-> IF x \in Heads THEN x ELSE owner'[x]]
  PROVE  /\ mem' \in Memory /\ Rings(mem', to, lists \union {l})
         /\ to \in Places
         /\ \A k \in Heads : to[k] = k
         /\ \A e \in Entry : to[e] = owner'[e]
         /\ owner' = [x \in Entry |-> IF owner[x] = h THEN l ELSE owner[x]]
         /\ owner' \in [Entry -> lists \union {l, NULL}]
  <1>1. l \in Heads /\ l \in Node /\ h \in Heads /\ h \in Node /\ h # l
    BY PlacesOf DEF IInv, Heads, Node
  <1>2. owner' = [x \in Entry |-> IF owner[x] = h THEN l ELSE owner[x]]
    BY DEF Given, Owned
  <1>3. owner' \in [Entry -> lists \union {l, NULL}]
    BY <1>2 DEF IInv, ListTypeOK
  <1>4. to \in Places /\ (\A k \in Heads : to[k] = k) /\ (\A e \in Entry : to[e] = owner'[e])
    BY <1>1, <1>3, PlacesOf DEF IInv, Places, Node
  <1>5. At[h] = h /\ At[l] = l /\ to[h] = h
        /\ (\A x \in Node : x # l => At[x] # l)
    BY <1>1, <1>4, PlacesOf, Unowned DEF IInv
  <1>6. \A x \in Node : x # h => to[x] = IF At[x] = h THEN l ELSE At[x]
    <2> SUFFICES ASSUME NEW x \in Node, x # h
                 PROVE  to[x] = IF At[x] = h THEN l ELSE At[x]
      OBVIOUS
    <2>1. CASE x \in Heads
      BY <1>4, <2>1, PlacesOf DEF IInv
    <2>2. CASE x \in Entry
      BY <1>2, <1>4, <2>2, PlacesOf DEF IInv
    <2> QED BY <2>1, <2>2 DEF Node
  <1>7. mem' \in Memory /\ Rings(mem', to, lists \union {l})
    BY <1>1, <1>4, <1>5, <1>6, PlacesOf, ReplaceInitRings DEF IInv
  <1> QED BY <1>2, <1>3, <1>4, <1>7

LEMMA ReplaceInitStep ==
  ASSUME IInv, NEW h \in Heads, NEW l \in Heads, ReplaceInit(h, l)
  PROVE  IInv'
  <1>1. /\ walk = NULL /\ walk' = NULL /\ h \in lists /\ l \in Local \ lists
        /\ mem' = list_replace_init(mem, h, l) /\ lists' = lists \union {l}
        /\ owner' = Given(Owned(h), l)
    BY DEF ReplaceInit
  <1> DEFINE to == [x \in Node |-> IF x \in Heads THEN x ELSE owner'[x]]
  <1> HIDE DEF to
  <1>2. /\ mem' \in Memory /\ Rings(mem', to, lists \union {l}) /\ to \in Places
        /\ \A k \in Heads : to[k] = k
        /\ \A e \in Entry : to[e] = owner'[e]
        /\ owner' \in [Entry -> lists \union {l, NULL}]
    BY <1>1, DetachedRings DEF to
  <1>3. lists' \in SUBSET Heads /\ owner' \in [Entry -> lists' \union {NULL}]
    BY <1>1, <1>2, PlacesOf DEF IInv
  <1> QED BY <1>1, <1>2, <1>3, Rest

(* The places after the entries of l are given to h.                       *)
LEMMA JoinedPlaces ==
  ASSUME IInv, NEW l \in Heads, NEW h \in Heads, Joined(l, h),
         NEW to, to = [x \in Node |-> IF x \in Heads THEN x ELSE owner'[x]]
  PROVE  /\ walk = NULL /\ walk' = NULL /\ l \in lists /\ h \in lists /\ l # h
         /\ At[l] = l /\ At[h] = h /\ l \in Node /\ h \in Node
         /\ to \in Places /\ (\A k \in Heads : to[k] = k) /\ (\A e \in Entry : to[e] = owner'[e])
         /\ \A x \in Node : x # l => to[x] = IF At[x] = l THEN h ELSE At[x]
         /\ owner' \in [Entry -> (lists \ {l}) \union {NULL}]
  <1>1. /\ walk = NULL /\ walk' = NULL /\ l \in lists /\ h \in lists /\ l # h
        /\ owner' = [x \in Entry |-> IF owner[x] = l THEN h ELSE owner[x]]
    BY DEF Joined, Given, Owned
  <1>2. owner' \in [Entry -> (lists \ {l}) \union {NULL}]
    BY <1>1 DEF IInv, ListTypeOK
  <1>3. to \in Places /\ (\A k \in Heads : to[k] = k) /\ (\A e \in Entry : to[e] = owner'[e])
    BY <1>2, PlacesOf DEF IInv, Places, Node
  <1>4. \A x \in Node : x # l => to[x] = IF At[x] = l THEN h ELSE At[x]
    <2> SUFFICES ASSUME NEW x \in Node, x # l
                 PROVE  to[x] = IF At[x] = l THEN h ELSE At[x]
      OBVIOUS
    <2>1. CASE x \in Heads
      BY <1>3, <2>1, PlacesOf DEF IInv
    <2>2. CASE x \in Entry
      BY <1>1, <1>3, <2>2, PlacesOf DEF IInv
    <2> QED BY <2>1, <2>2 DEF Node
  <1> QED BY <1>1, <1>2, <1>3, <1>4, PlacesOf DEF IInv, Node

(* The memory after list_splice or list_splice_tail.                       *)
LEMMA SplicedRings ==
  ASSUME IInv, NEW l \in Heads, NEW h \in Heads, Joined(l, h),
         NEW to, to = [x \in Node |-> IF x \in Heads THEN x ELSE owner'[x]],
         NEW r, r = list_splice(mem, l, h) \/ r = list_splice_tail(mem, l, h)
  PROVE  /\ r \in Memory /\ Rings(r, to, lists \ {l})
         /\ list_empty(mem, l) => r = mem /\ Rings(r, to, lists)
  <1>1. /\ l \in lists /\ h \in lists /\ l # h /\ At[l] = l /\ At[h] = h
        /\ l \in Node /\ h \in Node
        /\ to \in Places /\ to[l] = l
        /\ \A x \in Node : x # l => to[x] = IF At[x] = l THEN h ELSE At[x]
    BY JoinedPlaces
  <1>2. CASE list_empty(mem, l)
    <2>1. r = mem
      BY <1>2 DEF list_splice, list_splice_tail
    <2>2. Rings(mem, to, lists)
      BY <1>1, <1>2, PlacesOf, SpliceEmptyRings DEF IInv, list_empty
    <2>3. Rings(mem, to, lists \ {l})
      BY <2>2 DEF Rings
    <2> QED BY <2>1, <2>2, <2>3, PlacesOf DEF IInv
  <1>3. CASE ~list_empty(mem, l)
    <2>1. mem.prev[h] \in Node /\ At[mem.prev[h]] = h /\ mem.next[mem.prev[h]] = h
      BY <1>1, PlacesOf DEF IInv, Rings
    <2>2. PICK p \in Node : At[p] = h /\ r = __list_splice(mem, l, p, mem.next[p])
      <3>1. CASE r = list_splice(mem, l, h)
        BY <1>1, <1>3, <3>1 DEF list_splice
      <3>2. CASE r = list_splice_tail(mem, l, h)
        BY <1>3, <2>1, <3>2 DEF list_splice_tail
      <3> QED BY <3>1, <3>2
    <2>3. mem.next[l] # l
      BY <1>3 DEF list_empty
    <2>4. mem \in Memory /\ At \in Places /\ lists \in SUBSET Heads /\ Rings(mem, At, lists)
      BY PlacesOf DEF IInv
    <2>5. /\ __list_splice(mem, l, p, mem.next[p]) \in Memory
          /\ Rings(__list_splice(mem, l, p, mem.next[p]), to, lists \ {l})
      BY <1>1, <2>2, <2>3, <2>4, SpliceRings
    <2> QED BY <1>3, <2>2, <2>5
  <1> QED BY <1>2, <1>3

LEMMA SpliceStep ==
  ASSUME IInv, NEW l \in Heads, NEW h \in Heads, Splice(l, h) \/ SpliceTail(l, h)
  PROVE  IInv'
  <1>1. PICK r : /\ Joined(l, h) /\ l \in Local
                 /\ r = list_splice(mem, l, h) \/ r = list_splice_tail(mem, l, h)
                 /\ mem' = Gone(r, l) /\ lists' = lists \ {l}
    BY DEF Splice, SpliceTail
  <1> DEFINE to == [x \in Node |-> IF x \in Heads THEN x ELSE owner'[x]]
  <1> HIDE DEF to
  <1>2. /\ walk' = NULL /\ l \in Node
        /\ to \in Places /\ (\A k \in Heads : to[k] = k) /\ (\A e \in Entry : to[e] = owner'[e])
        /\ owner' \in [Entry -> (lists \ {l}) \union {NULL}]
    BY <1>1, JoinedPlaces DEF to
  <1>3. r \in Memory /\ Rings(r, to, lists')
    BY <1>1, SplicedRings DEF to
  <1>4. /\ mem' \in Memory
        /\ \A x \in Node : x # l => mem'.next[x] = r.next[x] /\ mem'.prev[x] = r.prev[x]
    BY <1>1, <1>2, <1>3 DEF Gone, Memory, Pointer
  <1>5. lists' \in SUBSET Heads /\ to[l] \notin lists'
    BY <1>1, <1>2, PlacesOf DEF IInv
  <1>6. Rings(mem', to, lists')
    BY <1>2, <1>3, <1>4, <1>5, OffListRings
  <1> QED BY <1>1, <1>2, <1>4, <1>5, <1>6, Rest

LEMMA SpliceInitStep ==
  ASSUME IInv, NEW l \in Heads, NEW h \in Heads, SpliceInit(l, h) \/ SpliceTailInit(l, h)
  PROVE  IInv'
  <1>1. PICK r : /\ Joined(l, h) /\ lists' = lists
                 /\ r = list_splice(mem, l, h) \/ r = list_splice_tail(mem, l, h)
                 /\ mem' = IF list_empty(mem, l) THEN mem ELSE INIT_LIST_HEAD(r, l)
    BY DEF SpliceInit, SpliceTailInit, list_splice_init, list_splice_tail_init
  <1> DEFINE to == [x \in Node |-> IF x \in Heads THEN x ELSE owner'[x]]
  <1> HIDE DEF to
  <1>2. /\ walk' = NULL /\ l \in lists
        /\ to \in Places /\ (\A k \in Heads : to[k] = k) /\ (\A e \in Entry : to[e] = owner'[e])
        /\ owner' \in [Entry -> (lists \ {l}) \union {NULL}]
    BY <1>1, JoinedPlaces DEF to
  <1>3. /\ r \in Memory /\ Rings(r, to, lists \ {l})
        /\ list_empty(mem, l) => r = mem /\ Rings(r, to, lists)
    BY <1>1, SplicedRings DEF to
  <1>4. \A x \in Node : to[x] = l => x = l
    BY <1>2, PlacesOf, ListAssumption DEF IInv, Node
  <1>5. mem' \in Memory /\ Rings(mem', to, lists)
    <2>1. CASE list_empty(mem, l)
      BY <1>1, <1>3, <2>1
    <2>2. CASE ~list_empty(mem, l)
      <3> DEFINE ks == lists \ {l}
      <3>1. ks \in SUBSET Heads /\ l \notin ks /\ ks \union {l} = lists
        BY <1>2, PlacesOf DEF IInv
      <3> HIDE DEF ks
      <3>2. Rings(r, to, ks)
        BY <1>3 DEF ks
      <3>3. INIT_LIST_HEAD(r, l) \in Memory /\ Rings(INIT_LIST_HEAD(r, l), to, ks \union {l})
        BY <1>2, <1>3, <1>4, <3>1, <3>2, InitRings
      <3> QED BY <1>1, <2>2, <3>1, <3>3
    <2> QED BY <2>1, <2>2
  <1>6. lists' \in SUBSET Heads /\ owner' \in [Entry -> lists' \union {NULL}]
    BY <1>1, <1>2, PlacesOf DEF IInv
  <1> QED BY <1>1, <1>2, <1>5, <1>6, Rest

LEMMA CutStep ==
  ASSUME IInv, NEW l \in Heads, NEW h \in Heads, NEW e \in Entry \union {h}, Cut(l, h, e)
  PROVE  IInv'
  <1>1. /\ walk = NULL /\ walk' = NULL /\ l \in lists /\ h \in lists /\ l # h
        /\ mem.next[l] = l /\ mem' = list_cut_position(mem, l, h, e) /\ lists' = lists
    BY DEF Cut, list_empty
  <1>2. /\ l \in Node /\ h \in Node /\ e \in Node /\ At[l] = l /\ At[h] = h
        /\ mem.prev[l] = l
    BY <1>1, PlacesOf DEF IInv, Rings, Node
  <1>3. CASE CutLeavesAlone(mem, h, e) \/ e = h
    <2>1. owner' = owner
      BY <1>3 DEF Cut
    <2>2. mem' = mem
      <3>1. CASE CutLeavesAlone(mem, h, e)
        BY <1>1, <3>1 DEF list_cut_position
      <3>2. CASE ~CutLeavesAlone(mem, h, e)
        <4>1. mem' = INIT_LIST_HEAD(mem, l)
          BY <1>1, <1>3, <3>2 DEF list_cut_position
        <4> QED BY <1>1, <1>2, <4>1, PlacesOf DEF IInv, INIT_LIST_HEAD, Memory
      <3> QED BY <3>1, <3>2
    <2> QED BY <1>1, <2>1, <2>2 DEF IInv, ListTypeOK, RingInv, WalkInv, Where, Owned
  <1>4. CASE ~CutLeavesAlone(mem, h, e) /\ e # h
    <2>1. PICK front \in SUBSET Owned(h) : IsFront(front, h, e) /\ owner' = Given(front, l)
      BY <1>4 DEF Cut
    <2> DEFINE to == [x \in Node |-> IF x \in front THEN l ELSE At[x]]
    <2>2. /\ front \in SUBSET Node
          /\ \A x \in front : x \in Entry /\ At[x] = h /\ x # h
      BY <1>1, PlacesOf DEF IInv, Owned, Node
    <2>3. /\ mem.next[h] \in front /\ e \in front /\ mem.next[e] \notin front
          /\ \A x \in front : x # e => mem.next[x] \in front
          /\ \A x \in front : x # mem.next[h] => mem.prev[x] \in front
      BY <2>1 DEF IsFront
    <2>4. owner' = [x \in Entry |-> IF x \in front THEN l ELSE owner[x]]
      BY <2>1 DEF Given
    <2>5. to \in Places /\ \A x \in Node : to[x] = IF x \in front THEN l ELSE At[x]
      BY PlacesOf DEF IInv, Places
    <2>6. (\A k \in Heads : to[k] = k) /\ (\A x \in Entry : to[x] = owner'[x])
      BY <2>2, <2>4, <2>5, PlacesOf DEF IInv, Node
    <2>7. mem' = __list_cut_position(mem, l, h, e)
      BY <1>1, <1>4 DEF list_cut_position
    <2>8. mem' \in Memory /\ Rings(mem', to, lists)
      <3> HIDE DEF to
      <3> QED BY <1>1, <1>2, <2>2, <2>3, <2>5, <2>7, PlacesOf, CutRings DEF IInv
    <2>9. owner' \in [Entry -> lists' \union {NULL}]
      BY <1>1, <2>4 DEF IInv, ListTypeOK
    <2> HIDE DEF to
    <2> QED BY <1>1, <2>5, <2>6, <2>8, <2>9, PlacesOf, Rest DEF IInv
  <1> QED BY <1>3, <1>4

LEMMA CascadeBeginStep ==
  ASSUME IInv, NEW h \in Heads, NEW l \in Heads, CascadeBegin(h, l)
  PROVE  IInv'
  <1>1. /\ walk = NULL /\ h \in lists /\ l \in Local \ lists
        /\ mem' = list_replace_init(mem, h, l) /\ lists' = lists
        /\ owner' = Given(Owned(h), l)
        /\ walk' = [list |-> l, pos |-> mem'.next[l], tmp |-> mem'.next[mem'.next[l]]]
    BY DEF CascadeBegin
  <1> DEFINE to == [x \in Node |-> IF x \in Heads THEN x ELSE owner'[x]]
             ks == lists \union {l}
  <1> HIDE DEF to
  <1>2. /\ mem' \in Memory /\ Rings(mem', to, ks) /\ to \in Places
        /\ \A k \in Heads : to[k] = k
        /\ \A e \in Entry : to[e] = owner'[e]
        /\ owner' \in [Entry -> lists \union {l, NULL}]
    BY <1>1, DetachedRings DEF to
  <1>3. /\ l \in Node /\ mem'.next[l] \in Node /\ to[mem'.next[l]] = l
        /\ mem'.next[mem'.next[l]] \in Node
    BY <1>2 DEF Rings, Node
  <1>4. /\ walk' \in Walk /\ walk' # NULL /\ walk'.list = l /\ walk'.pos = mem'.next[l]
        /\ walk'.tmp = mem'.next[walk'.pos]
    <2> DEFINE w == [list |-> l, pos |-> mem'.next[l], tmp |-> mem'.next[mem'.next[l]]]
    <2>1. w \in Walk
      BY <1>1, <1>3 DEF Walk
    <2>2. w # NULL
      BY <2>1, ListAssumption
    <2> QED BY <1>1, <2>1, <2>2
  <1>5. ListTypeOK'
    <2>1. owner' \in [Entry -> lists' \union {NULL, walk'.list}]
      BY <1>1, <1>2, <1>4
    <2> QED BY <1>1, <1>2, <1>4, <2>1 DEF IInv, ListTypeOK, Memory
  <1>6. \A x \in Node : to[x] = Where(x)'
    BY <1>2 DEF Where, Node
  <1>7. RingInv'
    BY <1>1, <1>2, <1>6 DEF RingInv, Rings
  <1>8. \A x \in Owned(l)' :
          /\ x \in Node /\ x # l /\ mem'.next[x] \in Node /\ to[mem'.next[x]] = l
          /\ mem'.prev[mem'.next[x]] = x
    <2> SUFFICES ASSUME NEW x \in Owned(l)'
                 PROVE  /\ x \in Node /\ x # l /\ mem'.next[x] \in Node
                        /\ to[mem'.next[x]] = l /\ mem'.prev[mem'.next[x]] = x
      OBVIOUS
    <2>1. x \in Entry /\ owner'[x] = l /\ x \in Node
      BY DEF Owned, Node
    <2>2. to[x] = l /\ x # l
      BY <1>2, <2>1, ListAssumption
    <2> QED BY <1>2, <1>6, <2>1, <2>2 DEF Rings
  <1>9. mem'.prev[mem'.next[l]] = l
    BY <1>2, <1>3 DEF Rings
  <1>10. WalkInv'
    BY <1>1, <1>3, <1>4, <1>6, <1>8, <1>9 DEF WalkInv
  <1> QED BY <1>5, <1>7, <1>10 DEF IInv

(* What a step of the traversal finds and leaves.                          *)
LEMMA CascadeShape ==
  ASSUME IInv, NEW h \in Heads, CascadeStep(h)
  PROVE  LET e == walk.pos
             l == walk.list
         IN  /\ walk # NULL /\ e \in Entry /\ owner[e] = l /\ l \in Heads /\ l \in Node
             /\ l \notin lists /\ h \in lists /\ lists' = lists
             /\ mem' = list_add_tail(mem, e, h) /\ owner' = Given({e}, h)
             /\ walk' = [walk EXCEPT !.pos = mem.next[e], !.tmp = mem'.next[mem.next[e]]]
             /\ \A x \in Node : x # e /\ At[x] = l => mem'.next[x] = mem.next[x]
             /\ walk' \in Walk /\ walk' # NULL /\ walk'.list = l
             /\ walk'.pos = mem.next[e] /\ walk'.tmp = mem'.next[mem.next[e]]
  <1> DEFINE e == walk.pos
             n == walk.tmp
             l == walk.list
  <1>1. /\ walk # NULL /\ e # l /\ h \in lists
        /\ mem' = list_add_tail(mem, e, h) /\ lists' = lists /\ owner' = Given({e}, h)
        /\ walk' = [walk EXCEPT !.pos = n, !.tmp = mem'.next[n]]
    BY DEF CascadeStep
  <1>2. /\ walk \in Walk /\ l \in Local /\ l \in Heads /\ l \in Node
        /\ e \in Node /\ n \in Node
    BY <1>1, PlacesOf DEF IInv, ListTypeOK, Walk, Node
  <1>3. /\ l \notin lists /\ Where(e) = l /\ n = mem.next[e] /\ mem.next[l] \in Node
        /\ \A x \in Owned(l) : mem.next[x] \in Node /\ Where(mem.next[x]) = l
    BY <1>1 DEF IInv, WalkInv
  <1>4. e \in Entry /\ owner[e] = l /\ e \in Owned(l) /\ At[e] = l
    BY <1>1, <1>2, <1>3, PlacesOf DEF IInv, Where, Node, Owned
  <1>5. mem.prev[h] \in Node /\ At[mem.prev[h]] = h /\ h # l
    BY <1>1, <1>3, PlacesOf DEF IInv, Rings, Node
  <1>6. \A x \in Node : x # e /\ x # mem.prev[h] => mem'.next[x] = mem.next[x]
    BY <1>1, <1>2, <1>4, <1>5, PlacesOf DEF IInv, list_add_tail, __list_add, Memory
  <1>7. \A x \in Node : x # e /\ At[x] = l => mem'.next[x] = mem.next[x]
    BY <1>5, <1>6
  <1>8. walk' \in Walk /\ walk' # NULL /\ walk'.list = l /\ walk'.pos = n /\ walk'.tmp = mem'.next[n]
    <2>1. n = l \/ n \in Owned(l)
      BY <1>2, <1>3, <1>4, PlacesOf DEF IInv, Where, Node, Owned
    <2>2. n # e => mem'.next[n] \in Node
      BY <1>2, <1>3, <1>4, <1>7, <2>1, PlacesOf DEF IInv, Owned, Node
    <2>3. n # e
      BY <1>1, <1>3, <1>4 DEF IInv, WalkInv
    <2>4. walk' \in Walk
      BY <1>1, <1>2, <2>2, <2>3 DEF Walk
    <2> QED BY <1>1, <1>2, <2>4, ListAssumption DEF Walk
  <1> QED BY <1>1, <1>2, <1>3, <1>4, <1>7, <1>8

LEMMA CascadeStepStep ==
  ASSUME IInv, NEW h \in Heads, CascadeStep(h)
  PROVE  IInv'
  <1> DEFINE e == walk.pos
             n == mem.next[e]
             l == walk.list
             to == [At EXCEPT ![e] = h]
  <1>1. /\ walk # NULL /\ e \in Entry /\ owner[e] = l /\ l \in Heads /\ l \in Node
        /\ l \notin lists /\ h \in lists /\ lists' = lists
        /\ mem' = list_add_tail(mem, e, h) /\ owner' = Given({e}, h)
        /\ \A x \in Node : x # e /\ At[x] = l => mem'.next[x] = mem.next[x]
        /\ walk' \in Walk /\ walk' # NULL /\ walk'.list = l
        /\ walk'.pos = n /\ walk'.tmp = mem'.next[n]
    BY CascadeShape
  <1>2. owner' = [x \in Entry |-> IF x = e THEN h ELSE owner[x]]
    BY <1>1 DEF Given
  <1>3. /\ Where(e) = l /\ mem.next[l] \in Node
        /\ \A x \in Owned(l) :
             /\ mem.next[x] \in Node /\ Where(mem.next[x]) = l /\ mem.next[x] # e
             /\ \A y \in Owned(l) : mem.next[x] = mem.next[y] => x = y
    BY <1>1 DEF IInv, WalkInv
  <1>4. e \in Node /\ e \in Owned(l) /\ At[e] = l /\ e # l /\ h # l
    BY <1>1, PlacesOf DEF IInv, Node, Owned
  <1>5. n \in Node /\ Where(n) = l /\ n # e
    BY <1>3, <1>4
  <1>6. mem' \in Memory /\ Rings(mem', to, lists)
    BY <1>1, <1>4, PlacesOf, AddTailRings DEF IInv
  <1>7. /\ to \in Places /\ (\A k \in Heads : to[k] = k) /\ (\A x \in Entry : to[x] = owner'[x])
    BY <1>1, <1>2, <1>4, PlacesOf DEF IInv, Places, Node
  <1>8. \A x \in Node : to[x] = Where(x)'
    BY <1>7 DEF Where, Node
  <1>9. ListTypeOK'
    <2>1. owner' \in [Entry -> lists' \union {NULL, l}]
      BY <1>1, <1>2 DEF IInv, ListTypeOK
    <2> QED BY <1>1, <1>6, <2>1, PlacesOf DEF IInv, ListTypeOK, Memory
  <1>10. RingInv'
    BY <1>1, <1>6, <1>8 DEF RingInv, Rings
  <1>11. \A x \in Owned(l)' : x \in Owned(l) /\ x # e /\ x \in Node /\ At[x] = l
    BY <1>1, <1>2, <1>4, PlacesOf DEF IInv, Owned, Node
  <1>12. \A x \in Owned(l)' :
           /\ mem'.next[x] = mem.next[x] /\ mem.next[x] # n
           /\ mem.next[x] \in Node /\ Where(mem.next[x]) = l /\ mem.next[x] # e
    BY <1>1, <1>3, <1>4, <1>11
  <1>13. \A x \in Node : x # e => Where(x)' = Where(x)
    BY <1>2 DEF Where, Node
  <1>14. mem'.next[l] \in Node
    BY <1>1, <1>3, <1>4, PlacesOf DEF IInv
  <1>15. walk'.pos # walk'.list => walk'.tmp = mem'.next[walk'.pos]
    BY <1>1
  <1>16. WalkInv'
    BY <1>1, <1>3, <1>5, <1>11, <1>12, <1>13, <1>14, <1>15 DEF WalkInv
  <1> QED BY <1>9, <1>10, <1>16 DEF IInv

LEMMA CascadeEndStep ==
  ASSUME IInv, CascadeEnd
  PROVE  IInv'
  <1>1. /\ walk # NULL /\ mem' = Gone(mem, walk.list) /\ walk' = NULL
        /\ owner' = Given(Owned(walk.list), NULL) /\ lists' = lists
    BY DEF CascadeEnd
  <1>2. walk.list \in Local /\ lists = lists \ {walk.list}
    BY <1>1, PlacesOf DEF IInv, WalkInv
  <1> QED BY <1>1, <1>2, GoneStep

LEMMA NextIInv == IInv /\ [Next]_vars => IInv'
  <1> SUFFICES ASSUME IInv, [Next]_vars PROVE IInv'
    OBVIOUS
  <1>1. ASSUME NEW l \in Local, InitHead(l) \/ Return(l)
        PROVE  IInv'
    <2>1. CASE InitHead(l)
      BY <2>1, InitHeadStep
    <2>2. CASE Return(l)
      BY <2>2, GoneStep DEF Return
    <2> QED BY <1>1, <2>1, <2>2
  <1>2. ASSUME NEW h \in Heads, RemoveFirst(h)
        PROVE  IInv'
    BY <1>2, RemoveFirstStep
  <1>3. ASSUME NEW e \in Entry, Delete(e) \/ DeleteInit(e)
        PROVE  IInv'
    BY <1>3, DeleteStep
  <1>4. ASSUME NEW e \in Entry, NEW f \in Entry, Replace(e, f)
        PROVE  IInv'
    BY <1>4, ReplaceStep
  <1>5. ASSUME NEW e \in Entry, NEW h \in Heads,
               AddFirst(e, h) \/ AddLast(e, h) \/ Move(e, h) \/ MoveTail(e, h)
        PROVE  IInv'
    BY <1>5, AddStep, MoveStep
  <1>6. ASSUME NEW l \in Heads, NEW h \in Heads,
               \/ Splice(l, h) \/ SpliceTail(l, h) \/ SpliceInit(l, h) \/ SpliceTailInit(l, h)
               \/ ReplaceInit(h, l) \/ CascadeBegin(h, l)
               \/ \E e \in Entry \union {h} : Cut(l, h, e)
        PROVE  IInv'
    BY <1>6, SpliceStep, SpliceInitStep, ReplaceInitStep, CascadeBeginStep, CutStep
  <1>7. ASSUME NEW h \in Heads, CascadeStep(h)
        PROVE  IInv'
    BY <1>7, CascadeStepStep
  <1>8. CASE CascadeEnd
    BY <1>8, CascadeEndStep
  <1>9. CASE UNCHANGED vars
    BY <1>9 DEF IInv, vars, ListTypeOK, RingInv, WalkInv, Where, Owned
  <1> QED BY <1>1, <1>2, <1>3, <1>4, <1>5, <1>6, <1>7, <1>8, <1>9 DEF Next

(* Every list is a ring closed under next and prev, and what a cascade has *)
(* still to visit hangs together, after every sequence of calls of dmlist.h*)
(* and of the functions of dmtimermodule.cpp that use it.                  *)
THEOREM RingsHold == Spec => [](ListTypeOK /\ RingInv /\ WalkInv)
  <1>1. IInv => ListTypeOK /\ RingInv /\ WalkInv
    BY DEF IInv
  <1> QED BY InitIInv, NextIInv, <1>1, PTL DEF Spec

-----------------------------------------------------------------------------
(* The queues: what the next pointers of a list spell.                     *)

(* Induction over the natural numbers, for a set instead of a predicate:   *)
(* of the numbers that are not in S there is a least one.                  *)
LEMMA SetInduction ==
  ASSUME NEW S, 0 \in S, \A n \in Nat : n \in S => n + 1 \in S
  PROVE  Nat \subseteq S
  <1> DEFINE T == Nat \ S
  <1> SUFFICES ASSUME T # {} PROVE FALSE
    OBVIOUS
  <1>1. PICK x \in T : \A y \in T : ~(<<y, x>> \in OpToRel(<, Nat))
    BY NatLessThanWellFounded, WFMin
  <1>2. \A y \in T : <<y, x>> \in OpToRel(<, Nat) <=> y < x
    BY DEF OpToRel
  <1>3. \A y \in T : ~(y < x)
    BY <1>1, <1>2, Zenon
  <1>4. x # 0 /\ x - 1 \in Nat /\ x - 1 \in S
    BY <1>3
  <1> QED BY <1>4

(* From x the next pointers of m lead through the entries of q to y.       *)
Leads(m, q, x, y) ==
  /\ x = IF q = << >> THEN y ELSE q[1]
  /\ \A i \in 1 .. Len(q) : m.next[q[i]] = IF i = Len(q) THEN y ELSE q[i + 1]

(* They lead through those of S, each once.                                *)
Row(m, q, x, y, S) ==
  /\ q \in Seq(Entry)
  /\ Leads(m, q, x, y)
  /\ \A i, j \in 1 .. Len(q) : q[i] = q[j] => i = j
  /\ S = {q[i] : i \in 1 .. Len(q)}

(* A row is the same in a memory in which its entries have the same        *)
(* successors.                                                             *)
LEMMA RowSame ==
  ASSUME NEW m, NEW r, NEW q, NEW x, NEW y, NEW S, Row(m, q, x, y, S),
         \A e \in S : r.next[e] = m.next[e]
  PROVE  Row(r, q, x, y, S)
  BY DEF Row, Leads

(* An empty row, and a row of one entry.                                   *)
LEMMA RowEmpty ==
  ASSUME NEW m, NEW y
  PROVE  Row(m, << >>, y, y, {})
  BY DEF Row, Leads

LEMMA RowOne ==
  ASSUME NEW m, NEW e \in Entry
  PROVE  Row(m, <<e>>, e, m.next[e], {e})
  BY DEF Row, Leads

(* Where a row begins, and where its entries lead to.                      *)
LEMMA RowEnds ==
  ASSUME NEW m, NEW q, NEW x, NEW y, NEW S, Row(m, q, x, y, S)
  PROVE  /\ S \subseteq Entry
         /\ x \in S \union {y}
         /\ \A e \in S : m.next[e] \in S \union {y}
         /\ S = {} => x = y
         /\ y \notin S => (x = y <=> S = {})
         /\ S = {} <=> q = << >>
  <1>1. q \in Seq(Entry) /\ S = {q[i] : i \in 1 .. Len(q)} /\ Leads(m, q, x, y)
    BY DEF Row
  <1>2. q = << >> <=> Len(q) = 0
    BY <1>1
  <1>3. S = {} <=> q = << >>
    BY <1>1, <1>2
  <1>4. q # << >> => q[1] \in S
    BY <1>1, <1>2
  <1>5. ASSUME NEW e \in S PROVE m.next[e] \in S \union {y}
    <2>1. PICK i \in 1 .. Len(q) : e = q[i]
      BY <1>1
    <2>2. i # Len(q) => i + 1 \in 1 .. Len(q)
      BY <1>1
    <2> QED BY <1>1, <2>1, <2>2 DEF Leads
  <1>6. x = IF q = << >> THEN y ELSE q[1]
    BY <1>1 DEF Leads
  <1>7. S \subseteq Entry
    BY <1>1
  <1>8. S = {} => x = y
    BY <1>3, <1>6
  <1>9. x \in S \union {y} /\ (S # {} => x \in S)
    BY <1>3, <1>4, <1>6
  <1> QED BY <1>3, <1>5, <1>7, <1>8, <1>9

(* Two rows, the second from where the first one leads to.                 *)
LEMMA RowJoin ==
  ASSUME NEW m, NEW p, NEW q, NEW x, NEW y, NEW z, NEW S, NEW T,
         Row(m, p, x, y, S), Row(m, q, y, z, T), S \intersect T = {}
  PROVE  Row(m, p \o q, x, z, S \union T)
  <1> DEFINE r == p \o q
  <1>1. p \in Seq(Entry) /\ q \in Seq(Entry) /\ Len(p) \in Nat /\ Len(q) \in Nat
    BY DEF Row
  <1>2. /\ r \in Seq(Entry) /\ Len(r) = Len(p) + Len(q)
        /\ \A i \in 1 .. Len(r) : r[i] = IF i <= Len(p) THEN p[i] ELSE q[i - Len(p)]
    BY <1>1
  <1> HIDE DEF r
  <1>3. S \union T = {r[i] : i \in 1 .. Len(r)}
    <2>1. ASSUME NEW e \in S PROVE e \in {r[i] : i \in 1 .. Len(r)}
      BY <1>1, <1>2 DEF Row
    <2>2. ASSUME NEW e \in T PROVE e \in {r[i] : i \in 1 .. Len(r)}
      <3>1. PICK j \in 1 .. Len(q) : e = q[j]
        BY DEF Row
      <3>2. j + Len(p) \in 1 .. Len(r) /\ r[j + Len(p)] = q[j]
        BY <1>1, <1>2
      <3> QED BY <3>1, <3>2
    <2>3. ASSUME NEW i \in 1 .. Len(r) PROVE r[i] \in S \union T
      BY <1>1, <1>2 DEF Row
    <2> QED BY <2>1, <2>2, <2>3
  <1>4. ASSUME NEW i \in 1 .. Len(r), NEW j \in 1 .. Len(r), r[i] = r[j]
        PROVE  i = j
    <2>1. \A k \in 1 .. Len(r) :
            /\ k <= Len(p) => k \in 1 .. Len(p) /\ r[k] = p[k] /\ r[k] \in S
            /\ k > Len(p) => k - Len(p) \in 1 .. Len(q) /\ r[k] = q[k - Len(p)] /\ r[k] \in T
      BY <1>1, <1>2 DEF Row
    <2>2. \A a, b \in 1 .. Len(p) : p[a] = p[b] => a = b
      BY DEF Row
    <2>3. \A a, b \in 1 .. Len(q) : q[a] = q[b] => a = b
      BY DEF Row
    <2>4. CASE i <= Len(p) /\ j <= Len(p)
      BY <1>4, <2>1, <2>2, <2>4
    <2>5. CASE i > Len(p) /\ j > Len(p)
      BY <1>1, <1>4, <2>1, <2>3, <2>5
    <2>6. i <= Len(p) <=> j <= Len(p)
      BY <1>1, <1>4, <2>1
    <2> QED BY <1>1, <2>4, <2>5, <2>6
  <1>5. Leads(m, r, x, z)
    <2>1. x = IF r = << >> THEN z ELSE r[1]
      BY <1>1, <1>2 DEF Row, Leads
    <2>2. ASSUME NEW i \in 1 .. Len(r)
          PROVE  m.next[r[i]] = IF i = Len(r) THEN z ELSE r[i + 1]
      <3>1. CASE i < Len(p)
        <4>1. i \in 1 .. Len(p) /\ i + 1 \in 1 .. Len(r) /\ i + 1 <= Len(p) /\ i # Len(r)
          BY <1>1, <1>2, <3>1
        <4>2. r[i] = p[i] /\ r[i + 1] = p[i + 1] /\ m.next[p[i]] = p[i + 1]
          BY <1>1, <1>2, <3>1, <4>1 DEF Row, Leads
        <4> QED BY <4>1, <4>2
      <3>2. CASE i = Len(p)
        <4>1. r[i] = p[i] /\ m.next[p[i]] = y
          BY <1>1, <1>2, <3>2 DEF Row, Leads
        <4>2. y = IF Len(q) = 0 THEN z ELSE q[1]
          BY <1>1 DEF Row, Leads
        <4>3. Len(q) # 0 => r[i + 1] = q[1]
          BY <1>1, <1>2, <3>2
        <4> QED BY <1>1, <1>2, <3>2, <4>1, <4>2, <4>3
      <3>3. CASE i > Len(p)
        <4> DEFINE j == i - Len(p)
        <4>1. j \in 1 .. Len(q) /\ r[i] = q[j] /\ (i = Len(r) <=> j = Len(q))
          BY <1>1, <1>2, <3>3
        <4>2. i # Len(r) => r[i + 1] = q[j + 1]
          BY <1>1, <1>2, <3>3
        <4>3. m.next[q[j]] = IF j = Len(q) THEN z ELSE q[j + 1]
          BY <4>1 DEF Row, Leads
        <4> QED BY <4>1, <4>2, <4>3
      <3> QED BY <1>1, <3>1, <3>2, <3>3
    <2> QED BY <2>1, <2>2 DEF Leads
  <1> QED BY <1>2, <1>3, <1>4, <1>5 DEF Row, r

(* A row up to its i-th entry e, and from the next one on.                 *)
Before(q, i) == {q[j] : j \in 1 .. i - 1}
After(q, i) == {q[j] : j \in i + 1 .. Len(q)}

LEMMA RowSplit ==
  ASSUME NEW m, NEW q, NEW x, NEW y, NEW S, Row(m, q, x, y, S),
         NEW i \in 1 .. Len(q), NEW e, e = q[i]
  PROVE  /\ S = Before(q, i) \union {e} \union After(q, i)
         /\ Before(q, i) \intersect After(q, i) = {}
         /\ e \notin Before(q, i) /\ e \notin After(q, i)
         /\ Row(m, SubSeq(q, 1, i - 1), x, e, Before(q, i))
         /\ Row(m, SubSeq(q, i + 1, Len(q)), m.next[e], y, After(q, i))
  <1> DEFINE p == SubSeq(q, 1, i - 1)
             r == SubSeq(q, i + 1, Len(q))
             A == {q[j] : j \in 1 .. i - 1}
             B == {q[j] : j \in i + 1 .. Len(q)}
  <1>1. /\ q \in Seq(Entry) /\ Len(q) \in Nat /\ i \in Nat
        /\ Leads(m, q, x, y)
        /\ \A j, k \in 1 .. Len(q) : q[j] = q[k] => j = k
        /\ S = {q[j] : j \in 1 .. Len(q)}
    BY DEF Row
  <1>2. /\ p \in Seq(Entry) /\ Len(p) = i - 1
        /\ \A j \in 1 .. i - 1 : p[j] = q[j]
    BY <1>1
  <1>3. /\ r \in Seq(Entry) /\ Len(r) = Len(q) - i
        /\ \A j \in 1 .. Len(q) - i : r[j] = q[i + j]
    BY <1>1
  <1> HIDE DEF p, r
  <1>4. /\ \A j \in 1 .. Len(q) : j < i => q[j] \in A
        /\ \A j \in 1 .. Len(q) : j > i => q[j] \in B
        /\ A \subseteq S /\ B \subseteq S
    BY <1>1
  <1>5. S = A \union {q[i]} \union B
    <2>1. \A j \in 1 .. Len(q) : j < i \/ j = i \/ j > i
      BY <1>1
    <2>2. \A d \in S : d \in A \union {q[i]} \union B
      BY <1>1, <1>4, <2>1
    <2> QED BY <1>1, <1>4, <2>2
  <1>6. A \intersect B = {} /\ q[i] \notin A /\ q[i] \notin B
    BY <1>1
  <1>7. Row(m, p, x, q[i], A)
    <2>1. x = IF p = << >> THEN q[i] ELSE p[1]
      <3>1. p = << >> <=> i = 1
        BY <1>1, <1>2
      <3>2. x = q[1]
        BY <1>1 DEF Leads
      <3> QED BY <1>1, <1>2, <3>1, <3>2
    <2>2. \A j \in 1 .. Len(p) : m.next[p[j]] = IF j = Len(p) THEN q[i] ELSE p[j + 1]
      <3> SUFFICES ASSUME NEW j \in 1 .. Len(p)
                   PROVE  m.next[p[j]] = IF j = Len(p) THEN q[i] ELSE p[j + 1]
        OBVIOUS
      <3>1. /\ j \in 1 .. Len(q) /\ j # Len(q) /\ p[j] = q[j]
            /\ j = Len(p) => j + 1 = i
            /\ j # Len(p) => p[j + 1] = q[j + 1]
        BY <1>1, <1>2
      <3>2. m.next[q[j]] = q[j + 1]
        BY <1>1, <3>1 DEF Leads
      <3> QED BY <3>1, <3>2
    <2>3. \A j, k \in 1 .. Len(p) : p[j] = p[k] => j = k
      BY <1>1, <1>2
    <2>4. A = {p[j] : j \in 1 .. Len(p)}
      BY <1>1, <1>2
    <2> HIDE DEF A
    <2> QED BY <1>2, <2>1, <2>2, <2>3, <2>4 DEF Row, Leads
  <1>8. Row(m, r, m.next[q[i]], y, B)
    <2>1. m.next[q[i]] = IF r = << >> THEN y ELSE r[1]
      <3>1. r = << >> <=> i = Len(q)
        BY <1>1, <1>3
      <3>2. i # Len(q) => r[1] = q[i + 1]
        BY <1>1, <1>3
      <3> QED BY <1>1, <3>1, <3>2 DEF Leads
    <2>2. \A j \in 1 .. Len(r) : m.next[r[j]] = IF j = Len(r) THEN y ELSE r[j + 1]
      <3> SUFFICES ASSUME NEW j \in 1 .. Len(r)
                   PROVE  m.next[r[j]] = IF j = Len(r) THEN y ELSE r[j + 1]
        OBVIOUS
      <3>4. Len(r) = Len(q) - i
        BY <1>3
      <3>5. j \in 1 .. Len(q) - i
        BY <3>4
      <3>1. /\ i + j \in 1 .. Len(q)
            /\ j = Len(r) <=> i + j = Len(q)
            /\ j # Len(r) => j + 1 \in 1 .. Len(q) - i /\ i + (j + 1) = i + j + 1
        BY <1>1, <3>4, <3>5
      <3>6. r[j] = q[i + j]
        BY <1>3, <3>5
      <3>2. m.next[q[i + j]] = IF i + j = Len(q) THEN y ELSE q[i + j + 1]
        BY <1>1, <3>1 DEF Leads
      <3>3. j # Len(r) => r[j + 1] = q[i + j + 1]
        BY <1>3, <3>1
      <3> QED BY <3>1, <3>2, <3>3, <3>6
    <2>3. \A j, k \in 1 .. Len(r) : r[j] = r[k] => j = k
      <3> SUFFICES ASSUME NEW j \in 1 .. Len(r), NEW k \in 1 .. Len(r), r[j] = r[k]
                   PROVE  j = k
        OBVIOUS
      <3>1. i + j \in 1 .. Len(q) /\ i + k \in 1 .. Len(q) /\ q[i + j] = q[i + k]
        BY <1>1, <1>3
      <3>2. i + j = i + k
        BY <1>1, <3>1
      <3> QED BY <1>1, <1>3, <3>2
    <2>4. B = {r[j] : j \in 1 .. Len(r)}
      <3>1. \A d \in B : \E j \in 1 .. Len(r) : d = r[j]
        <4> SUFFICES ASSUME NEW k \in i + 1 .. Len(q)
                     PROVE  \E j \in 1 .. Len(r) : q[k] = r[j]
          OBVIOUS
        <4>1. PICK d \in 1 .. Len(q) - i : k = i + d
          <5>1. k - i \in 1 .. Len(q) - i /\ k = i + (k - i)
            BY <1>1
          <5> QED BY <5>1
        <4>2. d \in 1 .. Len(r) /\ q[k] = r[d]
          BY <1>3, <4>1
        <4> QED BY <4>2
      <3>2. ASSUME NEW j \in 1 .. Len(r) PROVE r[j] \in B
        <4>1. i + j \in i + 1 .. Len(q) /\ r[j] = q[i + j]
          BY <1>1, <1>3
        <4> QED BY <4>1
      <3> QED BY <3>1, <3>2
    <2> HIDE DEF B
    <2> QED BY <1>3, <2>1, <2>2, <2>3, <2>4 DEF Row, Leads
  <1>9. A = Before(q, i) /\ B = After(q, i)
    BY DEF Before, After
  <1> HIDE DEF A, B
  <1> QED BY <1>5, <1>6, <1>7, <1>8, <1>9 DEF p, r

(* Another node takes the place of the one that a row leads to.            *)
LEMMA RowTo ==
  ASSUME NEW m, NEW r, NEW q, NEW x, NEW y, NEW z, NEW S, Row(m, q, x, y, S),
         y \notin S,
         \A e \in S : m.next[e] # y => r.next[e] = m.next[e],
         \A e \in S : m.next[e] = y => r.next[e] = z,
         NEW s, S = {} => s = z, S # {} => s = x
  PROVE  Row(r, q, s, z, S)
  <1>1. /\ q \in Seq(Entry) /\ S = {q[i] : i \in 1 .. Len(q)} /\ Leads(m, q, x, y)
        /\ S = {} <=> q = << >>
    BY RowEnds DEF Row
  <1>2. ASSUME NEW i \in 1 .. Len(q)
        PROVE  r.next[q[i]] = IF i = Len(q) THEN z ELSE q[i + 1]
    <2>1. m.next[q[i]] = IF i = Len(q) THEN y ELSE q[i + 1]
      BY <1>1 DEF Leads
    <2>2. i # Len(q) => q[i + 1] \in S
      <3>1. i # Len(q) => i + 1 \in 1 .. Len(q)
        BY <1>1
      <3> QED BY <1>1, <3>1
    <2>3. q[i] \in S
      BY <1>1
    <2> QED BY <2>1, <2>2, <2>3
  <1>3. s = IF q = << >> THEN z ELSE q[1]
    BY <1>1 DEF Leads
  <1>4. \A i, j \in 1 .. Len(q) : q[i] = q[j] => i = j
    BY DEF Row
  <1> QED BY <1>1, <1>2, <1>3, <1>4 DEF Row, Leads

(* There is one way at most to spell a row, and it is not longer than      *)
(* there are entries.                                                      *)
LEMMA RowLength ==
  ASSUME NEW m, NEW q, NEW x, NEW y, NEW S, Row(m, q, x, y, S)
  PROVE  Len(q) \in Nat /\ Cardinality(Entry) \in Nat /\ Len(q) <= Cardinality(Entry)
  <1>1. q \in Seq(Entry) /\ Len(q) \in Nat
    BY DEF Row
  <1>2. q \in [1 .. Len(q) -> Entry] /\ \A i, j \in 1 .. Len(q) : q[i] = q[j] => i = j
    BY <1>1 DEF Row
  <1>3. q \in Injection(1 .. Len(q), Entry)
    BY <1>2 DEF Injection, IsInjective
  <1>4. Cardinality(1 .. Len(q)) <= Cardinality(Entry)
    BY <1>3, EntryAssumption, FS_Injection
  <1>5. Cardinality(1 .. Len(q)) = Len(q)
    BY <1>1, FS_Interval
  <1>6. Cardinality(Entry) \in Nat
    BY EntryAssumption, FS_CardinalityType
  <1> QED BY <1>1, <1>4, <1>5, <1>6

(* What the loop over a list meets is the row that leads back to its head. *)
LEMMA RowIsUpTo ==
  ASSUME NEW m, NEW q, NEW x, NEW h, NEW S, Row(m, q, x, h, S), h \notin Entry
  PROVE  UpTo(m, x, h) = q
  <1> DEFINE N == Cardinality(Entry)
             L == Len(q)
             f == Reached(m, x)
             Step(g) == [k \in 0 .. N |->
                           IF k = 0 THEN x
                           ELSE IF g[k - 1] \in Entry THEN m.next[g[k - 1]] ELSE g[k - 1]]
             w == [k \in 0 .. N |-> IF k < L THEN q[k + 1] ELSE h]
  <1>1. /\ q \in Seq(Entry) /\ L \in Nat /\ N \in Nat /\ L <= N
        /\ \A i \in 1 .. L : q[i] \in Entry /\ q[i] # h
    <2>1. L \in Nat /\ N \in Nat /\ L <= N
      BY RowLength
    <2>2. q \in Seq(Entry)
      BY DEF Row
    <2> QED BY <2>1, <2>2
  <1>2. /\ x = IF L = 0 THEN h ELSE q[1]
        /\ \A i \in 1 .. L : m.next[q[i]] = IF i = L THEN h ELSE q[i + 1]
    BY <1>1 DEF Row, Leads
  <1>3. f = CHOOSE g : g = Step(g)
    BY DEF Reached
  <1>4. w = Step(w)
    <2>1. ASSUME NEW k \in 0 .. N
          PROVE  w[k] = IF k = 0 THEN x
                        ELSE IF w[k - 1] \in Entry THEN m.next[w[k - 1]] ELSE w[k - 1]
      <3>1. CASE k = 0
        BY <1>1, <1>2, <3>1
      <3>2. CASE k # 0 /\ k - 1 < L
        <4>1. k - 1 \in 0 .. N /\ k \in 1 .. L
          BY <1>1, <3>2
        <4>2. w[k - 1] = q[k] /\ w[k - 1] \in Entry
          BY <1>1, <3>2, <4>1
        <4>3. w[k] = IF k = L THEN h ELSE q[k + 1]
          BY <1>1, <3>2, <4>1
        <4> QED BY <1>2, <3>2, <4>1, <4>2, <4>3
      <3>3. CASE k # 0 /\ ~(k - 1 < L)
        <4>1. k - 1 \in 0 .. N /\ ~(k < L)
          BY <1>1, <3>3
        <4> QED BY <3>3, <4>1
      <3> QED BY <3>1, <3>2, <3>3
    <2> HIDE DEF N
    <2> QED BY <2>1
  <1> HIDE DEF w, f
  <1>5. f = Step(f)
    BY <1>3, <1>4
  <1>6. \A k \in 0 .. N : f[k] = w[k]
    <2> DEFINE T == {k \in Nat : k \in 0 .. N => f[k] = w[k]}
    <2>1. 0 \in T
      BY <1>1, <1>4, <1>5
    <2>2. ASSUME NEW k \in Nat, k \in T PROVE k + 1 \in T
      <3> SUFFICES ASSUME k + 1 \in 0 .. N PROVE f[k + 1] = w[k + 1]
        BY <2>2
      <3>1. k \in 0 .. N /\ k + 1 # 0 /\ (k + 1) - 1 = k
        BY <1>1
      <3>2. f[k] = w[k]
        BY <2>2, <3>1
      <3>3. f[k + 1] = IF f[k] \in Entry THEN m.next[f[k]] ELSE f[k]
        BY <1>5, <3>1
      <3>4. w[k + 1] = IF w[k] \in Entry THEN m.next[w[k]] ELSE w[k]
        BY <1>4, <3>1
      <3> QED BY <3>2, <3>3, <3>4
    <2>3. Nat \subseteq T
      <3> HIDE DEF T
      <3> QED BY <2>1, <2>2, SetInduction
    <2> QED BY <1>1, <2>3
  <1>7. DOMAIN f = 0 .. N /\ DOMAIN w = 0 .. N
    BY <1>5 DEF w
  <1>8. \A k \in 0 .. N : f[k] = IF k < L THEN q[k + 1] ELSE h
    BY <1>6 DEF w
  <1> DEFINE ends == {k \in DOMAIN f : f[k] = h}
             len == IF ends = {} THEN N + 1 ELSE CHOOSE k \in ends : \A j \in ends : k <= j
  <1>9. L \in ends /\ \A k \in ends : L <= k
    BY <1>1, <1>7, <1>8
  <1>10. ends \subseteq Nat
    BY <1>1, <1>7
  <1>11. len = L
    <2> DEFINE c == CHOOSE k \in ends : \A j \in ends : k <= j
    <2> HIDE DEF ends
    <2>1. c \in ends /\ \A j \in ends : c <= j
      BY <1>9
    <2>2. c = L
      <3> HIDE DEF c
      <3>1. c \in Nat /\ c <= L /\ L <= c
        BY <1>9, <1>10, <2>1
      <3> QED BY <1>1, <3>1
    <2> QED BY <1>9, <2>2
  <1>12. UpTo(m, x, h) = [i \in 1 .. len |-> f[i - 1]]
    BY DEF UpTo, f
  <1>13. \A i \in 1 .. L : f[i - 1] = q[i]
    BY <1>1, <1>8
  <1>14. [i \in 1 .. L |-> f[i - 1]] = q
    BY <1>1, <1>13
  <1> HIDE DEF len
  <1> QED BY <1>11, <1>12, <1>14

-----------------------------------------------------------------------------
(* The rows of all lists, and what each function of dmlist.h does to them. *)

Of(at, h) == {x \in Entry : at[x] = h}

(* The sequences q of the lists ls are what the next pointers of m spell.  *)
Rows(m, at, ls, q) == \A h \in ls : Row(m, q[h], m.next[h], h, Of(at, h))

(* The places after the entries of S are given to h.                       *)
Moved(at, S, h) == [x \in Node |-> IF x \in S THEN h ELSE at[x]]

Sound(m, at, ls, q) ==
  /\ m \in Memory /\ at \in Places /\ ls \in SUBSET Heads
  /\ Rings(m, at, ls) /\ \A k \in Heads : at[k] = k
  /\ q \in [Heads -> Seq(Entry)] /\ Rows(m, at, ls, q)

(* An entry that is on no list comes first.                                *)
LEMMA AddFirstRows ==
  ASSUME NEW m, NEW at, NEW ls, NEW q, Sound(m, at, ls, q),
         NEW e \in Entry, at[e] \notin ls, NEW h \in ls
  PROVE  Rows(list_add(m, e, h), Moved(at, {e}, h), ls,
              [q EXCEPT ![h] = <<e>> \o @])
  <1> USE DEF Sound
  <1> DEFINE r == list_add(m, e, h)
             to == Moved(at, {e}, h)
  <1>1. h \in Heads /\ h \in Node /\ e \in Node /\ h \notin Entry /\ e \notin Heads
    BY ListAssumption DEF Node
  <1>2. /\ \A x \in Node : r.next[x] = IF x = h THEN e ELSE IF x = e THEN m.next[h] ELSE m.next[x]
        /\ \A x \in Node : to[x] = IF x = e THEN h ELSE at[x]
    BY <1>1 DEF list_add, __list_add, Memory, Moved
  <1> HIDE DEF r, to
  <1>3. \A k \in ls : \A x \in Of(at, k) : r.next[x] = m.next[x]
    BY <1>1, <1>2 DEF Of, Node
  <1>4. \A k \in ls : Row(r, q[k], m.next[k], k, Of(at, k))
    BY <1>3, RowSame DEF Rows
  <1>5. ASSUME NEW k \in ls, k # h
        PROVE  Row(r, q[k], r.next[k], k, Of(to, k))
    <2>1. Of(to, k) = Of(at, k)
      BY <1>1, <1>2, <1>5 DEF Of, Node
    <2>2. r.next[k] = m.next[k]
      BY <1>1, <1>2, <1>5 DEF Node
    <2> QED BY <1>4, <2>1, <2>2
  <1>6. Row(r, <<e>> \o q[h], r.next[h], h, Of(to, h))
    <2>1. Of(to, h) = {e} \union Of(at, h) /\ {e} \intersect Of(at, h) = {}
      BY <1>1, <1>2 DEF Of, Node
    <2>2. r.next[h] = e /\ r.next[e] = m.next[h]
      BY <1>1, <1>2
    <2>3. Row(r, <<e>>, e, m.next[h], {e})
      BY <2>2, RowOne
    <2> QED BY <1>4, <2>1, <2>2, <2>3, RowJoin
  <1> QED BY <1>1, <1>5, <1>6 DEF Rows, r, to

(* Or last.                                                                *)
LEMMA AddLastRows ==
  ASSUME NEW m, NEW at, NEW ls, NEW q, Sound(m, at, ls, q),
         NEW e \in Entry, at[e] \notin ls, NEW h \in ls
  PROVE  Rows(list_add_tail(m, e, h), Moved(at, {e}, h), ls,
              [q EXCEPT ![h] = Append(@, e)])
  <1> USE DEF Sound
  <1> DEFINE r == list_add_tail(m, e, h)
             to == Moved(at, {e}, h)
             p == m.prev[h]
  <1>1. h \in Heads /\ h \in Node /\ e \in Node /\ h \notin Entry /\ e \notin Heads
    BY ListAssumption DEF Node
  <1>2. p \in Node /\ at[p] = h /\ m.next[p] = h /\ p # e
    BY <1>1 DEF Rings
  <1>3. /\ \A x \in Node : r.next[x] = IF x = p THEN e ELSE IF x = e THEN h ELSE m.next[x]
        /\ \A x \in Node : to[x] = IF x = e THEN h ELSE at[x]
    BY <1>1, <1>2 DEF list_add_tail, __list_add, Memory, Moved
  <1> HIDE DEF r, to
  <1>4. \A k \in ls : Row(m, q[k], m.next[k], k, Of(at, k))
    BY DEF Rows
  <1>5. ASSUME NEW k \in ls, k # h
        PROVE  Row(r, q[k], r.next[k], k, Of(to, k))
    <2>1. Of(to, k) = Of(at, k)
      BY <1>1, <1>3, <1>5 DEF Of, Node
    <2>2. \A x \in Of(at, k) : r.next[x] = m.next[x]
      BY <1>1, <1>2, <1>3, <1>5 DEF Of, Node
    <2>5. r.next[k] = m.next[k]
      BY <1>1, <1>2, <1>3, <1>5 DEF Node
    <2> QED BY <1>4, <2>1, <2>2, <2>5, RowSame
  <1>6. Row(r, Append(q[h], e), r.next[h], h, Of(to, h))
    <2>1. Of(to, h) = Of(at, h) \union {e} /\ {e} \intersect Of(at, h) = {}
      BY <1>1, <1>3 DEF Of, Node
    <2>2. h \notin Of(at, h) /\ Of(at, h) \subseteq Node
      BY <1>1 DEF Of, Node
    <2>3. ASSUME NEW x \in Of(at, h)
          PROVE  /\ m.next[x] # h => r.next[x] = m.next[x]
                 /\ m.next[x] = h => r.next[x] = e
      <3>1. x \in Node /\ x # e /\ at[x] = h
        BY <2>1, <2>2 DEF Of
      <3>2. m.next[x] = h => x = p
        BY <3>1 DEF Rings
      <3> QED BY <1>2, <1>3, <3>1, <3>2
    <2> DEFINE s == IF Of(at, h) = {} THEN e ELSE m.next[h]
    <2>4. Row(r, q[h], s, e, Of(at, h))
      <3>1. (Of(at, h) = {} => s = e) /\ (Of(at, h) # {} => s = m.next[h])
        OBVIOUS
      <3> HIDE DEF s
      <3> QED BY <1>4, <2>2, <2>3, <3>1, RowTo
    <2>5. r.next[e] = h
      BY <1>1, <1>2, <1>3
    <2>6. Row(r, <<e>>, e, h, {e})
      BY <2>5, RowOne
    <2>7. Row(r, q[h] \o <<e>>, s, h, Of(to, h))
      <3> HIDE DEF s
      <3> QED BY <2>1, <2>4, <2>6, RowJoin
    <2>8. m.next[h] = h <=> Of(at, h) = {}
      BY <1>4, <2>2, RowEnds
    <2>9. p = h <=> m.next[h] = h
      BY <1>1, <1>2 DEF Rings
    <2>10. r.next[h] = s
      BY <1>1, <1>3, <2>8, <2>9
    <2>11. Append(q[h], e) = q[h] \o <<e>>
      BY <1>1
    <2> QED BY <2>7, <2>10, <2>11
  <1> QED BY <1>1, <1>5, <1>6 DEF Rows, r, to

(* The pointers of a node that is on no list do not matter.                *)
LEMMA OffListRows ==
  ASSUME NEW m, NEW r, NEW at, NEW ls \in SUBSET Heads, NEW q,
         Rows(m, at, ls, q), \A h \in Heads : at[h] = h,
         \A x \in Node : at[x] \in ls => r.next[x] = m.next[x]
  PROVE  Rows(r, at, ls, q)
  <1> SUFFICES ASSUME NEW h \in ls PROVE Row(r, q[h], r.next[h], h, Of(at, h))
    BY DEF Rows
  <1>1. r.next[h] = m.next[h] /\ \A x \in Of(at, h) : r.next[x] = m.next[x]
    BY DEF Of, Node
  <1> QED BY <1>1, RowSame DEF Rows

(* Where an entry stands in the sequence of its list.                      *)
LEMMA RowIndex ==
  ASSUME NEW m, NEW q, NEW x, NEW y, NEW S, Row(m, q, x, y, S), NEW e \in S
  PROVE  \E i \in 1 .. Len(q) : q[i] = e
  BY DEF Row

Omit(s, i) == SubSeq(s, 1, i - 1) \o SubSeq(s, i + 1, Len(s))

(* An entry is taken out.                                                  *)
LEMMA DelRows ==
  ASSUME NEW m, NEW at, NEW ls, NEW q, Sound(m, at, ls, q),
         NEW h \in ls, NEW i \in 1 .. Len(q[h]), NEW e, e = q[h][i]
  PROVE  Rows(Unlinked(m, e), Moved(at, {e}, NULL), ls, [q EXCEPT ![h] = Omit(@, i)])
  <1> USE DEF Sound
  <1> DEFINE p == m.prev[e]
             n == m.next[e]
             r == Unlinked(m, e)
             to == Moved(at, {e}, NULL)
  <1>7. e \in Entry /\ at[e] = h
    <2>1. Row(m, q[h], m.next[h], h, Of(at, h))
      BY DEF Rows
    <2> QED BY <2>1 DEF Row, Of
  <1>1. /\ h \in Heads /\ h \in Node /\ e \in Node /\ h \notin Entry /\ e \notin Heads
        /\ NULL \notin Heads
    BY <1>7, ListAssumption DEF Node
  <1>2. p \in Node /\ at[p] = h /\ m.next[p] = e
    BY <1>1, <1>7 DEF Rings
  <1>3. /\ \A x \in Node : r.next[x] = IF x = p THEN n ELSE m.next[x]
        /\ \A x \in Node : to[x] = IF x = e THEN NULL ELSE at[x]
    BY <1>1, <1>2 DEF Unlinked, __list_del, Memory, Moved
  <1> HIDE DEF r, to
  <1>4. \A k \in ls : Row(m, q[k], m.next[k], k, Of(at, k))
    BY DEF Rows
  <1>5. ASSUME NEW k \in ls, k # h
        PROVE  Row(r, q[k], r.next[k], k, Of(to, k))
    <2>1. Of(to, k) = Of(at, k)
      BY <1>1, <1>3, <1>5, <1>7 DEF Of, Node
    <2>2. \A x \in Of(at, k) : r.next[x] = m.next[x]
      BY <1>1, <1>2, <1>3, <1>5 DEF Of, Node
    <2>3. r.next[k] = m.next[k]
      BY <1>1, <1>2, <1>3, <1>5 DEF Node
    <2> QED BY <1>4, <2>1, <2>2, <2>3, RowSame
  <1>6. Row(r, Omit(q[h], i), r.next[h], h, Of(to, h))
    <2> DEFINE a == SubSeq(q[h], 1, i - 1)
               b == SubSeq(q[h], i + 1, Len(q[h]))
               A == Before(q[h], i)
               B == After(q[h], i)
    <2>1. /\ Of(at, h) = A \union {e} \union B
          /\ A \intersect B = {} /\ e \notin A /\ e \notin B
          /\ Row(m, a, m.next[h], e, A) /\ Row(m, b, n, h, B)
      BY <1>4, RowSplit
    <2> HIDE DEF a, b, A, B
    <2>2. Of(to, h) = A \union B
      <3>1. \A x \in Entry : to[x] = h <=> at[x] = h /\ x # e
        BY <1>1, <1>3 DEF Node
      <3>2. Of(to, h) = Of(at, h) \ {e}
        BY <3>1 DEF Of
      <3> QED BY <2>1, <3>2
    <2>3. \A x \in A \union B : x \in Node /\ x # e /\ at[x] = h
      <3>1. \A x \in Of(at, h) : x \in Node /\ at[x] = h
        BY DEF Of, Node
      <3> QED BY <2>1, <3>1
    <2>4. ASSUME NEW x \in A
          PROVE  /\ m.next[x] # e => r.next[x] = m.next[x]
                 /\ m.next[x] = e => r.next[x] = n
      <3>1. x \in Node /\ x # e /\ at[x] = h
        BY <2>3
      <3>2. m.next[x] = e <=> x = p
        BY <1>2, <3>1 DEF Rings
      <3> QED BY <1>3, <3>1, <3>2
    <2>5. \A x \in B : r.next[x] = m.next[x]
      <3> SUFFICES ASSUME NEW x \in B PROVE r.next[x] = m.next[x]
        OBVIOUS
      <3>1. m.next[x] # e
        BY <1>1, <2>1, RowEnds
      <3> QED BY <1>2, <1>3, <2>3, <3>1
    <2> DEFINE first == IF A = {} THEN n ELSE m.next[h]
    <2>6. Row(r, a, first, n, A)
      <3>1. (A = {} => first = n) /\ (A # {} => first = m.next[h])
        OBVIOUS
      <3>2. Row(m, a, m.next[h], e, A) /\ e \notin A
        BY <2>1
      <3> HIDE DEF first
      <3> QED BY <2>4, <3>1, <3>2, RowTo
    <2>7. Row(r, b, n, h, B)
      BY <2>1, <2>5, RowSame
    <2>8. Row(r, a \o b, first, h, A \union B)
      <3> HIDE DEF first
      <3> QED BY <2>1, <2>6, <2>7, RowJoin
    <2>9. m.next[h] = e <=> A = {}
      BY <2>1, RowEnds
    <2>10. p = h <=> m.next[h] = e
      BY <1>1, <1>2 DEF Rings
    <2>11. r.next[h] = first
      BY <1>1, <1>3, <2>9, <2>10
    <2> QED BY <2>2, <2>8, <2>11 DEF a, b, Omit
  <1> QED BY <1>1, <1>5, <1>6 DEF Rows, r, to

(* Replacing an item, by parts.                                            *)
LEMMA Substituted ==
  ASSUME NEW s \in Seq(Entry), NEW i \in 1 .. Len(s), NEW f \in Entry
  PROVE  [s EXCEPT ![i] = f] = (SubSeq(s, 1, i - 1) \o <<f>>) \o SubSeq(s, i + 1, Len(s))
  <1> DEFINE a == SubSeq(s, 1, i - 1)
             b == SubSeq(s, i + 1, Len(s))
             t == (a \o <<f>>) \o b
             u == [s EXCEPT ![i] = f]
  <1>1. Len(s) \in Nat /\ i \in Nat
    OBVIOUS
  <1>2. a \in Seq(Entry) /\ Len(a) = i - 1 /\ \A j \in 1 .. i - 1 : a[j] = s[j]
    BY <1>1
  <1>3. b \in Seq(Entry) /\ Len(b) = Len(s) - i /\ \A j \in 1 .. Len(s) - i : b[j] = s[i + j]
    BY <1>1
  <1> HIDE DEF a, b
  <1> DEFINE c == a \o <<f>>
  <1>8. /\ c \in Seq(Entry) /\ Len(c) = i
        /\ \A j \in 1 .. i : c[j] = IF j < i THEN s[j] ELSE f
    BY <1>1, <1>2
  <1> HIDE DEF c
  <1>12. Len(c \o b) = Len(s)
    <2>1. b \in Seq(Entry) /\ c \in Seq(Entry)
      BY <1>3, <1>8
    <2>2. Len(c \o b) = Len(c) + Len(b)
      BY <2>1
    <2>3. Len(b) = Len(s) - i /\ Len(c) = i
      BY <1>3, <1>8
    <2> QED BY <1>1, <2>2, <2>3
  <1>9. /\ c \o b \in Seq(Entry) /\ Len(c \o b) = Len(s)
        /\ \A j \in 1 .. Len(s) : (c \o b)[j] = IF j <= i THEN c[j] ELSE b[j - i]
    BY <1>3, <1>8, <1>12
  <1>10. \A j \in 1 .. Len(s) : j > i => j - i \in 1 .. Len(s) - i /\ i + (j - i) = j
    BY <1>1
  <1>11. \A j \in 1 .. Len(s) : j > i => b[j - i] = s[j]
    BY <1>3, <1>10
  <1>4. /\ t \in Seq(Entry) /\ Len(t) = Len(s)
        /\ \A j \in 1 .. Len(s) : t[j] = IF j = i THEN f ELSE s[j]
    <2>1. \A j \in 1 .. Len(s) : j <= i => j \in 1 .. i
      BY <1>1
    <2>2. t = c \o b
      BY DEF c
    <2> HIDE DEF t
    <2> QED BY <1>1, <1>8, <1>9, <1>11, <2>1, <2>2
  <1>5. /\ u \in Seq(Entry) /\ Len(u) = Len(s)
        /\ \A j \in 1 .. Len(s) : u[j] = IF j = i THEN f ELSE s[j]
    BY <1>1
  <1> HIDE DEF t, u
  <1>6. \A j \in 1 .. Len(s) : t[j] = u[j]
    BY <1>4, <1>5
  <1>7. t = u
    BY <1>4, <1>5, <1>6
  <1> QED BY <1>7 DEF t, u, a, b

(* An entry f that is on no list takes the place of e.                     *)
LEMMA ReplaceRows ==
  ASSUME NEW m, NEW at, NEW ls, NEW q, Sound(m, at, ls, q),
         NEW e \in Entry, NEW h \in ls, at[e] = h,
         NEW i \in 1 .. Len(q[h]), q[h][i] = e,
         NEW f \in Entry, at[f] \notin ls,
         NEW to \in Places, to[e] \notin ls, to[f] = h,
         \A x \in Node : x # e /\ x # f => to[x] = at[x],
         NEW r \in Memory,
         \A x \in Node : x # e => r.next[x] = list_replace(m, e, f).next[x]
  PROVE  Rows(r, to, ls, [q EXCEPT ![h][i] = f])
  <1> USE DEF Sound
  <1> DEFINE p == m.prev[e]
             n == m.next[e]
  <1>1. /\ h \in Heads /\ h \in Node /\ e \in Node /\ h \notin Entry /\ e \notin Heads
        /\ f \in Node /\ f # e /\ f \notin Heads
    BY ListAssumption DEF Node
  <1>2. /\ p \in Node /\ at[p] = h /\ m.next[p] = e /\ p # f
        /\ n \in Node /\ at[n] = h /\ m.prev[n] = e
    BY <1>1 DEF Rings
  <1>3. n # e /\ p # e
    <2>1. n \in Of(at, h) \union {h}
      BY <1>1, <1>2 DEF Of, Node
    <2>2. e \notin After(q[h], i) /\ Row(m, SubSeq(q[h], i + 1, Len(q[h])), n, h, After(q[h], i))
      <3>1. Row(m, q[h], m.next[h], h, Of(at, h))
        BY DEF Rows
      <3> QED BY <3>1, RowSplit
    <2>3. n # e
      BY <1>1, <2>2, RowEnds
    <2> QED BY <1>2, <2>3
  <1>4. \A x \in Node : x # e => r.next[x] = IF x = p THEN f ELSE IF x = f THEN n ELSE m.next[x]
    BY <1>1, <1>2, <1>3 DEF list_replace, Memory
  <1>5. \A k \in ls : Row(m, q[k], m.next[k], k, Of(at, k))
    BY DEF Rows
  <1>6. ASSUME NEW k \in ls, k # h
        PROVE  Row(r, q[k], r.next[k], k, Of(to, k))
    <2>1. Of(to, k) = Of(at, k)
      BY <1>1, <1>6 DEF Of, Node
    <2>2. \A x \in Of(at, k) : r.next[x] = m.next[x]
      BY <1>1, <1>2, <1>4, <1>6 DEF Of, Node
    <2>3. r.next[k] = m.next[k]
      BY <1>1, <1>2, <1>4, <1>6 DEF Node
    <2> QED BY <1>5, <2>1, <2>2, <2>3, RowSame
  <1>7. Row(r, [q[h] EXCEPT ![i] = f], r.next[h], h, Of(to, h))
    <2> DEFINE a == SubSeq(q[h], 1, i - 1)
               b == SubSeq(q[h], i + 1, Len(q[h]))
               A == Before(q[h], i)
               B == After(q[h], i)
    <2>1. /\ Of(at, h) = A \union {e} \union B
          /\ A \intersect B = {} /\ e \notin A /\ e \notin B
          /\ Row(m, a, m.next[h], e, A) /\ Row(m, b, n, h, B)
      BY <1>5, RowSplit
    <2>2. Of(to, h) = A \union {f} \union B
      BY <1>1, <2>1 DEF Of, Node
    <2>3. \A x \in A \union B : x \in Node /\ x # e /\ x # f /\ at[x] = h
      BY <2>1 DEF Of, Node
    <2> HIDE DEF a, b, A, B
    <2>4. ASSUME NEW x \in A
          PROVE  /\ m.next[x] # e => r.next[x] = m.next[x]
                 /\ m.next[x] = e => r.next[x] = f
      BY <1>2, <1>4, <2>3 DEF Rings
    <2>5. \A x \in B : r.next[x] = m.next[x]
      <3> SUFFICES ASSUME NEW x \in B PROVE r.next[x] = m.next[x]
        OBVIOUS
      <3>1. m.next[x] # e
        BY <1>1, <2>1, RowEnds
      <3> QED BY <1>2, <1>4, <2>3, <3>1
    <2> DEFINE s == IF A = {} THEN f ELSE m.next[h]
    <2>6. Row(r, a, s, f, A)
      <3>1. (A = {} => s = f) /\ (A # {} => s = m.next[h])
        OBVIOUS
      <3> HIDE DEF s
      <3> QED BY <2>1, <2>4, <3>1, RowTo
    <2>7. Row(r, b, n, h, B)
      BY <2>1, <2>5, RowSame
    <2>8. Row(r, <<f>>, f, n, {f})
      <3>1. r.next[f] = n
        BY <1>1, <1>2, <1>4
      <3> QED BY <3>1, RowOne
    <2>9. Row(r, (a \o <<f>>) \o b, s, h, A \union {f} \union B)
      <3> HIDE DEF s
      <3>1. Row(r, a \o <<f>>, s, n, A \union {f})
        BY <2>3, <2>6, <2>8, RowJoin
      <3>2. (A \union {f}) \intersect B = {}
        BY <2>1, <2>3
      <3> QED BY <2>7, <3>1, <3>2, RowJoin
    <2>10. m.next[h] = e <=> A = {}
      BY <2>1, RowEnds
    <2>11. p = h <=> m.next[h] = e
      BY <1>1, <1>2 DEF Rings
    <2>12. r.next[h] = s
      BY <1>1, <1>4, <2>10, <2>11
    <2>13. [q[h] EXCEPT ![i] = f] = (a \o <<f>>) \o b
      BY <1>1, Substituted DEF a, b
    <2> QED BY <2>2, <2>9, <2>12, <2>13
  <1> QED BY <1>1, <1>6, <1>7 DEF Rows

(* The entries of l, which has some, go in front of those of h, or behind  *)
(* them; what the pointers of l become is open.                            *)
LEMMA JoinFirstRows ==
  ASSUME NEW m, NEW at, NEW ls, NEW q, Sound(m, at, ls, q),
         NEW l \in ls, NEW h \in ls, l # h, m.next[l] # l
  PROVE  Rows(list_splice(m, l, h), Moved(at, Of(at, l), h), ls \ {l},
              [q EXCEPT ![l] = << >>, ![h] = q[l] \o @])
  <1> USE DEF Sound
  <1> DEFINE p == m.prev[l]
             r == list_splice(m, l, h)
             to == Moved(at, Of(at, l), h)
  <1>1. /\ h \in Heads /\ h \in Node /\ l \in Heads /\ l \in Node
        /\ h \notin Entry /\ l \notin Entry
    BY ListAssumption DEF Node
  <1>2. p \in Node /\ at[p] = l /\ m.next[p] = l /\ p # l
    BY <1>1 DEF Rings
  <1>3. \A x \in Node : x # l =>
          r.next[x] = IF x = p THEN m.next[h] ELSE IF x = h THEN m.next[l] ELSE m.next[x]
    BY <1>1, <1>2 DEF list_splice, list_empty, __list_splice, Memory
  <1>7. \A x \in Node : to[x] = IF x \in Entry /\ at[x] = l THEN h ELSE at[x]
    BY DEF Moved, Of
  <1> HIDE DEF r, to
  <1>4. \A k \in ls : Row(m, q[k], m.next[k], k, Of(at, k)) /\ Of(at, k) \subseteq Node
    BY DEF Rows, Of, Node
  <1>5. ASSUME NEW k \in ls, k # h, k # l
        PROVE  Row(r, q[k], r.next[k], k, Of(to, k))
    <2>1. Of(to, k) = Of(at, k)
      BY <1>1, <1>5, <1>7, ListAssumption DEF Of, Node
    <2>2. \A x \in Of(at, k) : r.next[x] = m.next[x]
      BY <1>1, <1>2, <1>3, <1>4, <1>5 DEF Of, Node
    <2>3. r.next[k] = m.next[k]
      BY <1>1, <1>2, <1>3, <1>5 DEF Node
    <2> QED BY <1>4, <2>1, <2>2, <2>3, RowSame
  <1>6. Row(r, q[l] \o q[h], r.next[h], h, Of(to, h))
    <2>1. Of(to, h) = Of(at, l) \union Of(at, h) /\ Of(at, l) \intersect Of(at, h) = {}
      BY <1>1, <1>7 DEF Of, Node
    <2>2. l \notin Of(at, l) /\ l \notin Of(at, h) /\ h \notin Of(at, h)
      BY <1>1 DEF Of
    <2>3. ASSUME NEW x \in Of(at, l)
          PROVE  /\ m.next[x] # l => r.next[x] = m.next[x]
                 /\ m.next[x] = l => r.next[x] = m.next[h]
      <3>1. x \in Node /\ x # l /\ x # h /\ at[x] = l
        BY <1>1, <1>4, <2>2 DEF Of
      <3>2. m.next[x] = l <=> x = p
        BY <1>2, <3>1 DEF Rings
      <3> QED BY <1>3, <3>1, <3>2
    <2>4. Of(at, l) # {}
      BY <1>4, RowEnds
    <2>5. Row(r, q[l], m.next[l], m.next[h], Of(at, l))
      BY <1>4, <2>2, <2>3, <2>4, RowTo
    <2>6. \A x \in Of(at, h) : r.next[x] = m.next[x]
      BY <1>1, <1>2, <1>3, <1>4, <2>2 DEF Of
    <2>7. Row(r, q[h], m.next[h], h, Of(at, h))
      BY <1>4, <2>6, RowSame
    <2>8. r.next[h] = m.next[l]
      BY <1>1, <1>2, <1>3
    <2> QED BY <2>1, <2>5, <2>7, <2>8, RowJoin
  <1> QED BY <1>1, <1>5, <1>6 DEF Rows, r, to

LEMMA JoinLastRows ==
  ASSUME NEW m, NEW at, NEW ls, NEW q, Sound(m, at, ls, q),
         NEW l \in ls, NEW h \in ls, l # h, m.next[l] # l
  PROVE  Rows(list_splice_tail(m, l, h), Moved(at, Of(at, l), h), ls \ {l},
              [q EXCEPT ![l] = << >>, ![h] = @ \o q[l]])
  <1> USE DEF Sound
  <1> DEFINE p == m.prev[l]
             t == m.prev[h]
             r == list_splice_tail(m, l, h)
             to == Moved(at, Of(at, l), h)
  <1>1. /\ h \in Heads /\ h \in Node /\ l \in Heads /\ l \in Node
        /\ h \notin Entry /\ l \notin Entry
    BY ListAssumption DEF Node
  <1>2. /\ p \in Node /\ at[p] = l /\ m.next[p] = l /\ p # l
        /\ t \in Node /\ at[t] = h /\ m.next[t] = h
    BY <1>1 DEF Rings
  <1>3. \A x \in Node : x # l =>
          r.next[x] = IF x = p THEN h ELSE IF x = t THEN m.next[l] ELSE m.next[x]
    BY <1>1, <1>2 DEF list_splice_tail, list_empty, __list_splice, Memory
  <1>7. \A x \in Node : to[x] = IF x \in Entry /\ at[x] = l THEN h ELSE at[x]
    BY DEF Moved, Of
  <1> HIDE DEF r, to
  <1>4. \A k \in ls : Row(m, q[k], m.next[k], k, Of(at, k)) /\ Of(at, k) \subseteq Node
    BY DEF Rows, Of, Node
  <1>5. ASSUME NEW k \in ls, k # h, k # l
        PROVE  Row(r, q[k], r.next[k], k, Of(to, k))
    <2>1. Of(to, k) = Of(at, k)
      BY <1>1, <1>5, <1>7, ListAssumption DEF Of, Node
    <2>2. \A x \in Of(at, k) : r.next[x] = m.next[x]
      BY <1>1, <1>2, <1>3, <1>4, <1>5 DEF Of, Node
    <2>3. r.next[k] = m.next[k]
      BY <1>1, <1>2, <1>3, <1>5 DEF Node
    <2> QED BY <1>4, <2>1, <2>2, <2>3, RowSame
  <1>6. Row(r, q[h] \o q[l], r.next[h], h, Of(to, h))
    <2>1. Of(to, h) = Of(at, h) \union Of(at, l) /\ Of(at, h) \intersect Of(at, l) = {}
      BY <1>1, <1>7 DEF Of, Node
    <2>2. l \notin Of(at, l) /\ l \notin Of(at, h) /\ h \notin Of(at, h)
      BY <1>1 DEF Of
    <2>3. ASSUME NEW x \in Of(at, l)
          PROVE  /\ m.next[x] # l => r.next[x] = m.next[x]
                 /\ m.next[x] = l => r.next[x] = h
      <3>1. x \in Node /\ x # l /\ x # t /\ at[x] = l
        BY <1>1, <1>2, <1>4, <2>2 DEF Of
      <3>2. m.next[x] = l <=> x = p
        BY <1>2, <3>1 DEF Rings
      <3> QED BY <1>3, <3>1, <3>2
    <2>4. Of(at, l) # {}
      BY <1>4, RowEnds
    <2>5. Row(r, q[l], m.next[l], h, Of(at, l))
      BY <1>4, <2>2, <2>3, <2>4, RowTo
    <2>6. ASSUME NEW x \in Of(at, h)
          PROVE  /\ m.next[x] # h => r.next[x] = m.next[x]
                 /\ m.next[x] = h => r.next[x] = m.next[l]
      <3>1. x \in Node /\ x # l /\ x # p /\ at[x] = h
        BY <1>1, <1>2, <1>4, <2>2 DEF Of
      <3>2. m.next[x] = h <=> x = t
        BY <1>2, <3>1 DEF Rings
      <3> QED BY <1>3, <3>1, <3>2
    <2> DEFINE s == IF Of(at, h) = {} THEN m.next[l] ELSE m.next[h]
    <2>7. (Of(at, h) = {} => s = m.next[l]) /\ (Of(at, h) # {} => s = m.next[h])
      OBVIOUS
    <2>8. m.next[h] = h <=> Of(at, h) = {}
      BY <1>4, <2>2, RowEnds
    <2>9. t = h <=> m.next[h] = h
      BY <1>1, <1>2 DEF Rings
    <2>10. r.next[h] = s
      BY <1>1, <1>2, <1>3, <2>8, <2>9
    <2> HIDE DEF s
    <2>11. Row(r, q[h], s, m.next[l], Of(at, h))
      BY <1>4, <2>2, <2>6, <2>7, RowTo
    <2> QED BY <2>1, <2>5, <2>10, <2>11, RowJoin
  <1> QED BY <1>1, <1>5, <1>6 DEF Rows, r, to

(* A head that is its own successor has no entries.                        *)
LEMMA EmptyRows ==
  ASSUME NEW m, NEW at, NEW ls, NEW q, Sound(m, at, ls, q),
         NEW l \in ls, m.next[l] = l
  PROVE  q[l] = << >> /\ Of(at, l) = {}
  <1>1. Row(m, q[l], m.next[l], l, Of(at, l))
    BY DEF Sound, Rows
  <1>2. l \notin Of(at, l)
    BY ListAssumption DEF Sound, Of
  <1> QED BY <1>1, <1>2, RowEnds

(* When l has no entries nothing changes.                                  *)
LEMMA JoinNoneRows ==
  ASSUME NEW m, NEW at, NEW ls, NEW q, Sound(m, at, ls, q),
         NEW l \in ls, NEW h \in ls, m.next[l] = l
  PROVE  Rows(m, Moved(at, Of(at, l), h), ls, q)
  <1>1. Of(at, l) = {}
    BY EmptyRows
  <1>2. \A k \in ls : Of(Moved(at, Of(at, l), h), k) = Of(at, k)
    BY <1>1 DEF Of, Node, Moved
  <1> QED BY <1>2 DEF Sound, Rows

(* All of h goes over to l, which is no list.                              *)
LEMMA DetachRows ==
  ASSUME NEW m, NEW at, NEW ls, NEW q, Sound(m, at, ls, q),
         NEW h \in ls, NEW l \in Heads \ ls,
         \A x \in Node : x # l => at[x] # l
  PROVE  Rows(list_replace_init(m, h, l), Moved(at, Of(at, h), l), ls \union {l},
              [q EXCEPT ![l] = q[h], ![h] = << >>])
  <1> USE DEF Sound
  <1> DEFINE p == m.prev[h]
             r == list_replace_init(m, h, l)
             to == Moved(at, Of(at, h), l)
  <1>1. /\ h \in Heads /\ h \in Node /\ l \in Heads /\ l \in Node
        /\ h \notin Entry /\ l \notin Entry /\ h # l
    BY ListAssumption DEF Node
  <1>2. /\ p \in Node /\ at[p] = h /\ m.next[p] = h /\ p # l
        /\ m.next[h] \in Node /\ m.prev[m.next[h]] = h /\ m.next[h] # l
    BY <1>1 DEF Rings
  <1>3. m.next[h] = h <=> p = h
    BY <1>2
  <1>4. \A x \in Node :
          r.next[x] = IF x = h THEN h
                      ELSE IF x = l THEN IF p = h THEN l ELSE m.next[h]
                      ELSE IF x = p THEN l ELSE m.next[x]
    BY <1>1, <1>2, <1>3 DEF list_replace_init, list_replace, INIT_LIST_HEAD, Memory
  <1>9. \A x \in Node : to[x] = IF x \in Entry /\ at[x] = h THEN l ELSE at[x]
    BY DEF Moved, Of
  <1> HIDE DEF r, to
  <1>5. \A k \in ls : Row(m, q[k], m.next[k], k, Of(at, k)) /\ Of(at, k) \subseteq Node
    BY DEF Rows, Of, Node
  <1>6. ASSUME NEW k \in ls, k # h
        PROVE  Row(r, q[k], r.next[k], k, Of(to, k))
    <2>1. k \in Heads /\ k \in Node /\ k # l /\ k # p
      BY <1>2, <1>6 DEF Node
    <2>2. Of(to, k) = Of(at, k)
      BY <1>1, <1>6, <1>9, <2>1 DEF Of, Node
    <2>3. \A x \in Of(at, k) : r.next[x] = m.next[x]
      BY <1>1, <1>2, <1>4, <1>5, <1>6 DEF Of
    <2>4. r.next[k] = m.next[k]
      BY <1>4, <1>6, <2>1
    <2> QED BY <1>5, <2>2, <2>3, <2>4, RowSame
  <1>7. Row(r, << >>, r.next[h], h, Of(to, h))
    <2>1. Of(to, h) = {}
      BY <1>1, <1>9 DEF Of, Node
    <2> QED BY <1>1, <1>4, <2>1, RowEmpty
  <1>8. Row(r, q[h], r.next[l], l, Of(to, l))
    <2>1. Of(to, l) = Of(at, h)
      BY <1>1, <1>9 DEF Of, Node
    <2>2. h \notin Of(at, h) /\ l \notin Of(at, h)
      BY <1>1 DEF Of
    <2>3. ASSUME NEW x \in Of(at, h)
          PROVE  /\ m.next[x] # h => r.next[x] = m.next[x]
                 /\ m.next[x] = h => r.next[x] = l
      <3>1. x \in Node /\ x # h /\ x # l /\ at[x] = h
        BY <1>5, <2>2 DEF Of
      <3>2. m.next[x] = h <=> x = p
        BY <1>2, <3>1 DEF Rings
      <3> QED BY <1>4, <3>1, <3>2
    <2>4. m.next[h] = h <=> Of(at, h) = {}
      BY <1>5, <2>2, RowEnds
    <2>5. (Of(at, h) = {} => r.next[l] = l) /\ (Of(at, h) # {} => r.next[l] = m.next[h])
      BY <1>1, <1>3, <1>4, <2>4
    <2>6. Row(r, q[h], r.next[l], l, Of(at, h))
      BY <1>5, <2>2, <2>3, <2>5, RowTo
    <2> QED BY <2>1, <2>6
  <1> QED BY <1>1, <1>6, <1>7, <1>8 DEF Rows, r, to

(* A set of entries of a row that holds its first entry and, with every    *)
(* one but e, its neighbours, is the row up to e.                          *)
LEMMA FrontIs ==
  ASSUME NEW m, NEW q, NEW x, NEW y, NEW S, Row(m, q, x, y, S),
         \A j \in 1 .. Len(q) : m.prev[m.next[q[j]]] = q[j],
         NEW i \in 1 .. Len(q), NEW e, e = q[i],
         NEW front \in SUBSET S,
         x \in front, e \in front, m.next[e] \notin front,
         \A z \in front : z # e => m.next[z] \in front,
         \A z \in front : z # x => m.prev[z] \in front
  PROVE  front = Before(q, i) \union {e}
  <1>1. /\ Len(q) \in Nat /\ i \in Nat
        /\ S = {q[j] : j \in 1 .. Len(q)}
        /\ \A j, k \in 1 .. Len(q) : q[j] = q[k] => j = k
    BY DEF Row
  <1>2. /\ x = q[1]
        /\ \A j \in 1 .. Len(q) : j # Len(q) => m.next[q[j]] = q[j + 1]
    <2>1. Leads(m, q, x, y) /\ q # << >>
      BY <1>1 DEF Row
    <2> QED BY <2>1 DEF Leads
  <1>3. \A j \in 1 .. i : q[j] \in front
    <2> DEFINE T == {n \in Nat : n < i => q[n + 1] \in front}
    <2>1. 0 \in T
      BY <1>2
    <2>2. ASSUME NEW n \in Nat, n \in T PROVE n + 1 \in T
      <3> SUFFICES ASSUME n + 1 < i PROVE q[n + 1 + 1] \in front
        OBVIOUS
      <3>1. n + 1 \in 1 .. Len(q) /\ n + 1 # Len(q) /\ n + 1 # i
        BY <1>1
      <3>2. q[n + 1] \in front /\ q[n + 1] # e
        BY <1>1, <2>2, <3>1
      <3> QED BY <1>2, <3>1, <3>2
    <2>3. Nat \subseteq T
      <3> HIDE DEF T
      <3> QED BY <2>1, <2>2, SetInduction
    <2> SUFFICES ASSUME NEW j \in 1 .. i PROVE q[j] \in front
      OBVIOUS
    <2>4. j - 1 \in Nat /\ j - 1 < i /\ (j - 1) + 1 = j
      BY <1>1
    <2>5. j - 1 \in T
      BY <2>3, <2>4
    <2> QED BY <2>4, <2>5
  <1>4. \A j \in i + 1 .. Len(q) : q[j] \notin front
    <2> DEFINE T == {n \in Nat : i + 1 + n <= Len(q) => q[i + 1 + n] \notin front}
    <2>1. 0 \in T
      <3> SUFFICES ASSUME i + 1 <= Len(q) PROVE q[i + 1] \notin front
        BY <1>1
      <3>1. i # Len(q)
        BY <1>1
      <3> QED BY <1>2, <3>1
    <2>2. ASSUME NEW n \in Nat, n \in T PROVE n + 1 \in T
      <3> DEFINE k == i + 1 + n
      <3> SUFFICES ASSUME k + 1 <= Len(q), q[k + 1] \in front PROVE FALSE
        <4>1. i + 1 + (n + 1) = k + 1
          BY <1>1
        <4> QED BY <4>1
      <3>1. k \in 1 .. Len(q) /\ k # Len(q) /\ k + 1 \in 1 .. Len(q) /\ k + 1 # 1
        BY <1>1
      <3>2. q[k] \notin front
        BY <2>2, <1>1
      <3> HIDE DEF k
      <3>3. m.prev[q[k + 1]] = q[k]
        BY <1>2, <3>1
      <3>4. q[k + 1] # x
        <4>1. 1 \in 1 .. Len(q)
          BY <1>1
        <4> QED BY <1>1, <1>2, <3>1, <4>1
      <3> QED BY <3>2, <3>3, <3>4
    <2>3. Nat \subseteq T
      <3> HIDE DEF T
      <3> QED BY <2>1, <2>2, SetInduction
    <2> SUFFICES ASSUME NEW j \in i + 1 .. Len(q) PROVE q[j] \notin front
      OBVIOUS
    <2>4. j - (i + 1) \in Nat /\ i + 1 + (j - (i + 1)) = j
      BY <1>1
    <2>5. j - (i + 1) \in T
      BY <2>3, <2>4
    <2> QED BY <2>4, <2>5
  <1>5. ASSUME NEW z \in front PROVE z \in Before(q, i) \union {e}
    <2>1. PICK j \in 1 .. Len(q) : z = q[j]
      BY <1>1
    <2>2. ~(j \in i + 1 .. Len(q))
      BY <1>4, <2>1
    <2>3. j \in 1 .. i - 1 \/ j = i
      BY <1>1, <2>2
    <2> QED BY <2>1, <2>3 DEF Before
  <1>6. Before(q, i) \subseteq front
    <2>1. \A j \in 1 .. i - 1 : j \in 1 .. i
      BY <1>1
    <2> QED BY <1>3, <2>1 DEF Before
  <1> QED BY <1>5, <1>6

(* The items before the i-th and the i-th.                                 *)
LEMMA FrontExtended ==
  ASSUME NEW s \in Seq(Entry), NEW i \in 1 .. Len(s)
  PROVE  SubSeq(s, 1, i - 1) \o <<s[i]>> = SubSeq(s, 1, i)
  <1> DEFINE a == SubSeq(s, 1, i - 1)
             u == a \o <<s[i]>>
             v == SubSeq(s, 1, i)
  <1>1. Len(s) \in Nat /\ i \in Nat /\ s[i] \in Entry
    OBVIOUS
  <1>2. a \in Seq(Entry) /\ Len(a) = i - 1 /\ \A j \in 1 .. i - 1 : a[j] = s[j]
    BY <1>1
  <1>3. v \in Seq(Entry) /\ Len(v) = i /\ \A j \in 1 .. i : v[j] = s[j]
    BY <1>1
  <1> HIDE DEF a, v
  <1>4. u \in Seq(Entry) /\ Len(u) = i /\ \A j \in 1 .. i : u[j] = s[j]
    BY <1>1, <1>2
  <1> HIDE DEF u
  <1>5. u = v
    BY <1>1, <1>3, <1>4
  <1> QED BY <1>5 DEF u, v, a

FrontOf(s, i) == SubSeq(s, 1, i)
RestOf(s, i)  == SubSeq(s, i + 1, Len(s))

(* The entries of h up to e become those of l, which had none.             *)
LEMMA CutRows ==
  ASSUME NEW m, NEW at, NEW ls, NEW q, Sound(m, at, ls, q),
         NEW l \in ls, NEW h \in ls, l # h, m.next[l] = l,
         NEW i \in 1 .. Len(q[h]), NEW e, e = q[h][i]
  PROVE  Rows(__list_cut_position(m, l, h, e),
              Moved(at, Before(q[h], i) \union {e}, l), ls,
              [q EXCEPT ![l] = FrontOf(q[h], i), ![h] = RestOf(q[h], i)])
  <1> USE DEF Sound
  <1> DEFINE r == __list_cut_position(m, l, h, e)
             a == SubSeq(q[h], 1, i - 1)
             b == SubSeq(q[h], i + 1, Len(q[h]))
             A == Before(q[h], i)
             B == After(q[h], i)
             to == Moved(at, A \union {e}, l)
  <1>13. e \in Entry
    <2>1. Row(m, q[h], m.next[h], h, Of(at, h))
      BY DEF Rows
    <2> QED BY <2>1 DEF Row
  <1>1. /\ h \in Heads /\ h \in Node /\ l \in Heads /\ l \in Node /\ e \in Node
        /\ h \notin Entry /\ l \notin Entry /\ e # h /\ e # l
    BY <1>13, ListAssumption DEF Node
  <1>2. \A x \in Node : r.next[x] = IF x = h THEN m.next[e]
                                    ELSE IF x = e THEN l
                                    ELSE IF x = l THEN m.next[h] ELSE m.next[x]
    BY <1>1 DEF __list_cut_position, Memory
  <1>3. \A k \in ls : Row(m, q[k], m.next[k], k, Of(at, k)) /\ Of(at, k) \subseteq Node
    BY DEF Rows, Of, Node
  <1>4. Of(at, l) = {}
    BY EmptyRows
  <1>5. /\ Of(at, h) = A \union {e} \union B
        /\ A \intersect B = {} /\ e \notin A /\ e \notin B
        /\ Row(m, a, m.next[h], e, A) /\ Row(m, b, m.next[e], h, B)
    BY <1>3, RowSplit
  <1> HIDE DEF r, a, b, A, B, to
  <1>6. \A x \in A \union {e} \union B : x \in Entry /\ x \in Node /\ at[x] = h /\ x # h /\ x # l
    BY <1>1, <1>3, <1>5 DEF Of
  <1>7. \A x \in Node : to[x] = IF x \in A \union {e} THEN l ELSE at[x]
    BY DEF to, Moved
  <1>8. Of(to, l) = A \union {e} /\ Of(to, h) = B
    <2>1. \A x \in Entry : at[x] # l
      BY <1>4 DEF Of
    <2>2. \A x \in Entry : x \in Of(at, h) <=> at[x] = h
      BY DEF Of
    <2>3. Of(to, l) = A \union {e}
      <3>1. \A x \in Entry : to[x] = l <=> x \in A \union {e}
        BY <1>7, <2>1 DEF Node
      <3> QED BY <1>6, <3>1 DEF Of
    <2>4. Of(to, h) = B
      <3>1. \A x \in Entry : to[x] = h <=> at[x] = h /\ x \notin A \union {e}
        BY <1>7 DEF Node
      <3>2. \A x \in Entry : to[x] = h <=> x \in B
        BY <1>5, <2>2, <3>1
      <3> QED BY <1>6, <3>2 DEF Of
    <2> QED BY <2>3, <2>4
  <1>9. ASSUME NEW k \in ls, k # h, k # l
        PROVE  Row(r, q[k], r.next[k], k, Of(to, k))
    <2>1. k \in Heads /\ k \in Node /\ k # e
      BY <1>1, ListAssumption DEF Node
    <2>2. Of(to, k) = Of(at, k)
      BY <1>6, <1>7, <1>9, <2>1 DEF Of, Node
    <2>3. \A x \in Of(at, k) : x \in Node /\ x # h /\ x # l /\ x # e
      BY <1>1, <1>3, <1>5, <1>6, <1>9 DEF Of
    <2>4. \A x \in Of(at, k) : r.next[x] = m.next[x]
      BY <1>2, <2>3
    <2>5. r.next[k] = m.next[k]
      BY <1>2, <1>9, <2>1
    <2> QED BY <1>3, <2>2, <2>4, <2>5, RowSame
  <1>10. Row(r, b, r.next[h], h, Of(to, h))
    <2>1. \A x \in B : r.next[x] = m.next[x]
      BY <1>2, <1>5, <1>6
    <2>2. r.next[h] = m.next[e]
      BY <1>1, <1>2
    <2> QED BY <1>5, <1>8, <2>1, <2>2, RowSame
  <1>11. Row(r, a \o <<e>>, r.next[l], l, Of(to, l))
    <2>1. \A x \in A : r.next[x] = m.next[x]
      BY <1>2, <1>5, <1>6
    <2>2. r.next[l] = m.next[h] /\ r.next[e] = l
      BY <1>1, <1>2
    <2>3. Row(r, a, m.next[h], e, A)
      <3>1. Row(m, a, m.next[h], e, A)
        BY <1>5
      <3> QED BY <2>1, <3>1, RowSame
    <2>4. Row(r, <<e>>, e, l, {e})
      BY <1>13, <2>2, RowOne
    <2>5. A \intersect {e} = {}
      BY <1>5
    <2> QED BY <1>8, <2>2, <2>3, <2>4, <2>5, RowJoin
  <1>12. a \o <<e>> = SubSeq(q[h], 1, i)
    BY <1>1, FrontExtended DEF a
  <1> QED BY <1>1, <1>9, <1>10, <1>11, <1>12 DEF Rows, r, b, A, to, FrontOf, RestOf

-----------------------------------------------------------------------------
(* The steps of IntrusiveList as steps of ListQueues.                      *)

(* The entries of every list are the row that Contents says, from where    *)
(* the loop over the list begins back to its head.                         *)
QInv == \A h \in Heads : Row(mem, Contents[h], First(h), h, Owned(h))

(* The lists, during a traversal too.                                      *)
LEMMA ListsSound ==
  ASSUME IInv, QInv
  PROVE  /\ Contents \in [Heads -> Seq(Entry)]
         /\ Sound(mem, At, lists, Contents)
         /\ \A h \in Heads : Of(At, h) = Owned(h)
  <1>1. \A h \in Heads : Of(At, h) = Owned(h)
    BY PlacesOf DEF IInv, Of, Owned
  <1>2. Contents \in [Heads -> Seq(Entry)]
    BY DEF QInv, Row, Contents
  <1>3. Rows(mem, At, lists, Contents)
    BY <1>1, PlacesOf DEF IInv, QInv, Rows, First
  <1>4. Sound(mem, At, lists, Contents)
    BY <1>2, <1>3, PlacesOf DEF IInv, Sound
  <1> QED BY <1>1, <1>2, <1>4

(* Outside a traversal only the lists have contents.                       *)
LEMMA Settled ==
  ASSUME IInv, QInv, walk = NULL
  PROVE  /\ Contents \in [Heads -> Seq(Entry)]
         /\ Sound(mem, At, lists, Contents)
         /\ \A h \in Heads \ lists : Contents[h] = << >>
         /\ \A h \in Heads : Of(At, h) = Owned(h)
         /\ Traversed = NULL
  <1>1. ASSUME NEW h \in Heads \ lists PROVE Contents[h] = << >>
    <2>1. Owned(h) = {}
      BY Unowned DEF Owned
    <2> QED BY <2>1, RowEnds DEF QInv
  <1> QED BY <1>1, ListsSound DEF Traversed

(* The rows after a step are the contents then.                            *)
LEMMA RowsAreContents ==
  ASSUME NEW q \in [Heads -> Seq(Entry)],
         \A h \in Heads : Row(mem', q[h], First(h)', h, Owned(h)')
  PROVE  QInv' /\ Contents' = q
  <1>1. \A h \in Heads : UpTo(mem', First(h)', h) = q[h]
    <2> SUFFICES ASSUME NEW h \in Heads PROVE UpTo(mem', First(h)', h) = q[h]
      OBVIOUS
    <2>1. h \notin Entry
      BY ListAssumption
    <2> QED BY <2>1, RowIsUpTo
  <1>2. Contents' = [h \in Heads |-> UpTo(mem', First(h)', h)]
    BY DEF Contents
  <1>3. Contents' = q
    BY <1>1, <1>2
  <1> QED BY <1>3 DEF QInv

(* After a step that leaves no traversal, the rows of the lists suffice.   *)
LEMMA Arrived ==
  ASSUME IInv', walk' = NULL,
         NEW to \in Places, \A e \in Entry : to[e] = owner'[e],
         NEW q \in [Heads -> Seq(Entry)], Rows(mem', to, lists', q),
         \A h \in Heads \ lists' : q[h] = << >>
  PROVE  QInv' /\ Contents' = q /\ Traversed' = NULL
  <1>1. ASSUME NEW h \in Heads
        PROVE  Row(mem', q[h], First(h)', h, Owned(h)')
    <2>1. CASE h \in lists'
      <3>1. First(h)' = mem'.next[h]
        BY <2>1 DEF First
      <3>2. Of(to, h) = Owned(h)'
        BY DEF Of, Owned
      <3> QED BY <2>1, <3>1, <3>2 DEF Rows
    <2>2. CASE h \notin lists'
      <3>1. First(h)' = h
        BY <2>2 DEF First
      <3>2. Owned(h)' = {}
        <4>1. owner' \in [Entry -> lists' \union {NULL}] /\ h # NULL
          BY ListAssumption DEF IInv, ListTypeOK, Node
        <4> QED BY <2>2, <4>1 DEF Owned
      <3>3. q[h] = << >>
        BY <2>2
      <3> QED BY <3>1, <3>2, <3>3, RowEmpty
    <2> QED BY <2>1, <2>2
  <1> QED BY <1>1, RowsAreContents DEF Traversed

(* The places after the entries of S were given to h.                      *)
LEMMA MovedPlaces ==
  ASSUME IInv, NEW S \in SUBSET Entry, NEW h \in Heads \union {NULL}, owner' = Given(S, h)
  PROVE  Moved(At, S, h) \in Places /\ \A x \in Entry : Moved(At, S, h)[x] = owner'[x]
  BY PlacesOf DEF IInv, Moved, Given, Places, Node

(* In the queues an entry is where its owner has it.                       *)
LEMMA OnOwner ==
  ASSUME QInv, NEW e \in Entry
  PROVE  Queues!On(e) = {h \in Heads : owner[e] = h}
  <1>1. ASSUME NEW h \in Heads
        PROVE  e \in Queues!ToSet(Contents[h]) <=> owner[e] = h
    <2>1. /\ Contents[h] \in Seq(Entry)
          /\ Owned(h) = {Contents[h][i] : i \in 1 .. Len(Contents[h])}
      BY DEF QInv, Row
    <2>2. Queues!ToSet(Contents[h]) = Owned(h)
      BY <2>1 DEF Queues!ToSet
    <2> QED BY <2>2 DEF Owned
  <1> QED BY <1>1 DEF Queues!On

(* One lemma per operation: the step of the queues that it is.             *)
LEMMA AddFirstQueues ==
  ASSUME IInv, QInv, IInv', NEW e \in Entry, NEW h \in Heads, AddFirst(e, h)
  PROVE  QInv' /\ Queues!PushFirst(e, h)
  <1> DEFINE to == Moved(At, {e}, h)
             q  == [Contents EXCEPT ![h] = <<e>> \o @]
  <1>1. /\ walk = NULL /\ walk' = NULL /\ owner[e] = NULL /\ h \in lists
        /\ lists' = lists /\ owner' = Given({e}, h) /\ mem' = list_add(mem, e, h)
    BY DEF AddFirst, Free
  <1>2. e \in Node /\ At[e] \notin lists
    BY <1>1, PlacesOf DEF IInv, Node
  <1>3. to \in Places /\ \A x \in Entry : to[x] = owner'[x]
    BY <1>1, MovedPlaces
  <1>4. q \in [Heads -> Seq(Entry)] /\ \A k \in Heads \ lists : q[k] = << >>
    BY <1>1, Settled
  <1>5. Rows(mem', to, lists', q)
    BY <1>1, <1>2, Settled, AddFirstRows
  <1>6. QInv' /\ Contents' = q /\ Traversed' = NULL
    <2> HIDE DEF to, q
    <2> QED BY <1>1, <1>3, <1>4, <1>5, Arrived
  <1>7. Queues!On(e) = {}
    BY <1>1, OnOwner, ListAssumption DEF Node
  <1>8. Traversed = NULL
    BY <1>1, Settled
  <1> QED BY <1>6, <1>7, <1>8 DEF Queues!PushFirst, Queues!Idle

LEMMA AddLastQueues ==
  ASSUME IInv, QInv, IInv', NEW e \in Entry, NEW h \in Heads, AddLast(e, h)
  PROVE  QInv' /\ Queues!PushLast(e, h)
  <1> DEFINE to == Moved(At, {e}, h)
             q  == [Contents EXCEPT ![h] = Append(@, e)]
  <1>1. /\ walk = NULL /\ walk' = NULL /\ owner[e] = NULL /\ h \in lists
        /\ lists' = lists /\ owner' = Given({e}, h) /\ mem' = list_add_tail(mem, e, h)
    BY DEF AddLast, Free
  <1>2. e \in Node /\ At[e] \notin lists
    BY <1>1, PlacesOf DEF IInv, Node
  <1>3. to \in Places /\ \A x \in Entry : to[x] = owner'[x]
    BY <1>1, MovedPlaces
  <1>4. q \in [Heads -> Seq(Entry)] /\ \A k \in Heads \ lists : q[k] = << >>
    BY <1>1, Settled
  <1>5. Rows(mem', to, lists', q)
    BY <1>1, <1>2, Settled, AddLastRows
  <1>6. QInv' /\ Contents' = q /\ Traversed' = NULL
    <2> HIDE DEF to, q
    <2> QED BY <1>1, <1>3, <1>4, <1>5, Arrived
  <1>7. Queues!On(e) = {}
    BY <1>1, OnOwner, ListAssumption DEF Node
  <1>8. Traversed = NULL
    BY <1>1, Settled
  <1> QED BY <1>6, <1>7, <1>8 DEF Queues!PushLast, Queues!Idle

(* The place of an entry in the sequence of its list.                      *)
LEMMA IndexOf ==
  ASSUME IInv, QInv, NEW e \in Entry, NEW h \in Heads, owner[e] = h
  PROVE  /\ Contents[h] \in Seq(Entry)
         /\ \E i \in 1 .. Len(Contents[h]) : Contents[h][i] = e
  <1>1. e \in Owned(h) /\ Row(mem, Contents[h], First(h), h, Owned(h))
    BY DEF Owned, QInv
  <1> QED BY <1>1 DEF Row

(* Taking an entry out, whatever its own pointers become.                  *)
LEMMA RemoveQueues ==
  ASSUME IInv, QInv, IInv', NEW e \in Entry, walk = NULL, owner[e] \in lists,
         \A x \in Node : x # e => mem'.next[x] = Unlinked(mem, e).next[x],
         owner' = Given({e}, NULL), lists' = lists, walk' = walk
  PROVE  QInv' /\ Queues!Take(e)
  <1> DEFINE h  == owner[e]
             to == Moved(At, {e}, NULL)
  <1>1. e \in Node /\ At[e] = h /\ h \in lists /\ h \in Heads /\ NULL \notin lists
    BY PlacesOf DEF IInv, Node
  <1>2. PICK i \in 1 .. Len(Contents[h]) : Contents[h][i] = e
    BY <1>1, IndexOf
  <1> DEFINE q == [Contents EXCEPT ![h] = Omit(@, i)]
  <1>3. to \in Places /\ \A x \in Entry : to[x] = owner'[x]
    BY MovedPlaces
  <1>4. q \in [Heads -> Seq(Entry)] /\ \A k \in Heads \ lists : q[k] = << >>
    <2>1. Contents \in [Heads -> Seq(Entry)] /\ Len(Contents[h]) \in Nat
      BY <1>1, Settled
    <2>2. Omit(Contents[h], i) \in Seq(Entry)
      BY <1>1, <2>1 DEF Omit
    <2> QED BY <1>1, <2>1, <2>2, Settled
  <1>5. Rows(Unlinked(mem, e), to, lists, q)
    BY <1>1, <1>2, Settled, DelRows
  <1>6. Rows(mem', to, lists, q)
    <2>1. to[e] = NULL /\ \A k \in Heads : to[k] = k
      BY <1>1, PlacesOf, ListAssumption DEF IInv, Moved, Node
    <2>2. \A x \in Node : to[x] \in lists => mem'.next[x] = Unlinked(mem, e).next[x]
      BY <1>1, <2>1
    <2>3. lists \in SUBSET Heads
      BY PlacesOf DEF IInv
    <2> HIDE DEF to, q
    <2> QED BY <1>5, <2>1, <2>2, <2>3, OffListRows
  <1>7. QInv' /\ Contents' = q /\ Traversed' = NULL
    <2> HIDE DEF to, q
    <2> QED BY <1>3, <1>4, <1>6, Arrived
  <1>8. Traversed = NULL
    BY Settled
  <1>9. i \in DOMAIN Contents[h]
    BY <1>1, Settled
  <1> QED BY <1>1, <1>2, <1>7, <1>8, <1>9
          DEF Queues!Take, Queues!Idle, Queues!Without, Queues!RemoveAt, Omit

LEMMA DeleteQueues ==
  ASSUME IInv, QInv, IInv', NEW e \in Entry, Delete(e) \/ DeleteInit(e)
  PROVE  QInv' /\ Queues!Take(e)
  BY DeleteShape, RemoveQueues

LEMMA RemoveFirstQueues ==
  ASSUME IInv, QInv, IInv', NEW h \in Heads, RemoveFirst(h)
  PROVE  QInv' /\ \E e \in Entry : Queues!Take(e)
  <1>1. PICK e \in Entry :
           /\ walk = NULL /\ owner[e] \in lists /\ mem' \in Memory
           /\ \A x \in Node : x # e => mem'.next[x] = Unlinked(mem, e).next[x]
                                    /\ mem'.prev[x] = Unlinked(mem, e).prev[x]
           /\ owner' = Given({e}, NULL) /\ lists' = lists /\ walk' = walk
    BY RemoveFirstShape
  <1>2. QInv' /\ Queues!Take(e)
    BY <1>1, RemoveQueues
  <1> QED BY <1>2

(* What is left when e is taken out.                                       *)
LEMMA UnlinkedSound ==
  ASSUME IInv, QInv, walk = NULL, NEW e \in Entry, owner[e] \in lists,
         NEW i \in 1 .. Len(Contents[owner[e]]), Contents[owner[e]][i] = e
  PROVE  Sound(Unlinked(mem, e), Moved(At, {e}, NULL), lists,
               [Contents EXCEPT ![owner[e]] = Omit(@, i)])
  <1> DEFINE h == owner[e]
             u == Unlinked(mem, e)
             off == Moved(At, {e}, NULL)
             q == [Contents EXCEPT ![h] = Omit(@, i)]
  <1>1. /\ e \in Node /\ At[e] = h /\ h \in lists /\ h \in Heads /\ NULL \notin lists
        /\ At[e] # e
    BY PlacesOf DEF IInv, Node
  <1>2. Rows(u, off, lists, q)
    BY <1>1, Settled, DelRows
  <1>3. q \in [Heads -> Seq(Entry)]
    <2>1. Contents \in [Heads -> Seq(Entry)] /\ Len(Contents[h]) \in Nat
      BY <1>1, Settled
    <2>2. Omit(Contents[h], i) \in Seq(Entry)
      BY <1>1, <2>1 DEF Omit
    <2> QED BY <2>1, <2>2
  <1>4. u \in Memory
    BY Neighbours
  <1>5. /\ off \in Places /\ off[e] = NULL /\ \A x \in Node : x # e => off[x] = At[x]
        /\ \A k \in Heads : off[k] = k
    BY <1>1, PlacesOf DEF IInv, Moved, Places, Node
  <1>6. Rings(u, off, lists)
    <2> HIDE DEF u, off
    <2>1. \A x \in Node : x # e => u.next[x] = Unlinked(mem, e).next[x]
                                /\ u.prev[x] = Unlinked(mem, e).prev[x]
      BY DEF u
    <2> QED BY <1>1, <1>4, <1>5, <2>1, PlacesOf, DelRings DEF IInv
  <1>7. lists \in SUBSET Heads
    BY PlacesOf DEF IInv
  <1> QED BY <1>2, <1>3, <1>4, <1>5, <1>6, <1>7 DEF Sound

LEMMA MoveQueues ==
  ASSUME IInv, QInv, IInv', NEW e \in Entry, NEW h \in Heads, Move(e, h) \/ MoveTail(e, h)
  PROVE  QInv' /\ (Queues!MoveFirst(e, h) \/ Queues!MoveLast(e, h))
  <1> DEFINE g   == owner[e]
             u   == Unlinked(mem, e)
             off == Moved(At, {e}, NULL)
             to  == Moved(off, {e}, h)
  <1>1. /\ walk = NULL /\ walk' = NULL /\ g \in lists /\ h \in lists
        /\ lists' = lists /\ owner' = Given({e}, h)
        /\ mem' = list_add(u, e, h) \/ mem' = list_add_tail(u, e, h)
    BY DEF Move, MoveTail, Linked, list_move, list_move_tail
  <1>2. PICK i \in 1 .. Len(Contents[g]) : Contents[g][i] = e
    BY <1>1, IndexOf, PlacesOf DEF IInv
  <1> DEFINE p == [Contents EXCEPT ![g] = Omit(@, i)]
  <1>3. Sound(u, off, lists, p)
    BY <1>1, <1>2, UnlinkedSound
  <1>4. off[e] \notin lists
    BY <1>1, PlacesOf DEF IInv, Moved, Node
  <1>5. to \in Places /\ \A x \in Entry : to[x] = owner'[x]
    <2>1. e \in Node /\ \A x \in Node : to[x] = IF x = e THEN h ELSE At[x]
      BY DEF Moved, Node
    <2> QED BY <1>1, <2>1, PlacesOf DEF IInv, Moved, Places, Given, Node
  <1>6. /\ Contents \in [Heads -> Seq(Entry)] /\ p \in [Heads -> Seq(Entry)]
        /\ \A k \in Heads \ lists : p[k] = << >>
    <2>1. p \in [Heads -> Seq(Entry)]
      BY <1>3 DEF Sound
    <2> QED BY <1>1, <2>1, Settled
  <1>7. Traversed = NULL /\ g \in Heads /\ i \in DOMAIN Contents[g]
    <2>1. g \in Heads /\ Contents[g] \in Seq(Entry)
      BY <1>1, <1>6, PlacesOf DEF IInv
    <2> QED BY <1>1, <2>1, Settled
  <1>8. p = Queues!Without(g, i)
    BY DEF Queues!Without, Queues!RemoveAt, Omit
  <1> HIDE DEF g, off, to, u, p
  <1>9. CASE mem' = list_add(u, e, h)
    <2> DEFINE q == [p EXCEPT ![h] = <<e>> \o @]
    <2>1. Rows(mem', to, lists', q)
      BY <1>1, <1>3, <1>4, <1>9, AddFirstRows DEF to
    <2>2. q \in [Heads -> Seq(Entry)] /\ \A k \in Heads \ lists' : q[k] = << >>
      BY <1>1, <1>6
    <2>3. QInv' /\ Contents' = q /\ Traversed' = NULL
      <3> HIDE DEF q
      <3> QED BY <1>1, <1>5, <2>1, <2>2, Arrived
    <2> QED BY <1>2, <1>7, <1>8, <2>3 DEF Queues!MoveFirst, Queues!Idle
  <1>10. CASE mem' = list_add_tail(u, e, h)
    <2> DEFINE q == [p EXCEPT ![h] = Append(@, e)]
    <2>1. Rows(mem', to, lists', q)
      BY <1>1, <1>3, <1>4, <1>10, AddLastRows DEF to
    <2>2. q \in [Heads -> Seq(Entry)] /\ \A k \in Heads \ lists' : q[k] = << >>
      BY <1>1, <1>6
    <2>3. QInv' /\ Contents' = q /\ Traversed' = NULL
      <3> HIDE DEF q
      <3> QED BY <1>1, <1>5, <2>1, <2>2, Arrived
    <2> QED BY <1>2, <1>7, <1>8, <2>3 DEF Queues!MoveLast, Queues!Idle
  <1> QED BY <1>1, <1>9, <1>10

LEMMA ReplaceQueues ==
  ASSUME IInv, QInv, IInv', NEW e \in Entry, NEW f \in Entry, Replace(e, f)
  PROVE  QInv' /\ Queues!Substitute(e, f)
  <1> DEFINE h == owner[e]
             to == [[At EXCEPT ![f] = h] EXCEPT ![e] = NULL]
             r == list_replace(mem, e, f)
  <1>1. /\ walk = NULL /\ walk' = NULL /\ h \in lists /\ owner[f] = NULL
        /\ mem' = INIT_LIST_HEAD(r, e) /\ lists' = lists
        /\ owner' = [owner EXCEPT ![f] = h, ![e] = NULL]
    BY DEF Replace, Linked, Free, list_replace_init
  <1>2. /\ e \in Node /\ f \in Node /\ At[e] = h /\ At[f] = NULL /\ e # f
        /\ h \in Heads /\ NULL \notin lists /\ h # NULL
    BY <1>1, PlacesOf DEF IInv, Node
  <1>3. /\ to \in Places /\ to[f] = h /\ to[e] = NULL
        /\ \A x \in Node : x # e /\ x # f => to[x] = At[x]
    BY <1>1, <1>2, PlacesOf DEF IInv, Places
  <1>4. \A x \in Entry : to[x] = owner'[x]
    <2>1. owner \in [Entry -> lists \union {NULL}]
      BY <1>1 DEF IInv, ListTypeOK
    <2> QED BY <1>1, <1>2, <1>3, <2>1, PlacesOf DEF IInv, Node
  <1>5. /\ mem' \in Memory
        /\ \A x \in Node : x # e => mem'.next[x] = r.next[x]
    <2>1. mem' \in Memory
      BY DEF IInv, ListTypeOK, Memory
    <2>2. mem'.next = [r.next EXCEPT ![e] = e]
      BY <1>1 DEF INIT_LIST_HEAD
    <2>3. mem'.next \in [Node -> Pointer]
      BY <2>1 DEF Memory
    <2>4. mem.next[e] \in Node /\ mem.prev[e] \in Node
      BY <1>1, Neighbours
    <2>5. DOMAIN r.next = Node
      BY PlacesOf DEF IInv, list_replace, Memory
    <2> HIDE DEF r
    <2> QED BY <1>2, <2>1, <2>2, <2>3, <2>5
  <1>6. PICK i \in 1 .. Len(Contents[h]) : Contents[h][i] = e
    BY <1>2, IndexOf
  <1> DEFINE q == [Contents EXCEPT ![h][i] = f]
  <1>7. Contents \in [Heads -> Seq(Entry)] /\ Traversed = NULL
        /\ \A k \in Heads \ lists : Contents[k] = << >>
    BY <1>1, Settled
  <1>8. q \in [Heads -> Seq(Entry)] /\ \A k \in Heads \ lists' : q[k] = << >>
    <2>1. [Contents[h] EXCEPT ![i] = f] \in Seq(Entry)
      BY <1>2, <1>7
    <2> QED BY <1>1, <1>2, <1>7, <2>1
  <1>9. Rows(mem', to, lists', q)
    <2>1. Sound(mem, At, lists, Contents)
      BY <1>1, Settled
    <2>2. At[f] \notin lists /\ to[e] \notin lists
      BY <1>2, <1>3
    <2> HIDE DEF to, h, r
    <2> QED BY <1>1, <1>2, <1>3, <1>5, <1>6, <2>1, <2>2, ReplaceRows DEF r
  <1>10. QInv' /\ Contents' = q /\ Traversed' = NULL
    <2> HIDE DEF to, q
    <2> QED BY <1>1, <1>3, <1>4, <1>8, <1>9, Arrived
  <1>11. Queues!On(f) = {} /\ h \in Queues!On(e)
    BY <1>1, <1>2, OnOwner, ListAssumption DEF Node
  <1>12. i \in DOMAIN Contents[h]
    BY <1>2, <1>7
  <1> QED BY <1>6, <1>7, <1>10, <1>11, <1>12 DEF Queues!Substitute, Queues!Idle

LEMMA ReplaceInitQueues ==
  ASSUME IInv, QInv, IInv', NEW h \in Heads, NEW l \in Heads, ReplaceInit(h, l)
  PROVE  QInv' /\ Queues!JoinFirst(h, l)
  <1> DEFINE to == Moved(At, Owned(h), l)
             q  == [Contents EXCEPT ![l] = Contents[h], ![h] = << >>]
  <1>1. /\ walk = NULL /\ walk' = NULL /\ h \in lists /\ l \in Heads \ lists /\ h # l
        /\ lists' = lists \union {l} /\ owner' = Given(Owned(h), l)
        /\ mem' = list_replace_init(mem, h, l)
    BY DEF ReplaceInit
  <1>2. \A x \in Node : x # l => At[x] # l
    BY <1>1, Unowned
  <1>3. to \in Places /\ \A x \in Entry : to[x] = owner'[x]
    BY <1>1, MovedPlaces DEF Owned
  <1>4. Contents \in [Heads -> Seq(Entry)] /\ Contents[l] = << >> /\ Traversed = NULL
    BY <1>1, Settled
  <1>5. q \in [Heads -> Seq(Entry)] /\ \A k \in Heads \ lists' : q[k] = << >>
    BY <1>1, <1>4, Settled
  <1>6. Rows(mem', to, lists', q)
    <2>1. Sound(mem, At, lists, Contents) /\ Of(At, h) = Owned(h)
      BY <1>1, Settled
    <2>2. Rows(list_replace_init(mem, h, l), Moved(At, Of(At, h), l), lists \union {l}, q)
      BY <1>1, <1>2, <2>1, DetachRows
    <2> QED BY <1>1, <2>1, <2>2
  <1>7. QInv' /\ Contents' = q /\ Traversed' = NULL
    <2> HIDE DEF to, q
    <2> QED BY <1>1, <1>3, <1>5, <1>6, Arrived
  <1>8. q = [Contents EXCEPT ![h] = << >>, ![l] = Contents[h] \o @]
    <2>1. Contents[h] \o Contents[l] = Contents[h]
      BY <1>4
    <2> QED BY <1>1, <1>4, <2>1
  <1> HIDE DEF q
  <1> QED BY <1>1, <1>4, <1>7, <1>8 DEF Queues!JoinFirst, Queues!Idle

(* A head that becomes an empty list.                                      *)
LEMMA InitHeadQueues ==
  ASSUME IInv, QInv, IInv', NEW l \in Local, InitHead(l)
  PROVE  QInv' /\ Contents' = Contents /\ Traversed' = Traversed
  <1>1. /\ walk = NULL /\ walk' = NULL /\ l \in Heads /\ l \notin lists /\ l \in Node
        /\ mem' = INIT_LIST_HEAD(mem, l) /\ lists' = lists \union {l} /\ owner' = owner
    BY DEF InitHead, Heads, Node
  <1>2. At[l] = l /\ \A x \in Node : At[x] = l => x = l
    BY <1>1, PlacesOf, Unowned DEF IInv
  <1>3. mem'.next[l] = l /\ \A x \in Node : x # l => mem'.next[x] = mem.next[x]
    BY <1>1, PlacesOf DEF IInv, INIT_LIST_HEAD, Memory
  <1>4. Contents \in [Heads -> Seq(Entry)] /\ \A k \in Heads \ lists : Contents[k] = << >>
    BY <1>1, Settled
  <1>5. Rows(mem', At, lists, Contents)
    <2>1. Rows(mem, At, lists, Contents)
      BY <1>1, Settled DEF Sound
    <2>2. \A x \in Node : At[x] \in lists => mem'.next[x] = mem.next[x]
      BY <1>1, <1>2, <1>3
    <2> QED BY <2>1, <2>2, PlacesOf, OffListRows DEF IInv
  <1>6. Row(mem', Contents[l], mem'.next[l], l, Of(At, l))
    <2>1. Of(At, l) = {} /\ Contents[l] = << >>
      BY <1>1, <1>2, <1>4, ListAssumption DEF Of, Node
    <2> QED BY <1>3, <2>1, RowEmpty
  <1>7. Rows(mem', At, lists', Contents)
    BY <1>1, <1>5, <1>6 DEF Rows
  <1>8. At \in Places /\ \A x \in Entry : At[x] = owner'[x]
    BY <1>1, PlacesOf DEF IInv
  <1>9. QInv' /\ Contents' = Contents /\ Traversed' = NULL
    BY <1>1, <1>4, <1>7, <1>8, Arrived
  <1> QED BY <1>1, <1>9, Settled

(* The frame of an empty list is left.                                     *)
LEMMA ReturnQueues ==
  ASSUME IInv, QInv, IInv', NEW l \in Local, Return(l)
  PROVE  QInv' /\ Contents' = Contents /\ Traversed' = Traversed
  <1>1. /\ walk = NULL /\ walk' = NULL /\ l \in lists /\ l \in Heads /\ l \in Node
        /\ mem.next[l] = l /\ mem' = Gone(mem, l) /\ lists' = lists \ {l}
        /\ owner' = Given(Owned(l), NULL)
    BY DEF Return, list_empty, Heads, Node
  <1>2. Contents[l] = << >> /\ Owned(l) = {}
    BY <1>1, Settled, EmptyRows
  <1>3. Contents \in [Heads -> Seq(Entry)] /\ \A k \in Heads \ lists' : Contents[k] = << >>
    BY <1>1, <1>2, Settled
  <1>4. Rows(mem', At, lists', Contents)
    <2>1. Rows(mem, At, lists', Contents)
      BY <1>1, Settled DEF Sound, Rows
    <2>2. \A x \in Node : x # l => mem'.next[x] = mem.next[x]
      BY <1>1, PlacesOf DEF IInv, Gone, Memory
    <2>3. At[l] = l /\ lists' \in SUBSET Heads
      BY <1>1, PlacesOf DEF IInv
    <2>4. \A x \in Node : At[x] \in lists' => mem'.next[x] = mem.next[x]
      BY <1>1, <2>2, <2>3
    <2> QED BY <2>1, <2>3, <2>4, PlacesOf, OffListRows DEF IInv
  <1>5. At \in Places /\ \A x \in Entry : At[x] = owner'[x]
    BY <1>1, <1>2, PlacesOf DEF IInv, Given
  <1>6. QInv' /\ Contents' = Contents /\ Traversed' = NULL
    BY <1>1, <1>3, <1>4, <1>5, Arrived
  <1> QED BY <1>1, <1>6, Settled

(* The lists after joining l to h, before anything is done to the head l.  *)
LEMMA JoinedRows ==
  ASSUME IInv, QInv, NEW l \in Heads, NEW h \in Heads, Joined(l, h),
         NEW r, NEW q \in [Heads -> Seq(Entry)],
         \/ /\ r = list_splice(mem, l, h)
            /\ q = [Contents EXCEPT ![l] = << >>, ![h] = Contents[l] \o @]
         \/ /\ r = list_splice_tail(mem, l, h)
            /\ q = [Contents EXCEPT ![l] = << >>, ![h] = @ \o Contents[l]]
  PROVE  /\ Rows(r, Moved(At, Owned(l), h), lists \ {l}, q)
         /\ mem.next[l] = l => r = mem /\ Rows(r, Moved(At, Owned(l), h), lists, q)
  <1> DEFINE to == Moved(At, Owned(l), h)
  <1>1. walk = NULL /\ l \in lists /\ h \in lists /\ l # h
    BY DEF Joined
  <1>2. /\ Sound(mem, At, lists, Contents) /\ Of(At, l) = Owned(l)
        /\ Contents \in [Heads -> Seq(Entry)]
    BY <1>1, Settled
  <1>3. CASE mem.next[l] = l
    <2>1. r = mem
      BY <1>3 DEF list_splice, list_splice_tail, list_empty
    <2>2. Contents[l] = << >>
      BY <1>1, <1>2, <1>3, EmptyRows
    <2>3. Contents[h] \in Seq(Entry)
      BY <1>2
    <2>4. << >> \o Contents[h] = Contents[h] /\ Contents[h] \o << >> = Contents[h]
      BY <2>3
    <2>5. q = Contents
      <3>1. q = [Contents EXCEPT ![l] = << >>, ![h] = Contents[h]]
        <4>1. CASE q = [Contents EXCEPT ![l] = << >>, ![h] = Contents[l] \o @]
          BY <1>1, <2>2, <2>4, <4>1
        <4>2. CASE q = [Contents EXCEPT ![l] = << >>, ![h] = @ \o Contents[l]]
          BY <1>1, <2>2, <2>4, <4>2
        <4> QED BY <4>1, <4>2
      <3>2. \A k \in Heads : q[k] = Contents[k]
        BY <1>2, <2>2, <3>1
      <3> QED BY <1>2, <3>2
    <2>6. Rows(mem, to, lists, Contents)
      BY <1>1, <1>2, <1>3, JoinNoneRows
    <2>7. Rows(mem, to, lists \ {l}, Contents)
      BY <2>6 DEF Rows
    <2> QED BY <2>1, <2>5, <2>6, <2>7
  <1>4. CASE mem.next[l] # l
    <2>1. CASE /\ r = list_splice(mem, l, h)
               /\ q = [Contents EXCEPT ![l] = << >>, ![h] = Contents[l] \o @]
      BY <1>1, <1>2, <1>4, <2>1, JoinFirstRows
    <2>2. CASE /\ r = list_splice_tail(mem, l, h)
               /\ q = [Contents EXCEPT ![l] = << >>, ![h] = @ \o Contents[l]]
      BY <1>1, <1>2, <1>4, <2>2, JoinLastRows
    <2> QED BY <1>4, <2>1, <2>2
  <1> QED BY <1>3, <1>4

(* What the head l becomes: left behind, or an empty list.                 *)
LEMMA JoinedEnd ==
  ASSUME IInv, QInv, IInv', NEW l \in Heads, NEW h \in Heads, Joined(l, h),
         NEW r, NEW q \in [Heads -> Seq(Entry)],
         \/ /\ r = list_splice(mem, l, h)
            /\ q = [Contents EXCEPT ![l] = << >>, ![h] = Contents[l] \o @]
         \/ /\ r = list_splice_tail(mem, l, h)
            /\ q = [Contents EXCEPT ![l] = << >>, ![h] = @ \o Contents[l]],
         \/ mem' = Gone(r, l) /\ lists' = lists \ {l}
         \/ mem' = INIT_LIST_HEAD(r, l) /\ lists' = lists
         \/ mem.next[l] = l /\ mem' = mem /\ lists' = lists
  PROVE  QInv' /\ Contents' = q /\ Traversed' = NULL
  <1> DEFINE to == Moved(At, Owned(l), h)
  <1>1. /\ walk = NULL /\ walk' = NULL /\ l \in lists /\ h \in lists /\ l # h
        /\ l \in Node /\ owner' = Given(Owned(l), h)
    BY DEF Joined, Node
  <1>2. Rows(r, to, lists \ {l}, q)
    BY JoinedRows
  <1>3. mem.next[l] = l => Rows(mem, to, lists, q)
    BY JoinedRows
  <1>4. r \in Memory
    BY SplicedRings
  <1>5. /\ to \in Places /\ (\A x \in Entry : to[x] = owner'[x])
        /\ \A k \in Heads : to[k] = k
    <2>1. Owned(l) \in SUBSET Entry /\ \A k \in Heads : k \notin Owned(l) /\ k \in Node
      BY ListAssumption DEF Owned, Node
    <2>2. \A k \in Heads : to[k] = k
      BY <2>1, PlacesOf DEF IInv, Moved
    <2> QED BY <1>1, <2>1, <2>2, MovedPlaces
  <1>6. Of(to, l) = {}
    BY <1>1, PlacesOf DEF IInv, Of, Moved, Owned, Node
  <1>7. q[l] = << >> /\ \A k \in Heads \ lists : q[k] = << >>
    BY <1>1, Settled
  <1>8. lists \ {l} \in SUBSET Heads /\ lists = (lists \ {l}) \union {l}
    BY <1>1, PlacesOf DEF IInv
  <1> HIDE DEF to
  <1>9. Rows(mem', to, lists', q)
    <2>1. CASE mem' = Gone(r, l) /\ lists' = lists \ {l}
      <3>1. \A x \in Node : x # l => mem'.next[x] = r.next[x]
        BY <1>1, <1>4, <2>1 DEF Gone, Memory
      <3>2. \A x \in Node : to[x] \in lists' => mem'.next[x] = r.next[x]
        BY <1>5, <2>1, <3>1
      <3> QED BY <1>2, <1>5, <1>8, <2>1, <3>2, OffListRows
    <2>2. CASE mem' = INIT_LIST_HEAD(r, l) /\ lists' = lists
      <3>1. mem'.next[l] = l /\ \A x \in Node : x # l => mem'.next[x] = r.next[x]
        BY <1>1, <1>4, <2>2 DEF INIT_LIST_HEAD, Memory
      <3>2. \A x \in Node : to[x] \in lists \ {l} => mem'.next[x] = r.next[x]
        BY <1>5, <3>1
      <3>3. Rows(mem', to, lists \ {l}, q)
        BY <1>2, <1>5, <1>8, <3>2, OffListRows
      <3>4. Row(mem', q[l], mem'.next[l], l, Of(to, l))
        BY <1>6, <1>7, <3>1, RowEmpty
      <3> QED BY <1>8, <2>2, <3>3, <3>4 DEF Rows
    <2>3. CASE mem.next[l] = l /\ mem' = mem /\ lists' = lists
      BY <1>3, <2>3
    <2> QED BY <2>1, <2>2, <2>3
  <1>10. \A k \in Heads \ lists' : q[k] = << >>
    BY <1>7
  <1> QED BY <1>1, <1>5, <1>9, <1>10, Arrived

LEMMA SpliceQueues ==
  ASSUME IInv, QInv, IInv', NEW l \in Heads, NEW h \in Heads,
         Splice(l, h) \/ SpliceInit(l, h)
  PROVE  QInv' /\ Queues!JoinFirst(l, h)
  <1> DEFINE r == list_splice(mem, l, h)
             q == [Contents EXCEPT ![l] = << >>, ![h] = Contents[l] \o @]
  <1>1. /\ Joined(l, h) /\ walk = NULL /\ l # h
        /\ \/ mem' = Gone(r, l) /\ lists' = lists \ {l}
           \/ mem' = INIT_LIST_HEAD(r, l) /\ lists' = lists
           \/ mem.next[l] = l /\ mem' = mem /\ lists' = lists
    BY DEF Splice, SpliceInit, Joined, list_splice_init, list_empty
  <1>2. Contents \in [Heads -> Seq(Entry)] /\ Traversed = NULL
    BY <1>1, Settled
  <1>3. q \in [Heads -> Seq(Entry)]
    <2> DEFINE s == Contents[l] \o Contents[h]
    <2>1. s \in Seq(Entry)
      BY <1>2
    <2>2. q = [Contents EXCEPT ![l] = << >>, ![h] = s]
      BY <1>1, <1>2
    <2>3. << >> \in Seq(Entry)
      OBVIOUS
    <2> HIDE DEF q, s
    <2>4. \A k \in Heads : q[k] = IF k = h THEN s ELSE IF k = l THEN << >> ELSE Contents[k]
      BY <1>1, <1>2, <2>2
    <2>5. q = [k \in Heads |-> q[k]]
      BY <1>2, <2>2
    <2> QED BY <1>2, <2>1, <2>3, <2>4, <2>5
  <1>4. QInv' /\ Contents' = q /\ Traversed' = NULL
    <2>1. /\ r = list_splice(mem, l, h)
          /\ q = [Contents EXCEPT ![l] = << >>, ![h] = Contents[l] \o @]
      OBVIOUS
    <2> HIDE DEF r, q
    <2> QED BY <1>1, <1>3, <2>1, JoinedEnd
  <1> QED BY <1>1, <1>2, <1>4 DEF Queues!JoinFirst, Queues!Idle

LEMMA SpliceTailQueues ==
  ASSUME IInv, QInv, IInv', NEW l \in Heads, NEW h \in Heads,
         SpliceTail(l, h) \/ SpliceTailInit(l, h)
  PROVE  QInv' /\ Queues!JoinLast(l, h)
  <1> DEFINE r == list_splice_tail(mem, l, h)
             q == [Contents EXCEPT ![l] = << >>, ![h] = @ \o Contents[l]]
  <1>1. /\ Joined(l, h) /\ walk = NULL /\ l # h
        /\ \/ mem' = Gone(r, l) /\ lists' = lists \ {l}
           \/ mem' = INIT_LIST_HEAD(r, l) /\ lists' = lists
           \/ mem.next[l] = l /\ mem' = mem /\ lists' = lists
    BY DEF SpliceTail, SpliceTailInit, Joined, list_splice_tail_init, list_empty
  <1>2. Contents \in [Heads -> Seq(Entry)] /\ Traversed = NULL
    BY <1>1, Settled
  <1>3. q \in [Heads -> Seq(Entry)]
    <2> DEFINE s == Contents[h] \o Contents[l]
    <2>1. s \in Seq(Entry)
      BY <1>2
    <2>2. q = [Contents EXCEPT ![l] = << >>, ![h] = s]
      BY <1>1, <1>2
    <2>3. << >> \in Seq(Entry)
      OBVIOUS
    <2> HIDE DEF q, s
    <2>4. \A k \in Heads : q[k] = IF k = h THEN s ELSE IF k = l THEN << >> ELSE Contents[k]
      BY <1>1, <1>2, <2>2
    <2>5. q = [k \in Heads |-> q[k]]
      BY <1>2, <2>2
    <2> QED BY <1>2, <2>1, <2>3, <2>4, <2>5
  <1>4. QInv' /\ Contents' = q /\ Traversed' = NULL
    <2>1. /\ r = list_splice_tail(mem, l, h)
          /\ q = [Contents EXCEPT ![l] = << >>, ![h] = @ \o Contents[l]]
      OBVIOUS
    <2> HIDE DEF r, q
    <2> QED BY <1>1, <1>3, <2>1, JoinedEnd
  <1> QED BY <1>1, <1>2, <1>4 DEF Queues!JoinLast, Queues!Idle

(* list_cut_position leaves everything alone, or splits the list.          *)
LEMMA CutQueues ==
  ASSUME IInv, QInv, IInv', NEW l \in Heads, NEW h \in Heads,
         NEW e \in Entry \union {h}, Cut(l, h, e)
  PROVE  \/ UNCHANGED vars
         \/ QInv' /\ Queues!Split(l, h)
  <1>1. /\ walk = NULL /\ walk' = NULL /\ l \in lists /\ h \in lists /\ l # h
        /\ mem.next[l] = l /\ mem' = list_cut_position(mem, l, h, e) /\ lists' = lists
    BY DEF Cut, list_empty
  <1>2. /\ l \in Node /\ h \in Node /\ e \in Node /\ At[l] = l /\ At[h] = h
        /\ mem.prev[l] = l
    BY <1>1, PlacesOf DEF IInv, Rings, Node
  <1>3. CASE CutLeavesAlone(mem, h, e) \/ e = h
    <2>1. owner' = owner
      BY <1>3 DEF Cut
    <2>2. mem' = mem
      <3>1. CASE CutLeavesAlone(mem, h, e)
        BY <1>1, <3>1 DEF list_cut_position
      <3>2. CASE ~CutLeavesAlone(mem, h, e)
        <4>1. mem' = INIT_LIST_HEAD(mem, l)
          BY <1>1, <1>3, <3>2 DEF list_cut_position
        <4> QED BY <1>1, <1>2, <4>1, PlacesOf DEF IInv, INIT_LIST_HEAD, Memory
      <3> QED BY <3>1, <3>2
    <2> QED BY <1>1, <2>1, <2>2 DEF vars
  <1>4. CASE ~CutLeavesAlone(mem, h, e) /\ e # h
    <2>1. PICK front \in SUBSET Owned(h) : IsFront(front, h, e) /\ owner' = Given(front, l)
      BY <1>4 DEF Cut
    <2> DEFINE s  == Contents[h]
               to == Moved(At, front, l)
    <2>2. /\ Contents \in [Heads -> Seq(Entry)] /\ s \in Seq(Entry)
          /\ Sound(mem, At, lists, Contents) /\ Traversed = NULL
          /\ Row(mem, s, mem.next[h], h, Owned(h))
      BY <1>1, Settled DEF Sound, Rows
    <2>3. e \in Entry /\ owner[e] = h
      BY <2>1 DEF IsFront, Owned
    <2>4. PICK i \in 1 .. Len(s) : s[i] = e
      BY <2>3, IndexOf
    <2>5. \A j \in 1 .. Len(s) : mem.prev[mem.next[s[j]]] = s[j]
      <3> SUFFICES ASSUME NEW j \in 1 .. Len(s) PROVE mem.prev[mem.next[s[j]]] = s[j]
        OBVIOUS
      <3>1. s[j] \in Owned(h)
        BY <2>2 DEF Row
      <3>2. s[j] \in Node /\ At[s[j]] \in lists
        BY <1>1, <3>1, PlacesOf DEF IInv, Owned, Node
      <3> QED BY <3>2, PlacesOf DEF IInv, Rings
    <2>6. front = Before(s, i) \union {e}
      <3>1. /\ mem.next[h] \in front /\ e \in front /\ mem.next[e] \notin front
            /\ \A x \in front : x # e => mem.next[x] \in front
            /\ \A x \in front : x # mem.next[h] => mem.prev[x] \in front
        BY <2>1 DEF IsFront
      <3>2. front \in SUBSET Owned(h) /\ e = s[i]
        BY <2>1, <2>4
      <3> DEFINE x == mem.next[h]
      <3>3. Row(mem, s, x, h, Owned(h)) /\ x \in front
            /\ \A z \in front : z # x => mem.prev[z] \in front
        BY <2>2, <3>1
      <3> HIDE DEF s, x
      <3> QED BY <2>4, <2>5, <3>1, <3>2, <3>3, FrontIs
    <2> DEFINE q == [Contents EXCEPT ![l] = FrontOf(s, i), ![h] = RestOf(s, i)]
    <2>7. mem' = __list_cut_position(mem, l, h, e)
      BY <1>1, <1>4 DEF list_cut_position
    <2>8. Rows(mem', to, lists', q)
      <3>1. Rows(__list_cut_position(mem, l, h, e),
                 Moved(At, Before(Contents[h], i) \union {e}, l), lists,
                 [Contents EXCEPT ![l] = FrontOf(Contents[h], i), ![h] = RestOf(Contents[h], i)])
        BY <1>1, <2>2, <2>4, CutRows
      <3> QED BY <1>1, <2>6, <2>7, <3>1
    <2>9. to \in Places /\ \A x \in Entry : to[x] = owner'[x]
      BY <2>1, MovedPlaces DEF Owned
    <2>10. q \in [Heads -> Seq(Entry)] /\ \A k \in Heads \ lists' : q[k] = << >>
      <3>1. FrontOf(s, i) \in Seq(Entry) /\ RestOf(s, i) \in Seq(Entry)
        BY <2>2, <2>4 DEF FrontOf, RestOf
      <3>2. q \in [Heads -> Seq(Entry)]
        <4> DEFINE a == FrontOf(s, i)
                   b == RestOf(s, i)
        <4> HIDE DEF a, b
        <4> QED BY <2>2, <3>1 DEF a, b
      <3>3. \A k \in Heads \ lists' : q[k] = << >>
        BY <1>1, Settled
      <3> QED BY <3>2, <3>3
    <2>11. QInv' /\ Contents' = q /\ Traversed' = NULL
      <3> HIDE DEF to, q
      <3> QED BY <1>1, <2>8, <2>9, <2>10, Arrived
    <2>12. Contents[l] = << >> /\ i \in DOMAIN Contents[h]
      BY <1>1, <2>2, <2>4, EmptyRows
    <2>13. q = [Contents EXCEPT ![l] = SubSeq(Contents[h], 1, i),
                                ![h] = SubSeq(@, i + 1, Len(@))]
      BY <1>1, <2>2 DEF FrontOf, RestOf
    <2> HIDE DEF q
    <2> QED BY <1>1, <2>2, <2>11, <2>12, <2>13 DEF Queues!Split, Queues!Idle
  <1> QED BY <1>3, <1>4

(* The traversal begins with all entries of the slot, in their order.      *)
LEMMA CascadeBeginQueues ==
  ASSUME IInv, QInv, IInv', NEW h \in Heads, NEW l \in Heads, CascadeBegin(h, l)
  PROVE  QInv' /\ Queues!Detach(h, l)
  <1> DEFINE to == Moved(At, Owned(h), l)
             q  == [Contents EXCEPT ![l] = Contents[h], ![h] = << >>]
  <1>1. /\ walk = NULL /\ h \in lists /\ l \in Heads \ lists /\ h # l
        /\ lists' = lists /\ owner' = Given(Owned(h), l)
        /\ mem' = list_replace_init(mem, h, l)
        /\ walk' = [list |-> l, pos |-> mem'.next[l], tmp |-> mem'.next[mem'.next[l]]]
    BY DEF CascadeBegin
  <1>2. \A x \in Node : x # l => At[x] # l
    BY <1>1, Unowned
  <1>3. to \in Places /\ \A x \in Entry : to[x] = owner'[x]
    BY <1>1, MovedPlaces DEF Owned
  <1>4. Contents \in [Heads -> Seq(Entry)] /\ Contents[l] = << >> /\ Traversed = NULL
    BY <1>1, Settled
  <1>5. q \in [Heads -> Seq(Entry)] /\ \A k \in Heads \ (lists \union {l}) : q[k] = << >>
    BY <1>1, <1>4, Settled
  <1>6. Rows(mem', to, lists \union {l}, q)
    <2>1. Sound(mem, At, lists, Contents) /\ Of(At, h) = Owned(h)
      BY <1>1, Settled
    <2>2. Rows(list_replace_init(mem, h, l), Moved(At, Of(At, h), l), lists \union {l}, q)
      BY <1>1, <1>2, <2>1, DetachRows
    <2> QED BY <1>1, <2>1, <2>2
  <1>7. walk' # NULL /\ walk'.list = l /\ walk'.pos = mem'.next[l]
    <2> DEFINE at == [x \in Node |-> IF x \in Heads THEN x ELSE owner'[x]]
    <2>1. l \in Local /\ l \in Node
      BY DEF CascadeBegin, Node
    <2>2. Rings(mem', at, lists \union {l}) /\ at[l] = l
      <3> HIDE DEF at
      <3>1. l \in Local \ lists /\ at = [x \in Node |-> IF x \in Heads THEN x ELSE owner'[x]]
        BY <1>1, <2>1 DEF at
      <3>2. Rings(mem', at, lists \union {l})
        BY <1>1, <3>1, DetachedRings
      <3> QED BY <2>1, <3>1, <3>2
    <2> HIDE DEF at
    <2>3. mem'.next[l] \in Node /\ at[mem'.next[l]] = l
      BY <2>1, <2>2 DEF Rings
    <2>4. mem'.next[mem'.next[l]] \in Node
      BY <2>2, <2>3 DEF Rings
    <2>5. walk' \in Walk
      BY <1>1, <2>1, <2>3, <2>4 DEF Walk
    <2> QED BY <1>1, <2>5, ListAssumption
  <1> HIDE DEF to, q
  <1>8. ASSUME NEW k \in Heads
        PROVE  Row(mem', q[k], First(k)', k, Owned(k)')
    <2>1. Of(to, k) = Owned(k)'
      BY <1>3 DEF Of, Owned
    <2>2. CASE k \in lists \union {l}
      <3>1. First(k)' = mem'.next[k]
        BY <1>1, <1>7, <2>2 DEF First
      <3> QED BY <1>6, <2>1, <2>2, <3>1 DEF Rows
    <2>3. CASE k \notin lists \union {l}
      <3>1. First(k)' = k
        BY <1>1, <1>7, <2>3 DEF First
      <3>2. Owned(k)' = {}
        <4>1. owner' \in [Entry -> lists' \union {NULL, l}] /\ k # NULL
          BY <1>7, ListAssumption DEF IInv, ListTypeOK, Node
        <4> QED BY <1>1, <2>3, <4>1 DEF Owned
      <3> QED BY <1>5, <2>3, <3>1, <3>2, RowEmpty
    <2> QED BY <2>2, <2>3
  <1>9. QInv' /\ Contents' = q
    BY <1>5, <1>8, RowsAreContents
  <1>10. Traversed' = l
    BY <1>7 DEF Traversed
  <1> QED BY <1>1, <1>4, <1>9, <1>10 DEF Queues!Detach, q

(* A head that is neither a list nor traversed has nothing.                *)
LEMMA NoList ==
  ASSUME IInv, QInv, NEW k \in Heads \ lists, walk # NULL => walk.list # k
  PROVE  First(k) = k /\ Owned(k) = {} /\ Contents[k] = << >>
  <1>1. First(k) = k
    BY DEF First
  <1>2. Owned(k) = {}
    BY ListAssumption DEF IInv, ListTypeOK, Owned, Node
  <1> QED BY <1>1, <1>2, RowEnds DEF QInv

(* A step of the traversal takes the first entry that is left.             *)
LEMMA CascadeStepQueues ==
  ASSUME IInv, QInv, IInv', NEW h \in Heads, CascadeStep(h)
  PROVE  QInv' /\ Queues!Relink(h)
  <1> DEFINE e  == walk.pos
             l  == walk.list
             s  == Contents[l]
             to == Moved(At, {e}, h)
             p  == [Contents EXCEPT ![h] = Append(@, e)]
             q  == [Contents EXCEPT ![l] = Tail(@), ![h] = Append(@, Head(Contents[l]))]
  <1>1. /\ walk # NULL /\ e \in Entry /\ owner[e] = l /\ l \in Heads /\ l \in Node
        /\ l \notin lists /\ h \in lists /\ lists' = lists /\ h # l
        /\ mem' = list_add_tail(mem, e, h) /\ owner' = Given({e}, h)
        /\ \A x \in Node : x # e /\ At[x] = l => mem'.next[x] = mem.next[x]
        /\ walk' # NULL /\ walk'.list = l /\ walk'.pos = mem.next[e]
    BY CascadeShape
  <1>2. Contents \in [Heads -> Seq(Entry)] /\ Sound(mem, At, lists, Contents)
    BY ListsSound
  <1>3. e \in Node /\ At[e] \notin lists /\ e # l
    BY <1>1, PlacesOf DEF IInv, Node
  <1>4. to \in Places /\ \A x \in Entry : to[x] = owner'[x]
    BY <1>1, MovedPlaces
  <1>5. Row(mem, s, e, l, Owned(l))
    <2>1. First(l) = e
      BY <1>1 DEF First
    <2> QED BY <1>1, <2>1 DEF QInv
  <1>6. s \in Seq(Entry) /\ s # << >> /\ Len(s) \in Nat /\ 1 \in 1 .. Len(s) /\ s[1] = e
    <2>1. s \in Seq(Entry)
      BY <1>1, <1>2
    <2>2. s # << >> /\ s[1] = e
      BY <1>3, <1>5 DEF Row, Leads
    <2> QED BY <2>1, <2>2
  <1>7. Tail(s) = SubSeq(s, 1 + 1, Len(s)) /\ Head(s) = e /\ Tail(s) \in Seq(Entry)
    BY <1>6
  <1>8. Row(mem', Tail(s), mem.next[e], l, Owned(l)')
    <2> HIDE DEF s, e, l
    <2>1. /\ Owned(l) = Before(s, 1) \union {e} \union After(s, 1)
          /\ e \notin After(s, 1)
          /\ Row(mem, SubSeq(s, 1 + 1, Len(s)), mem.next[e], l, After(s, 1))
      BY <1>5, <1>6, RowSplit
    <2>2. Before(s, 1) = {}
      BY <1>6 DEF Before
    <2>3. Owned(l)' = Owned(l) \ {e}
      <3>1. owner' = [x \in Entry |-> IF x = e THEN h ELSE owner[x]] /\ l' = l
        BY <1>1 DEF Given, l
      <3> QED BY <1>1, <3>1 DEF Owned
    <2>4. Owned(l)' = After(s, 1)
      BY <2>1, <2>2, <2>3
    <2>5. \A x \in After(s, 1) : mem'.next[x] = mem.next[x]
      BY <1>1, <2>1, PlacesOf DEF IInv, Owned, Node
    <2> QED BY <1>7, <2>1, <2>4, <2>5, RowSame
  <1>9. Rows(mem', to, lists, p)
    BY <1>1, <1>2, <1>3, AddLastRows
  <1>10. q \in [Heads -> Seq(Entry)] /\ q[l] = Tail(s) /\ \A k \in Heads : k # l => q[k] = p[k]
    <2> DEFINE a == Append(Contents[h], e)
               t == Tail(s)
    <2>1. a \in Seq(Entry) /\ t \in Seq(Entry)
      BY <1>1, <1>2, <1>7
    <2>2. q = [Contents EXCEPT ![l] = t, ![h] = a] /\ p = [Contents EXCEPT ![h] = a]
      BY <1>1, <1>2, <1>7
    <2> HIDE DEF a, t, q, p
    <2>3. q \in [Heads -> Seq(Entry)] /\ q[l] = t /\ \A k \in Heads : k # l => q[k] = p[k]
      BY <1>1, <1>2, <2>1, <2>2
    <2> QED BY <2>3 DEF t
  <1> HIDE DEF to, p, q, s
  <1>11. ASSUME NEW k \in Heads
         PROVE  Row(mem', q[k], First(k)', k, Owned(k)')
    <2>1. Of(to, k) = Owned(k)'
      BY <1>4 DEF Of, Owned
    <2>2. CASE k \in lists
      <3>1. First(k)' = mem'.next[k] /\ q[k] = p[k]
        BY <1>1, <1>10, <2>2 DEF First
      <3> QED BY <1>9, <2>1, <2>2, <3>1 DEF Rows
    <2>3. CASE k = l
      <3>1. First(k)' = mem.next[e]
        BY <1>1, <2>3 DEF First
      <3>2. Owned(k)' = {x \in Entry : owner'[x] = l} /\ Owned(l)' = {x \in Entry : owner'[x] = l}
        BY <1>1, <2>3 DEF Owned
      <3> QED BY <1>8, <1>10, <2>3, <3>1, <3>2
    <2>4. CASE k \notin lists /\ k # l
      <3>1. First(k)' = k
        BY <1>1, <2>4 DEF First
      <3>2. Owned(k)' = {}
        <4>1. owner' \in [Entry -> lists' \union {NULL, l}] /\ k # NULL
          BY <1>1, ListAssumption DEF IInv, ListTypeOK, Node
        <4> QED BY <1>1, <2>4, <4>1 DEF Owned
      <3>3. Contents[k] = << >> /\ k # h
        BY <1>1, <2>4, NoList
      <3>4. q[k] = << >>
        BY <1>2, <1>10, <2>4, <3>3 DEF p
      <3> QED BY <3>1, <3>2, <3>4, RowEmpty
    <2> QED BY <2>2, <2>3, <2>4
  <1>12. QInv' /\ Contents' = q
    BY <1>10, <1>11, RowsAreContents
  <1>13. Traversed = l /\ Traversed' = l /\ l # NULL
    BY <1>1, ListAssumption DEF Traversed, Node
  <1> QED BY <1>1, <1>6, <1>12, <1>13 DEF Queues!Relink, q, s

(* The traversal ends when none is left.                                   *)
LEMMA CascadeEndQueues ==
  ASSUME IInv, QInv, IInv', CascadeEnd
  PROVE  QInv' /\ Queues!Done
  <1> DEFINE l == walk.list
  <1>1. /\ walk # NULL /\ walk.pos = l /\ mem' = Gone(mem, l) /\ walk' = NULL
        /\ owner' = Given(Owned(l), NULL) /\ lists' = lists
    BY DEF CascadeEnd
  <1>2. l \in Heads /\ l \in Node /\ l \notin lists
    BY <1>1, PlacesOf DEF IInv, WalkInv, Node
  <1>3. Contents \in [Heads -> Seq(Entry)] /\ Sound(mem, At, lists, Contents)
    BY ListsSound
  <1>4. Owned(l) = {} /\ Contents[l] = << >>
    <2>1. First(l) = l
      BY <1>1, <1>2 DEF First
    <2>2. Row(mem, Contents[l], l, l, Owned(l))
      BY <1>2, <2>1 DEF QInv
    <2>3. l \notin Owned(l)
      BY <1>2, ListAssumption DEF Owned
    <2> QED BY <2>2, <2>3, RowEnds
  <1>5. Rows(mem', At, lists', Contents)
    <2>1. \A x \in Node : x # l => mem'.next[x] = mem.next[x]
      BY <1>1, PlacesOf DEF IInv, Gone, Memory
    <2>2. \A x \in Node : At[x] \in lists => mem'.next[x] = mem.next[x]
      BY <1>2, <2>1, PlacesOf DEF IInv
    <2>3. Rows(mem, At, lists, Contents)
      BY <1>3 DEF Sound
    <2> QED BY <1>1, <2>2, <2>3, PlacesOf, OffListRows DEF IInv
  <1>6. \A k \in Heads \ lists' : Contents[k] = << >>
    BY <1>1, <1>4, NoList
  <1>7. At \in Places /\ \A x \in Entry : At[x] = owner'[x]
    BY <1>1, <1>4, PlacesOf DEF IInv, Given
  <1>8. QInv' /\ Contents' = Contents /\ Traversed' = NULL
    BY <1>1, <1>3, <1>5, <1>6, <1>7, Arrived
  <1>9. Traversed = l /\ l # NULL
    BY <1>1, <1>2, ListAssumption DEF Traversed, Node
  <1> QED BY <1>4, <1>8, <1>9 DEF Queues!Done

(* In the beginning all queues are empty.                                  *)
LEMMA InitQInv ==
  ASSUME Init
  PROVE  QInv /\ Queues!Init
  <1> DEFINE q == [h \in Heads |-> << >>]
  <1>1. ASSUME NEW h \in Heads
        PROVE  Owned(h) = {} /\ First(h) = h /\ h \notin Entry
    <2>1. Owned(h) = {}
      BY ListAssumption DEF Init, Owned, Node
    <2>2. h \in Slot => mem.next[h] = h
      BY DEF Init, Node, Heads
    <2> QED BY <2>1, <2>2, ListAssumption DEF Init, First
  <1>2. ASSUME NEW h \in Heads
        PROVE  Row(mem, << >>, First(h), h, Owned(h)) /\ UpTo(mem, First(h), h) = << >>
    <2>1. Row(mem, << >>, First(h), h, Owned(h))
      BY <1>1, RowEmpty
    <2> QED BY <1>1, <2>1, RowIsUpTo
  <1>3. Contents = q
    BY <1>2 DEF Contents
  <1>4. Traversed = NULL
    BY DEF Init, Traversed
  <1>5. QInv
    BY <1>2, <1>3 DEF QInv
  <1> QED BY <1>3, <1>4, <1>5 DEF Queues!Init

(* A step that moves no pointer moves no entry.                            *)
LEMMA StutterQueues ==
  ASSUME QInv, UNCHANGED vars
  PROVE  QInv' /\ Contents' = Contents /\ Traversed' = Traversed
  <1>1. Contents' = Contents /\ Traversed' = Traversed
    BY DEF vars, Contents, Traversed, First
  <1>2. \A h \in Heads : First(h)' = First(h) /\ Owned(h)' = Owned(h)
    BY DEF vars, First, Owned
  <1> QED BY <1>1, <1>2 DEF QInv, vars

(* Every step of the lists is one of the queues, or leaves them alone.     *)
LEMMA NextQueues ==
  IInv /\ IInv' /\ QInv /\ [Next]_vars => QInv' /\ [Queues!Next]_<<Contents, Traversed>>
  <1> DEFINE Goal == QInv' /\ [Queues!Next]_<<Contents, Traversed>>
  <1> SUFFICES ASSUME IInv, IInv', QInv, [Next]_vars PROVE Goal
    OBVIOUS
  <1>1. ASSUME NEW l \in Local, InitHead(l) \/ Return(l)
        PROVE  Goal
    BY <1>1, InitHeadQueues, ReturnQueues
  <1>2. ASSUME NEW h \in Heads, RemoveFirst(h)
        PROVE  Goal
    BY <1>2, RemoveFirstQueues DEF Queues!Next
  <1>3. ASSUME NEW e \in Entry, Delete(e) \/ DeleteInit(e)
        PROVE  Goal
    BY <1>3, DeleteQueues DEF Queues!Next
  <1>4. ASSUME NEW e \in Entry, NEW f \in Entry, Replace(e, f)
        PROVE  Goal
    BY <1>4, ReplaceQueues DEF Queues!Next
  <1>5. ASSUME NEW e \in Entry, NEW h \in Heads,
               AddFirst(e, h) \/ AddLast(e, h) \/ Move(e, h) \/ MoveTail(e, h)
        PROVE  Goal
    BY <1>5, AddFirstQueues, AddLastQueues, MoveQueues DEF Queues!Next
  <1>6. ASSUME NEW l \in Heads, NEW h \in Heads,
               \/ Splice(l, h) \/ SpliceTail(l, h) \/ SpliceInit(l, h) \/ SpliceTailInit(l, h)
               \/ ReplaceInit(h, l) \/ CascadeBegin(h, l)
               \/ \E e \in Entry \union {h} : Cut(l, h, e)
        PROVE  Goal
    <2>1. ASSUME Splice(l, h) \/ SpliceInit(l, h) PROVE Goal
      BY <2>1, SpliceQueues DEF Queues!Next
    <2>2. ASSUME SpliceTail(l, h) \/ SpliceTailInit(l, h) PROVE Goal
      BY <2>2, SpliceTailQueues DEF Queues!Next
    <2>3. ASSUME ReplaceInit(h, l) PROVE Goal
      BY <2>3, ReplaceInitQueues DEF Queues!Next
    <2>4. ASSUME CascadeBegin(h, l) PROVE Goal
      BY <2>4, CascadeBeginQueues DEF Queues!Next
    <2>5. ASSUME NEW e \in Entry \union {h}, Cut(l, h, e) PROVE Goal
      BY <2>5, CutQueues, StutterQueues DEF Queues!Next
    <2> QED BY <1>6, <2>1, <2>2, <2>3, <2>4, <2>5
  <1>7. ASSUME NEW h \in Heads, CascadeStep(h)
        PROVE  Goal
    BY <1>7, CascadeStepQueues DEF Queues!Next
  <1>8. CASE CascadeEnd
    BY <1>8, CascadeEndQueues DEF Queues!Next
  <1>9. CASE UNCHANGED vars
    BY <1>9, StutterQueues
  <1> QED BY <1>1, <1>2, <1>3, <1>4, <1>5, <1>6, <1>7, <1>8, <1>9 DEF Next

(* The rings implement the sequences that dmlist.h promises: every call    *)
(* does to the sequence of its list what its description says, and         *)
(* __Cascade meets every entry of the slot once and in order, although it  *)
(* relinks each while it stands on it.                                     *)
THEOREM QueuesHold == Spec => ImplementsQueues
  <1>1. IInv /\ [Next]_vars => IInv'
    BY NextIInv
  <1>2. Init => QInv /\ Queues!Init
    BY InitQInv
  <1> QED BY InitIInv, <1>1, <1>2, NextQueues, PTL DEF Spec, ImplementsQueues, Queues!Spec
=============================================================================
