--------------------------- MODULE RapidPoolProofs ---------------------------
(***************************************************************************)
(* The free lists of the pool, and that the pool is an ElementAllocator,   *)
(* for any number of slots and of pools.                                   *)
(***************************************************************************)
EXTENDS RapidPool, FiniteSetTheorems, TLAPS

Listed(p) == \E chain \in [0 .. p.free - 1 -> Slots] : Threads(chain, p)

-----------------------------------------------------------------------------
(* What the operations on one pool do to its list of free slots.           *)

(* The slots of a new pool are listed in their order.                      *)
LEMMA NewPoolFits ==
  /\ NewPool \in PoolRecord /\ Listed(NewPool)
  /\ ~Empty(NewPool) /\ \A s \in Slots : ~NewPool.use[s]
<1> DEFINE chain == [k \in 0 .. SIZE - 1 |-> k]
<1>1. NewPool \in PoolRecord
  BY PoolAssumption DEF NewPool, PoolRecord, Slots
<1>2. Free(NewPool) = 0 .. SIZE - 1
  BY DEF Free, NewPool, Slots
<1>3. 0 .. SIZE - 1 = {chain[k] : k \in 0 .. SIZE - 1}
  OBVIOUS
<1>4. \A k \in 1 .. SIZE - 1 : NewPool.flag[chain[k - 1]] = chain[k]
  BY PoolAssumption DEF NewPool, Slots
<1>5. Threads(chain, NewPool)
  <2>1. NewPool.free = SIZE /\ NewPool.first = 0 /\ SIZE \in Nat /\ SIZE > 0
    BY PoolAssumption DEF NewPool
  <2>2. \A k \in 0 .. SIZE - 1 : chain[k] = k
    OBVIOUS
  <2>3. \A k \in 0 .. SIZE - 1 : \A l \in 0 .. SIZE - 1 : chain[k] = chain[l] => k = l
    BY <2>2
  <2>4. chain[0] = 0
    BY <2>1
  <2> HIDE DEF chain
  <2> QED BY <1>2, <1>3, <1>4, <2>1, <2>3, <2>4 DEF Threads
<1>6. chain \in [0 .. NewPool.free - 1 -> Slots]
  BY PoolAssumption DEF NewPool, Slots
<1> QED BY PoolAssumption, <1>1, <1>5, <1>6 DEF Listed, NewPool, Empty

(* A fetch takes the first slot of the list, which is free, and leaves the *)
(* rest of the list.                                                       *)
LEMMA TakenFits ==
  ASSUME NEW p \in PoolRecord, Listed(p), ~Empty(p)
  PROVE  /\ p.first \in Slots /\ ~p.use[p.first]
         /\ Taken(p) \in PoolRecord /\ Listed(Taken(p))
         /\ Taken(p).use = [p.use EXCEPT ![p.first] = TRUE]
<1>1. PICK chain \in [0 .. p.free - 1 -> Slots] : Threads(chain, p)
  BY DEF Listed
<1>2. p.free \in Nat /\ p.free > 0 /\ 0 \in 0 .. p.free - 1
  BY PoolAssumption DEF PoolRecord, Empty
<1>3. p.first = chain[0] /\ p.first \in Slots
  BY <1>1, <1>2 DEF Threads
<1>4. p.first \in Free(p)
  BY <1>1, <1>2, <1>3 DEF Threads
<1> DEFINE q    == Taken(p)
           rest == [k \in 0 .. p.free - 2 |-> chain[k + 1]]
<1>5. /\ q \in PoolRecord /\ q.free = p.free - 1 /\ q.flag = p.flag
      /\ q.first = p.flag[p.first] /\ q.use = [p.use EXCEPT ![p.first] = TRUE]
  BY PoolAssumption, <1>2, <1>3 DEF Taken, PoolRecord
<1>6. rest \in [0 .. q.free - 1 -> Slots]
  BY <1>2, <1>5
<1>7. \A k \in 0 .. q.free - 1 : \A l \in 0 .. q.free - 1 : rest[k] = rest[l] => k = l
  BY <1>1, <1>2, <1>5 DEF Threads
<1>8. Free(q) = {rest[k] : k \in 0 .. q.free - 1}
  <2>1. Free(q) = Free(p) \ {p.first}
    BY <1>3, <1>5 DEF Free, PoolRecord
  <2>2. ASSUME NEW s \in Free(p) \ {p.first}
        PROVE  \E k \in 0 .. q.free - 1 : s = rest[k]
    <3>1. PICK k \in 0 .. p.free - 1 : s = chain[k]
      BY <1>1, <2>2 DEF Threads
    <3>2. k # 0
      BY <3>1, <2>2, <1>3
    <3>3. k - 1 \in 0 .. q.free - 1 /\ rest[k - 1] = s
      BY <1>2, <1>5, <3>1, <3>2
    <3> QED BY <3>3
  <2>3. ASSUME NEW k \in 0 .. q.free - 1
        PROVE  rest[k] \in Free(p) \ {p.first}
    <3>1. k + 1 \in 0 .. p.free - 1 /\ rest[k] = chain[k + 1]
      BY <1>2, <1>5
    <3>2. chain[k + 1] # chain[0]
      BY <1>1, <1>2, <3>1 DEF Threads
    <3> QED BY <1>1, <1>3, <3>1, <3>2 DEF Threads
  <2> HIDE DEF q, rest
  <2> QED BY <2>1, <2>2, <2>3
<1>9. q.free > 0 => rest[0] = q.first
  <2> SUFFICES ASSUME q.free > 0 PROVE rest[0] = q.first
    OBVIOUS
  <2>1. 1 \in 1 .. p.free - 1 /\ rest[0] = chain[1]
    BY <1>2, <1>5
  <2>2. p.flag[chain[1 - 1]] = chain[1]
    BY <1>1, <2>1 DEF Threads
  <2> QED BY <1>3, <1>5, <2>1, <2>2
<1>10. \A k \in 1 .. q.free - 1 : q.flag[rest[k - 1]] = rest[k]
  <2> TAKE k \in 1 .. q.free - 1
  <2>1. k + 1 \in 1 .. p.free - 1 /\ rest[k] = chain[k + 1] /\ rest[k - 1] = chain[k]
    BY <1>2, <1>5
  <2>2. p.flag[chain[(k + 1) - 1]] = chain[k + 1]
    BY <1>1, <2>1 DEF Threads
  <2> QED BY <1>5, <2>1, <2>2
<1>11. Threads(rest, q)
  BY <1>7, <1>8, <1>9, <1>10 DEF Threads
<1> QED BY <1>3, <1>4, <1>5, <1>6, <1>11 DEF Listed, Free

(* While a slot is in use the list does not have every slot.               *)
LEMMA FewerFree ==
  ASSUME NEW p \in PoolRecord, Listed(p), NEW s \in Slots, p.use[s]
  PROVE  p.free < SIZE
<1>1. PICK chain \in [0 .. p.free - 1 -> Slots] : Threads(chain, p)
  BY DEF Listed
<1>2. p.free \in Nat
  BY PoolAssumption DEF PoolRecord
<1>3. \A k \in 0 .. p.free - 1 : chain[k] \in Slots \ {s}
  BY <1>1 DEF Threads, Free
<1>4. chain \in Injection(0 .. p.free - 1, Slots \ {s})
  BY <1>1, <1>3 DEF Threads, Injection, IsInjective
<1>5. IsFiniteSet(Slots) /\ Cardinality(Slots) = SIZE
  BY PoolAssumption, FS_Interval DEF Slots
<1>6. IsFiniteSet(Slots \ {s}) /\ Cardinality(Slots \ {s}) = SIZE - 1
  BY <1>5, FS_RemoveElement
<1>7. Cardinality(0 .. p.free - 1) <= SIZE - 1
  BY <1>4, <1>6, FS_Injection
<1>8. Cardinality(0 .. p.free - 1) = p.free
  BY <1>2, FS_Interval
<1> QED BY PoolAssumption, <1>2, <1>7, <1>8

(* A release puts the slot before the list.                                *)
LEMMA GivenFits ==
  ASSUME NEW p \in PoolRecord, Listed(p), NEW s \in Slots, p.use[s]
  PROVE  /\ GivenBack(p, s) \in PoolRecord /\ Listed(GivenBack(p, s))
         /\ GivenBack(p, s).use = [p.use EXCEPT ![s] = FALSE]
<1>1. PICK chain \in [0 .. p.free - 1 -> Slots] : Threads(chain, p)
  BY DEF Listed
<1>2. p.free \in Nat /\ p.free < SIZE
  BY PoolAssumption, FewerFree DEF PoolRecord
<1> DEFINE q    == GivenBack(p, s)
           more == [k \in 0 .. p.free |-> IF k = 0 THEN s ELSE chain[k - 1]]
<1>3. /\ q \in PoolRecord /\ q.free = p.free + 1 /\ q.flag = [p.flag EXCEPT ![s] = p.first]
      /\ q.first = s /\ q.use = [p.use EXCEPT ![s] = FALSE]
  BY PoolAssumption, <1>2 DEF GivenBack, PoolRecord, Slots
<1>4. more \in [0 .. q.free - 1 -> Slots]
  <2>1. q.free - 1 = p.free
    BY <1>2, <1>3
  <2>2. \A k \in 0 .. p.free : k # 0 => k - 1 \in 0 .. p.free - 1
    BY <1>2
  <2> QED BY <2>1, <2>2
<1>5. \A k \in 0 .. p.free - 1 : chain[k] \in Free(p) /\ chain[k] \in Slots /\ chain[k] # s
  BY <1>1 DEF Threads, Free
<1>6. \A k \in 0 .. q.free - 1 : \A l \in 0 .. q.free - 1 : more[k] = more[l] => k = l
  <2> TAKE k \in 0 .. q.free - 1
  <2> TAKE l \in 0 .. q.free - 1
  <2>1. \A m \in 0 .. q.free - 1 : m # 0 => m - 1 \in 0 .. p.free - 1 /\ more[m] = chain[m - 1]
    BY <1>2, <1>3
  <2>2. more[0] = s
    BY <1>2
  <2> HIDE DEF q, more
  <2>3. ASSUME more[k] = more[l], k # 0, l # 0
        PROVE  k = l
    <3>1. k - 1 = l - 1
      BY <1>1, <2>1, <2>3 DEF Threads
    <3> QED BY <1>2, <1>3, <3>1
  <2>4. ASSUME more[k] = more[l]
        PROVE  k # 0 <=> l # 0
    BY <1>5, <2>1, <2>2, <2>4
  <2> QED BY <2>3, <2>4
<1>7. Free(q) = {more[k] : k \in 0 .. q.free - 1}
  <2>1. Free(q) = Free(p) \union {s}
    BY <1>3 DEF Free, PoolRecord
  <2>2. more[0] = s /\ 0 \in 0 .. q.free - 1
    BY <1>2, <1>3
  <2>3. ASSUME NEW t \in Free(p)
        PROVE  \E k \in 0 .. q.free - 1 : t = more[k]
    <3>1. PICK k \in 0 .. p.free - 1 : t = chain[k]
      BY <1>1, <2>3 DEF Threads
    <3>2. k + 1 \in 0 .. q.free - 1 /\ more[k + 1] = t
      BY <1>2, <1>3, <3>1
    <3> QED BY <3>2
  <2>4. ASSUME NEW k \in 0 .. q.free - 1
        PROVE  more[k] \in Free(p) \union {s}
    <3>1. CASE k = 0
      BY <2>2, <3>1
    <3>2. CASE k # 0
      <4>1. k - 1 \in 0 .. p.free - 1 /\ more[k] = chain[k - 1]
        BY <1>2, <1>3, <3>2
      <4> QED BY <1>5, <4>1
    <3> QED BY <3>1, <3>2
  <2> HIDE DEF q, more
  <2> QED BY <2>1, <2>2, <2>3, <2>4
<1>8. more[0] = q.first
  BY <1>2, <1>3
<1>9. \A k \in 1 .. q.free - 1 : q.flag[more[k - 1]] = more[k]
  <2> TAKE k \in 1 .. q.free - 1
  <2>1. CASE k = 1
    <3>1. more[k] = chain[0] /\ more[k - 1] = s /\ p.free > 0 /\ 0 \in 0 .. p.free - 1
      BY <1>2, <1>3, <2>1
    <3>2. q.flag[s] = p.first
      BY <1>3 DEF PoolRecord
    <3> QED BY <1>1, <3>1, <3>2 DEF Threads
  <2>2. CASE k # 1
    <3>1. /\ k - 1 \in 1 .. p.free - 1 /\ k - 2 \in 0 .. p.free - 1
          /\ more[k] = chain[k - 1] /\ more[k - 1] = chain[k - 2]
      BY <1>2, <1>3, <2>2
    <3>2. p.flag[chain[(k - 1) - 1]] = chain[k - 1]
      BY <1>1, <3>1 DEF Threads
    <3>3. (k - 1) - 1 = k - 2
      BY <1>2
    <3>4. q.flag[chain[k - 2]] = p.flag[chain[k - 2]]
      BY <1>3, <1>5, <3>1 DEF PoolRecord
    <3> QED BY <3>1, <3>2, <3>3, <3>4
  <2> QED BY <2>1, <2>2
<1>10. Threads(more, q)
  BY <1>6, <1>7, <1>8, <1>9 DEF Threads
<1> QED BY <1>3, <1>4, <1>10 DEF Listed

(* The counter m_nFreeCount tells whether all slots are free, or none.     *)
LEMMA FreeCount ==
  ASSUME NEW p \in PoolRecord, Listed(p)
  PROVE  /\ (\A s \in Slots : ~p.use[s]) => IsFull(p)
         /\ Empty(p) => \A s \in Slots : p.use[s]
<1>1. PICK chain \in [0 .. p.free - 1 -> Slots] : Threads(chain, p)
  BY DEF Listed
<1>2. p.free \in Nat /\ p.free <= SIZE
  BY PoolAssumption DEF PoolRecord
<1>3. ASSUME \A s \in Slots : ~p.use[s]
      PROVE  IsFull(p)
  <2>1. Free(p) = Slots
    BY <1>3 DEF Free
  <2>2. chain \in Surjection(0 .. p.free - 1, Slots)
    BY <1>1, <2>1 DEF Threads, Surjection
  <2>3. IsFiniteSet(0 .. p.free - 1) /\ Cardinality(0 .. p.free - 1) = p.free
    BY <1>2, FS_Interval
  <2>4. Cardinality(Slots) = SIZE
    BY PoolAssumption, FS_Interval DEF Slots
  <2>5. Cardinality(Slots) <= Cardinality(0 .. p.free - 1)
    BY <2>2, <2>3, FS_Surjection
  <2> QED BY PoolAssumption, <1>2, <2>3, <2>4, <2>5 DEF IsFull
<1>4. ASSUME Empty(p)
      PROVE  \A s \in Slots : p.use[s]
  <2>1. {chain[k] : k \in 0 .. p.free - 1} = {}
    BY <1>4 DEF Empty
  <2> QED BY <1>1, <2>1 DEF Threads, Free
<1> QED BY <1>3, <1>4

-----------------------------------------------------------------------------
InUse ==
  /\ \A i \in Made : \A s \in Slots : pool[i].use[s] <=> <<i, s>> \in out
  /\ \A o \in out : o[1] \in Made

IInv == PoolTypeOK /\ FreeListThreadsFree /\ InUse

LEMMA MadeFits ==
  ASSUME IInv, NEW i \in Made
  PROVE  i \in 0 .. INDEX /\ pool[i] \in PoolRecord /\ Listed(pool[i]) /\ Standing
BY DEF IInv, PoolTypeOK, FreeListThreadsFree, Made, Listed

(* Of all pools only pool i changes, to q, and with it its objects.        *)
LEMMA OnePool ==
  ASSUME IInv, Standing, NEW i \in 0 .. INDEX, NEW q \in PoolRecord, Listed(q),
         pool' = [pool EXCEPT ![i] = q],
         out' \in SUBSET Object, {dying, result}' \subseteq Object \cup {NULL},
         \A s \in Slots : q.use[s] <=> <<i, s>> \in out',
         \A o \in Object : o[1] # i => (o \in out' <=> o \in out)
  PROVE  IInv'
<1>1. /\ pool'[i] = q /\ q # NULL /\ DOMAIN pool = 0 .. INDEX
      /\ \A j \in 0 .. INDEX : j # i => pool'[j] = pool[j]
  BY PoolAssumption DEF IInv, PoolTypeOK
<1>2. Made' = Made \cup {i} /\ 0 \in Made
  BY <1>1, PoolAssumption DEF Made, Standing
<1>3. \A j \in Made' : j # i => j \in Made /\ pool'[j] = pool[j]
  BY <1>1, <1>2 DEF Made
<1>4. PoolTypeOK'
  <2>1. pool' \in [0 .. INDEX -> PoolRecord \cup {NULL}]
    BY DEF IInv, PoolTypeOK
  <2>2. pool'[0] # NULL
    BY <1>1, PoolAssumption DEF Standing
  <2> QED BY <2>1, <2>2 DEF PoolTypeOK, Standing
<1>5. FreeListThreadsFree'
  <2>1. \A j \in Made' : Listed(pool'[j])
    BY <1>1, <1>3, MadeFits
  <2> QED BY <2>1 DEF FreeListThreadsFree, Listed
<1>6. InUse'
  <2>1. \A j \in Made' : \A s \in Slots : pool'[j].use[s] <=> <<j, s>> \in out'
    <3> TAKE j \in Made'
    <3> TAKE s \in Slots
    <3>1. CASE j = i
      BY <1>1, <3>1
    <3>2. CASE j # i
      <4>1. j \in Made /\ pool'[j] = pool[j]
        BY <1>3, <3>2
      <4>2. <<j, s>> \in Object /\ <<j, s>>[1] # i
        BY <4>1, <3>2, MadeFits DEF Object
      <4>3. <<j, s>> \in out' <=> <<j, s>> \in out
        BY <4>2
      <4> QED BY <4>1, <4>3 DEF IInv, InUse
    <3> QED BY <3>1, <3>2
  <2>2. \A o \in out' : o[1] \in Made'
    BY <1>2 DEF IInv, InUse
  <2> QED BY <2>1, <2>2 DEF InUse
<1> QED BY <1>4, <1>5, <1>6 DEF IInv

LEMMA FetchStep ==
  ASSUME IInv, NEW i \in 0 .. INDEX, FetchObj(i)
  PROVE  /\ IInv'
         /\ result' \in Object \ out /\ out' = out \cup {result'}
<1> DEFINE p == IF pool[i] = NULL THEN NewPool ELSE pool[i]
<1>1. /\ Standing /\ pool' = [pool EXCEPT ![i] = Taken(p)] /\ result' = <<i, p.first>>
      /\ out' = out \cup {<<i, p.first>>} /\ dying' = dying
  BY DEF FetchObj, Serves
<1>2. pool[i] = NULL => i \notin Made
  BY DEF Made
<1>3. /\ p \in PoolRecord /\ Listed(p) /\ ~Empty(p)
      /\ \A s \in Slots : p.use[s] <=> <<i, s>> \in out
  <2>1. CASE pool[i] = NULL
    <3>1. p = NewPool
      BY <2>1
    <3>2. \A s \in Slots : <<i, s>> \notin out
      BY <1>2, <2>1 DEF IInv, InUse
    <3> QED BY <3>1, <3>2, NewPoolFits
  <2>2. CASE pool[i] # NULL
    <3>1. p = pool[i] /\ i \in Made
      BY <2>2 DEF Made
    <3>2. ~Empty(pool[i])
      BY <2>2 DEF FetchObj, Serves
    <3> QED BY <3>1, <3>2, MadeFits DEF IInv, InUse
  <2> QED BY <2>1, <2>2
<1> HIDE DEF p
<1>4. /\ p.first \in Slots /\ ~p.use[p.first]
      /\ Taken(p) \in PoolRecord /\ Listed(Taken(p))
      /\ Taken(p).use = [p.use EXCEPT ![p.first] = TRUE]
  BY <1>3, TakenFits
<1>5. <<i, p.first>> \in Object /\ <<i, p.first>> \notin out
  BY <1>3, <1>4 DEF Object
<1>6. \A s \in Slots : Taken(p).use[s] <=> <<i, s>> \in out'
  BY <1>1, <1>3, <1>4 DEF PoolRecord
<1>7. out' \in SUBSET Object /\ {dying, result}' \subseteq Object \cup {NULL}
  BY <1>1, <1>5 DEF IInv, PoolTypeOK
<1>8. \A o \in Object : o[1] # i => (o \in out' <=> o \in out)
  BY <1>1
<1>9. IInv'
  BY <1>1, <1>4, <1>6, <1>7, <1>8, OnePool
<1> QED BY <1>1, <1>5, <1>9

LEMMA ReleaseStep ==
  ASSUME IInv, NEW o \in Object, ReleaseObj(o)
  PROVE  IInv'
<1> DEFINE i == o[1]
           s == o[2]
           q == GivenBack(pool[i], s)
<1>1. /\ o \in out /\ dying' = o /\ pool' = [pool EXCEPT ![i] = q]
      /\ out' = out \ {o} /\ result' = NULL
  BY DEF ReleaseObj
<1>2. /\ i \in 0 .. INDEX /\ s \in Slots /\ o = <<i, s>>
      /\ \A t \in Slots : <<i, t>> = o <=> t = s
  BY DEF Object
<1>3. i \in Made /\ pool[i].use[s]
  BY <1>1, <1>2 DEF IInv, InUse
<1>4. /\ Standing /\ pool[i] \in PoolRecord /\ Listed(pool[i])
      /\ \A t \in Slots : pool[i].use[t] <=> <<i, t>> \in out
  BY <1>3, MadeFits DEF IInv, InUse
<1>5. /\ q \in PoolRecord /\ Listed(q)
      /\ q.use = [pool[i].use EXCEPT ![s] = FALSE]
  BY <1>2, <1>3, <1>4, GivenFits
<1>6. \A t \in Slots : q.use[t] <=> <<i, t>> \in out'
  <2> HIDE DEF q
  <2> QED BY <1>1, <1>2, <1>4, <1>5 DEF PoolRecord
<1>7. out' \in SUBSET Object /\ {dying, result}' \subseteq Object \cup {NULL}
  BY <1>1 DEF IInv, PoolTypeOK
<1>8. \A x \in Object : x[1] # i => (x \in out' <=> x \in out)
  BY <1>1
<1> HIDE DEF q, i
<1> QED BY <1>1, <1>2, <1>4, <1>5, <1>6, <1>7, <1>8, OnePool

LEMMA InitIInv == Init => IInv
<1> SUFFICES ASSUME Init PROVE IInv
  OBVIOUS
<1>1. /\ pool = [i \in 0 .. INDEX |-> IF i = 0 THEN NewPool ELSE NULL]
      /\ out = {} /\ dying = NULL /\ result = NULL
  BY DEF Init
<1>2. /\ NewPool \in PoolRecord /\ Listed(NewPool) /\ NewPool # NULL
      /\ \A s \in Slots : ~NewPool.use[s]
  BY NewPoolFits, PoolAssumption
<1>3. Made = {0} /\ pool[0] = NewPool
  BY <1>1, <1>2, PoolAssumption DEF Made
<1>4. PoolTypeOK
  BY <1>1, <1>2, <1>3 DEF PoolTypeOK, Standing
<1>5. FreeListThreadsFree
  BY <1>2, <1>3 DEF FreeListThreadsFree, Listed
<1>6. InUse
  BY <1>1, <1>2, <1>3 DEF InUse
<1> QED BY <1>4, <1>5, <1>6 DEF IInv

LEMMA NextIInv == IInv /\ [Next]_vars => IInv'
<1> SUFFICES ASSUME IInv, [Next]_vars PROVE IInv'
  OBVIOUS
<1>1. ASSUME NEW i \in 0 .. INDEX, FetchObj(i)
      PROVE  IInv'
  BY <1>1, FetchStep
<1>2. ASSUME NEW o \in Object, ReleaseObj(o)
      PROVE  IInv'
  BY <1>2, ReleaseStep
<1>3. ASSUME FetchFails \/ Destructed \/ UNCHANGED vars
      PROVE  IInv'
  <2>1. pool' = pool /\ out' = out /\ {dying, result}' \subseteq {dying, result, NULL}
    BY <1>3 DEF FetchFails, Destructed, vars
  <2>2. PoolTypeOK'
    BY <2>1 DEF IInv, PoolTypeOK, Made, Standing
  <2>3. FreeListThreadsFree' /\ InUse'
    BY <2>1 DEF IInv, FreeListThreadsFree, InUse, Made
  <2> QED BY <2>2, <2>3 DEF IInv
<1>4. CASE Teardown
  <2>1. /\ pool' = [i \in 0 .. INDEX |-> NULL]
        /\ out' = {} /\ dying' = dying /\ result' = result
    BY <1>4 DEF Teardown
  <2>2. Made' = {}
    BY <2>1 DEF Made
  <2>3. PoolTypeOK'
    BY <2>1, <2>2 DEF IInv, PoolTypeOK
  <2> QED BY <2>1, <2>2, <2>3 DEF IInv, FreeListThreadsFree, InUse
<1> QED BY <1>1, <1>2, <1>3, <1>4 DEF Next

LEMMA IInvImplies == IInv => UsedIsOut
<1> SUFFICES ASSUME IInv PROVE UsedIsOut
  OBVIOUS
<1>1. ASSUME out = {}, NEW i \in Made
      PROVE  IsFull(pool[i])
  <2>1. \A s \in Slots : ~pool[i].use[s]
    BY <1>1 DEF IInv, InUse
  <2> QED BY <1>1, <2>1, MadeFits, FreeCount
<1> QED BY <1>1 DEF IInv, InUse, UsedIsOut

(* Every free list goes through the free slots of its pool once and only   *)
(* through them, whatever order FetchObj and ReleaseObj are called in and  *)
(* also when a destructor fetches while its object is released.            *)
THEOREM FreeListsHold == Spec => [](PoolTypeOK /\ FreeListThreadsFree)
<1>1. IInv => PoolTypeOK /\ FreeListThreadsFree
  BY DEF IInv
<1> QED BY InitIInv, NextIInv, <1>1, PTL DEF Spec

(* dwUse says which objects the callers hold, and a pool that nobody holds *)
(* an object of is full, as ~CDMRapidPool asserts.                         *)
THEOREM UsedHolds == Spec => []UsedIsOut
  BY InitIInv, NextIInv, IInvImplies, PTL DEF Spec

-----------------------------------------------------------------------------
LEMMA StepRefines ==
  ASSUME IInv, [Next]_vars
  PROVE  [Allocator!Next]_(Allocator!vars)
<1>1. ASSUME NEW i \in 0 .. INDEX, FetchObj(i)
      PROVE  Allocator!Fetch
  BY <1>1, FetchStep DEF Allocator!Fetch
<1>2. ASSUME NEW o \in Object, ReleaseObj(o)
      PROVE  Allocator!Release(o)
  BY <1>2 DEF ReleaseObj, Allocator!Release
<1>3. CASE FetchFails
  <2>1. /\ \A i \in 0 .. INDEX : pool[i] # NULL /\ Empty(pool[i])
        /\ result' = NULL /\ out' = out
    BY <1>3 DEF FetchFails
  <2>2. ASSUME NEW o \in Object
        PROVE  o \in out
    <3>1. o[1] \in Made /\ o[2] \in Slots /\ o = <<o[1], o[2]>> /\ Empty(pool[o[1]])
      BY <2>1 DEF Object, Made
    <3>2. pool[o[1]].use[o[2]]
      BY <3>1, MadeFits, FreeCount
    <3> QED BY <3>1, <3>2 DEF IInv, InUse
  <2>3. out = Object
    BY <2>2 DEF IInv, PoolTypeOK
  <2> QED BY <2>1, <2>3 DEF Allocator!Next, Allocator!FetchFails
<1>4. CASE Destructed \/ Teardown \/ UNCHANGED vars
  BY <1>4 DEF Destructed, Teardown, vars, Allocator!vars
<1> QED BY <1>1, <1>2, <1>3, <1>4 DEF Next, Allocator!Next

(* The pool is an allocator: an object is handed out only when no caller   *)
(* holds it, and a fetch fails only when the callers hold all of them.     *)
THEOREM PoolIsAllocator == Spec => ImplementsAllocator
<1>1. Init => Allocator!Init
  BY DEF Init, Allocator!Init
<1>2. IInv /\ [Next]_vars => [Allocator!Next]_(Allocator!vars)
  BY StepRefines
<1> QED BY InitIInv, NextIInv, <1>1, <1>2, PTL DEF Spec, ImplementsAllocator, Allocator!Spec
=============================================================================
