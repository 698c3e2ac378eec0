-------------------------- MODULE TimerWheelProofs --------------------------
(***************************************************************************)
(* What the operations of the wheel preserve: whatever the sizes of the    *)
(* vectors, an element that is added is on exactly one list, and a cascade *)
(* neither loses nor duplicates an element.                                *)
(***************************************************************************)
EXTENDS TimerWheel, TLAPS

(* The sizes and granules of the vectors are positive.                     *)
LEMMA Positive ==
  /\ \A k \in Level : Width(k) \in Nat \ {0}
  /\ \A k \in Level : Granule(k) \in Nat \ {0}
<1> DEFINE R == TVR_SIZE
<1> DEFINE N == TVN_SIZE
<1>1. R \in Nat \ {0} /\ N \in Nat \ {0}
  BY WheelAssumption
<1>2. \A a, b \in Nat \ {0} : a * b \in Nat \ {0}
  BY SMT
<1> HIDE DEF R, N
<1>3. R * N \in Nat \ {0}
  BY <1>1, <1>2
<1>4. R * N * N \in Nat \ {0}
  BY <1>1, <1>2, <1>3
<1>5. R * N * N * N \in Nat \ {0}
  BY <1>1, <1>2, <1>4
<1>6. \A k \in Level : k \in {1, 2, 3, 4, 5}
  BY DEF Level
<1> QED
  BY <1>1, <1>3, <1>4, <1>5, <1>6 DEF Width, Granule, R, N

(* A remainder is an index of a vector.                                    *)
LEMMA IndexRange ==
  ASSUME NEW k \in Level, NEW t \in Int
  PROVE  Index(k, t) \in 0 .. Width(k) - 1
<1> DEFINE g == Granule(k)
<1> DEFINE w == Width(k)
<1>1. g \in Nat \ {0} /\ w \in Nat \ {0}
  BY Positive
<1> HIDE DEF g, w
<1>2. t \div g \in Int
  BY <1>1, SMT
<1>3. (t \div g) % w \in 0 .. w - 1
  BY <1>1, <1>2, SMT
<1> QED
  BY <1>3 DEF Index, g, w

(* AddTimerElement always finds a list.                                    *)
LEMMA SlotOfType ==
  ASSUME NEW expires \in Int, NEW last \in Int
  PROVE  SlotOf(expires, last) \in Slot
<1>1. \A k \in Level, t \in Int : <<k, Index(k, t)>> \in Slot
  BY IndexRange DEF Slot, Level, Width
<1>2. \A idx : LevelOf(idx) \in Level
  BY DEF LevelOf, Level
<1>3. Granule(6) \in Int
  BY WheelAssumption DEF Granule
<1>4. last + Granule(6) - 1 \in Int
  BY <1>3
<1>5. 1 \in Level
  BY DEF Level
<1> QED
  BY <1>1, <1>2, <1>4, <1>5 DEF SlotOf

(* Adding an element that is on no list puts it on exactly one.            *)
LEMMA AddKeeps ==
  ASSUME NEW S, NEW vec \in [Slot -> SUBSET S], NEW e \in S,
         NEW expires \in Int, NEW last \in Int
  PROVE  /\ Add(vec, e, expires, last) \in [Slot -> SUBSET S]
         /\ On(Add(vec, e, expires, last)) = On(vec) \cup {e}
         /\ Disjoint(vec) /\ e \notin On(vec)
              => Disjoint(Add(vec, e, expires, last))
<1> DEFINE to  == SlotOf(expires, last)
<1> DEFINE new == Add(vec, e, expires, last)
<1>1. to \in Slot
  BY SlotOfType
<1>2. /\ new \in [Slot -> SUBSET S]
      /\ new[to] = vec[to] \cup {e}
      /\ \A s \in Slot : s # to => new[s] = vec[s]
  BY <1>1 DEF Add
<1> HIDE DEF to, new
<1>3. On(new) = On(vec) \cup {e}
  BY <1>1, <1>2 DEF On
<1>4. Disjoint(vec) /\ e \notin On(vec) => Disjoint(new)
  BY <1>1, <1>2 DEF On, Disjoint
<1> QED
  BY <1>2, <1>3, <1>4 DEF new

(* A cascade moves elements between lists, and every one to one list.      *)
LEMMA CascadeKeeps ==
  ASSUME NEW S, NEW vec \in [Slot -> SUBSET S], Disjoint(vec),
         NEW k \in 2 .. 5, NEW last \in Int, NEW next \in [S -> Int]
  PROVE  /\ Cascade(vec, k, last, next) \in [Slot -> SUBSET S]
         /\ On(Cascade(vec, k, last, next)) = On(vec)
         /\ Disjoint(Cascade(vec, k, last, next))
<1> DEFINE from == <<k, Index(k, last)>>
<1> DEFINE to(e) == SlotOf(next[e], last)
<1> DEFINE new == Cascade(vec, k, last, next)
<1>1. from \in Slot
  BY IndexRange DEF Slot, Level, Width
<1>2. \A e \in S : to(e) \in Slot
  BY SlotOfType
<1>3. \A s \in Slot :
        new[s] = (IF s = from THEN {} ELSE vec[s])
                   \cup {e \in vec[from] : to(e) = s}
  BY DEF Cascade
<1>4. new \in [Slot -> SUBSET S]
  BY <1>1 DEF Cascade
<1> HIDE DEF from, to, new
<1>5. On(new) = On(vec)
  <2>1. On(new) \subseteq On(vec)
    BY <1>1, <1>3 DEF On
  <2>2. ASSUME NEW s \in Slot, NEW e \in vec[s]
        PROVE  e \in On(new)
    <3>1. CASE s = from
      BY <1>2, <1>3, <3>1 DEF On
    <3>2. CASE s # from
      BY <1>3, <3>2 DEF On
    <3> QED
      BY <3>1, <3>2
  <2> QED
    BY <2>1, <2>2 DEF On
<1>6. Disjoint(new)
  <2> SUFFICES ASSUME NEW s \in Slot, NEW t \in Slot, s # t,
                      NEW e \in new[s], e \in new[t]
               PROVE  FALSE
    BY DEF Disjoint
  <2>1. CASE e \in vec[from]
    <3>1. \A r \in Slot : r # from => e \notin vec[r]
      BY <1>1, <2>1 DEF Disjoint
    <3>2. to(e) = s /\ to(e) = t
      BY <1>3, <3>1
    <3> QED
      BY <3>2
  <2>2. CASE e \notin vec[from]
    <3>1. e \in vec[s] /\ e \in vec[t]
      BY <1>3, <2>2
    <3> QED
      BY <3>1 DEF Disjoint
  <2> QED
    BY <2>1, <2>2
<1> QED
  BY <1>4, <1>5, <1>6 DEF new

(* The cascades of one tick, taken together.                               *)
LEMMA CascadeAllKeeps ==
  ASSUME NEW S, NEW vec \in [Slot -> SUBSET S], Disjoint(vec),
         NEW last \in Int, NEW next \in [S -> Int]
  PROVE  /\ CascadeAll(vec, last, next) \in [Slot -> SUBSET S]
         /\ On(CascadeAll(vec, last, next)) = On(vec)
         /\ Disjoint(CascadeAll(vec, last, next))
<1> DEFINE Good(v) ==
      v \in [Slot -> SUBSET S] /\ On(v) = On(vec) /\ Disjoint(v)
<1> DEFINE v2 == CascadeIfDue(vec, 2, last, next)
<1> DEFINE v3 == CascadeIfDue(v2, 3, last, next)
<1> DEFINE v4 == CascadeIfDue(v3, 4, last, next)
<1> DEFINE v5 == CascadeIfDue(v4, 5, last, next)
<1>1. ASSUME NEW v, Good(v), NEW k \in 2 .. 5
      PROVE  Good(CascadeIfDue(v, k, last, next))
  <2>1. /\ Cascade(v, k, last, next) \in [Slot -> SUBSET S]
        /\ On(Cascade(v, k, last, next)) = On(v)
        /\ Disjoint(Cascade(v, k, last, next))
    BY <1>1, CascadeKeeps
  <2> QED
    BY <1>1, <2>1 DEF CascadeIfDue
<1>2. Good(vec)
  OBVIOUS
<1>3. v5 = CascadeAll(vec, last, next)
  BY DEF CascadeAll
<1> HIDE DEF Good
<1>4. Good(v2)
  BY <1>1, <1>2
<1> HIDE DEF v2
<1>5. Good(v3)
  BY <1>1, <1>4
<1> HIDE DEF v3
<1>6. Good(v4)
  BY <1>1, <1>5
<1> HIDE DEF v4
<1>7. Good(v5)
  BY <1>1, <1>6
<1> QED
  BY <1>3, <1>7 DEF Good
-----------------------------------------------------------------------------
(***************************************************************************)
(* Times and rounds: a slot of a vector with granule g and w slots is      *)
(* emptied at the times g * r for the rounds r with r % w the slot's index.*)
(***************************************************************************)

(* A quotient is the number of granules that fit.                          *)
LEMMA Quotient ==
  ASSUME NEW g \in Nat \ {0}, NEW t \in Int
  PROVE  /\ t \div g \in Int
         /\ g * (t \div g) <= t
         /\ t < (g * (t \div g)) + g
BY SMT

(* The time of a round is in that round.                                   *)
LEMMA QuotientOfMultiple ==
  ASSUME NEW g \in Nat \ {0}, NEW q \in Int
  PROVE  (g * q) \div g = q
BY SMT

(* Later rounds are at least a granule later, and the other way round.     *)
LEMMA RoundsInOrder ==
  ASSUME NEW g \in Nat \ {0}, NEW p \in Int, NEW q \in Int
  PROVE  /\ g * p \in Int
         /\ p < q => (g * p) + g <= g * q
         /\ p <= q => g * p <= g * q
         /\ g * p < g * q => p < q
         /\ g * (p + q) = (g * p) + (g * q)
<1>1. g * p \in Int /\ g * q \in Int
  BY SMT
<1>2. p < q => (g * p) + g <= g * q
  BY SMT
<1>3. p <= q => g * p <= g * q
  BY <1>1, <1>2, SMT
<1>4. g * p < g * q => p < q
  BY SMT
<1>5. g * (p + q) = (g * p) + (g * q)
  BY SMT
<1> QED
  BY <1>1, <1>2, <1>3, <1>4, <1>5

(* Rounds less than a turn apart that belong to the same slot are one.     *)
LEMMA SameSlotSameRound ==
  ASSUME NEW w \in Nat \ {0}, NEW p \in Int, NEW q \in Int,
         p % w = q % w, p <= q, q < p + w
  PROVE  p = q
<1> DEFINE x == p \div w
<1> DEFINE y == q \div w
<1> DEFINE m == p % w
<1>1. x \in Int /\ y \in Int /\ m \in Int
  BY SMT
<1>2. p = (w * x) + m /\ q = (w * y) + m
  BY SMT
<1> HIDE DEF x, y, m
<1>3. w * x <= w * y /\ w * y < (w * x) + w
  <2>1. w * x \in Int /\ w * y \in Int
    BY <1>1, SMT
  <2> QED
    BY <1>1, <1>2, <2>1, SMT
<1>4. ~(x < y)
  BY <1>1, <1>3, RoundsInOrder
<1>5. ~(y < x)
  <2>1. y < x => (w * y) + w <= w * x
    BY <1>1, RoundsInOrder
  <2>2. w * x \in Int /\ w * y \in Int
    BY <1>1, SMT
  <2> QED
    BY <1>3, <2>1, <2>2, SMT
<1>6. x = y
  BY <1>1, <1>4, <1>5, SMT
<1> QED
  BY <1>2, <1>6

(* Adding a remainder moves a round forward to the slot that is wanted.    *)
LEMMA RoundReached ==
  ASSUME NEW w \in Nat \ {0}, NEW c \in Int, NEW i \in 0 .. w - 1
  PROVE  /\ (i - c) % w \in 0 .. w - 1
         /\ (c + ((i - c) % w)) % w = i
<1> DEFINE q == (i - c) \div w
<1> DEFINE m == (i - c) % w
<1>1. q \in Int /\ m \in 0 .. w - 1 /\ i - c = (w * q) + m
  BY SMT
<1> HIDE DEF q, m
<1>2. c + m = (w * (-q)) + i
  <2>1. w * q \in Int /\ w * (-q) = -(w * q)
    BY <1>1, SMT
  <2> QED
    BY <1>1, <2>1, SMT
<1>3. \A z \in Int : ((w * z) + i) % w = i
  BY SMT
<1>4. (c + m) % w = i
  BY <1>1, <1>2, <1>3
<1> QED
  BY <1>1, <1>4 DEF m

(* The granules and widths fit: one turn of a vector is one slot of the    *)
(* next.                                                                   *)
LEMMA Granules ==
  /\ Granule(1) = 1
  /\ Granule(6) \in Nat \ {0}
  /\ \A k \in Level : Granule(k + 1) = Granule(k) * Width(k)
  /\ \A k \in Level : Granule(k) <= Granule(k + 1)
  /\ 2 * Granule(5) <= Granule(6)
<1> DEFINE R == TVR_SIZE
<1> DEFINE N == TVN_SIZE
<1>1. R \in Nat \ {0} /\ N \in Nat \ {0, 1}
  BY WheelAssumption
<1>2. \A a, b \in Nat \ {0} : a * b \in Nat \ {0}
  BY SMT
<1>3. \A k \in Level : k \in {1, 2, 3, 4, 5}
  BY DEF Level
<1>4. Granule(5) \in Nat \ {0}
  BY Positive DEF Level
<1>5. Granule(6) = Granule(5) * N
  BY DEF Granule
<1>6. \A a \in Nat, b \in Nat \ {0, 1} : 2 * a <= a * b
  BY SMT
<1>7. \A k \in Level : Granule(k + 1) = Granule(k) * Width(k)
  BY <1>1, <1>3 DEF Granule, Width
<1> HIDE DEF R, N
<1>8. Granule(6) \in Nat \ {0}
  BY <1>1, <1>2, <1>4, <1>5
<1>9. 2 * Granule(5) <= Granule(6)
  BY <1>1, <1>4, <1>5, <1>6
<1>10. Granule(1) = 1
  BY DEF Granule
<1>11. \A a, b \in Nat \ {0} : a <= a * b
  BY SMT
<1>12. \A k \in Level : Granule(k) <= Granule(k + 1)
  BY <1>7, <1>11, Positive
<1> QED
  BY <1>7, <1>8, <1>9, <1>10, <1>12

(* Visit is the first time, from "from" on, at which the slot's turn comes.*)
LEMMA VisitIsFirst ==
  ASSUME NEW s \in Slot, NEW from \in Int
  PROVE  /\ Visit(s, from) \in Int
         /\ Visit(s, from) >= from
         /\ \E r \in Int : /\ Visit(s, from) = Granule(s[1]) * r
                           /\ r % Width(s[1]) = s[2]
         /\ \A q \in Int :
              /\ Granule(s[1]) * q >= from
              /\ q % Width(s[1]) = s[2]
              => Visit(s, from) <= Granule(s[1]) * q
<1> DEFINE g == Granule(s[1])
<1> DEFINE w == Width(s[1])
<1> DEFINE c == (from + g - 1) \div g
<1> DEFINE m == (s[2] - c) % w
<1>1. /\ g \in Nat \ {0}
      /\ w \in Nat \ {0}
      /\ s[2] \in 0 .. w - 1
  BY Positive DEF Slot, Level, Width
<1>2. Visit(s, from) = (c + m) * g
  BY DEF Visit
<1>3. c \in Int /\ g * c >= from /\ g * c < from + g
  <2>1. from + g - 1 \in Int
    BY <1>1
  <2>2. /\ c \in Int
        /\ g * c <= from + g - 1
        /\ from + g - 1 < (g * c) + g
    BY <1>1, <2>1, Quotient
  <2>3. g * c \in Int
    BY <1>1, <2>2, RoundsInOrder
  <2> HIDE DEF c, g
  <2> QED
    BY <1>1, <2>2, <2>3, SMT
<1> HIDE DEF g, w, c
<1>4. m \in 0 .. w - 1 /\ (c + m) % w = s[2]
  BY <1>1, <1>3, RoundReached
<1> HIDE DEF m
<1> DEFINE r == c + m
<1>5. r \in Int /\ Visit(s, from) = g * r /\ r % w = s[2] /\ c <= r /\ r < c + w
  BY <1>1, <1>2, <1>3, <1>4, SMT
<1> HIDE DEF r
<1>6. g * r >= from /\ g * r \in Int
  <2>1. g * c <= g * r /\ g * c \in Int /\ g * r \in Int
    BY <1>1, <1>3, <1>5, RoundsInOrder
  <2> QED
    BY <1>3, <2>1, SMT
<1>7. ASSUME NEW q \in Int, g * q >= from, q % w = s[2]
      PROVE  g * r <= g * q
  <2>1. c <= q
    <3>1. q < c => (g * q) + g <= g * c
      BY <1>1, <1>3, RoundsInOrder
    <3>2. g * q \in Int /\ g * c \in Int
      BY <1>1, <1>3, RoundsInOrder
    <3> QED
      BY <1>1, <1>3, <1>7, <3>1, <3>2, SMT
  <2>2. CASE q < r
    <3>1. q <= r /\ r < q + w
      BY <1>1, <1>3, <1>5, <2>1, <2>2, SMT
    <3>2. q = r
      BY <1>1, <1>5, <1>7, <3>1, SameSlotSameRound
    <3> QED
      BY <1>5, <2>2, <3>2
  <2>3. CASE r <= q
    BY <1>1, <1>5, <2>3, RoundsInOrder
  <2> QED
    BY <1>5, <2>2, <2>3, SMT
<1> QED
  BY <1>5, <1>6, <1>7 DEF g, w

(* An element is not due in a slot's next tick before the present one is   *)
(* over: a visit that is not now is the same seen from the next tick.      *)
LEMMA VisitFromNextTick ==
  ASSUME NEW s \in Slot, NEW last \in Int, Visit(s, last) # last
  PROVE  Visit(s, last + 1) = Visit(s, last)
<1> DEFINE g == Granule(s[1])
<1> DEFINE V == Visit(s, last)
<1> DEFINE U == Visit(s, last + 1)
<1>1. /\ V \in Int /\ V >= last
      /\ \E r \in Int : V = g * r /\ r % Width(s[1]) = s[2]
      /\ \A q \in Int : g * q >= last /\ q % Width(s[1]) = s[2] => V <= g * q
  BY VisitIsFirst
<1>2. last + 1 \in Int
  OBVIOUS
<1>3. /\ U \in Int /\ U >= last + 1
      /\ \E r \in Int : U = g * r /\ r % Width(s[1]) = s[2]
      /\ \A q \in Int : g * q >= last + 1 /\ q % Width(s[1]) = s[2] => U <= g * q
  BY <1>2, VisitIsFirst
<1>4. V # last
  OBVIOUS
<1> HIDE DEF g, V, U
<1>5. PICK r \in Int : V = g * r /\ r % Width(s[1]) = s[2]
  BY <1>1
<1>6. PICK q \in Int : U = g * q /\ q % Width(s[1]) = s[2]
  BY <1>3
<1>7. V >= last + 1 /\ U >= last
  BY <1>1, <1>3, <1>4, SMT
<1>8. U <= V /\ V <= U
  BY <1>1, <1>3, <1>5, <1>6, <1>7
<1> QED
  BY <1>1, <1>3, <1>8 DEF U, V

(* The slot that is visited at tick last is the current slot of its vector,*)
(* and its granule divides last.                                           *)
LEMMA VisitedNow ==
  ASSUME NEW s \in Slot, NEW last \in Int, Visit(s, last) = last
  PROVE  /\ s = <<s[1], Index(s[1], last)>>
         /\ \E r \in Int : last = Granule(s[1]) * r
<1> DEFINE g == Granule(s[1])
<1>1. PICK r \in Int : last = g * r /\ r % Width(s[1]) = s[2]
  BY VisitIsFirst
<1>2. g \in Nat \ {0}
  BY Positive DEF Slot, Level
<1> HIDE DEF g
<1>3. last \div g = r
  BY <1>1, <1>2, QuotientOfMultiple
<1>4. s = <<s[1], s[2]>>
  BY DEF Slot
<1> QED
  BY <1>1, <1>3, <1>4 DEF g, Index

(* The current slot of the first vector is visited at every tick.          *)
LEMMA RootVisited ==
  ASSUME NEW last \in Int
  PROVE  /\ <<1, Index(1, last)>> \in Slot
         /\ Visit(<<1, Index(1, last)>>, last) = last
<1> DEFINE s == <<1, Index(1, last)>>
<1>1. s \in Slot
  BY IndexRange DEF Slot, Level, Width
<1>2. s[1] = 1 /\ s[2] = last % Width(1)
  BY Granules DEF Index
<1> HIDE DEF s
<1>3. Granule(1) * last = last
  BY Granules
<1>4. Visit(s, last) <= last /\ Visit(s, last) >= last /\ Visit(s, last) \in Int
  BY <1>1, <1>2, <1>3, VisitIsFirst
<1>5. Visit(s, last) = last
  BY <1>4, SMT
<1> QED
  BY <1>1, <1>5 DEF s

(* The vector that takes a time idx ticks away: idx is at least a granule  *)
(* of it, and less than a turn unless it is the last.                      *)
LEMMA LevelFits ==
  ASSUME NEW idx \in Nat
  PROVE  LET k == LevelOf(idx)
         IN  /\ k \in Level
             /\ k # 1 => idx >= Granule(k)
             /\ k # 5 => idx < Granule(k) * Width(k)
             /\ k = 5 => Granule(6) = Granule(k) * Width(k)
             /\ idx >= Granule(6) => k = 5
             /\ idx = 0 => k = 1
<1>1. /\ Granule(2) = Granule(1) * Width(1)
      /\ Granule(3) = Granule(2) * Width(2)
      /\ Granule(4) = Granule(3) * Width(3)
      /\ Granule(5) = Granule(4) * Width(4)
      /\ Granule(6) = Granule(5) * Width(5)
  BY Granules DEF Level
<1>2. \A k \in 2 .. 5 : Granule(k) \in Nat \ {0}
  BY Positive DEF Level
<1>3. LevelOf(idx) = 1 => idx < Granule(2)
  BY DEF LevelOf
<1>4. LevelOf(idx) = 2 => idx >= Granule(2) /\ idx < Granule(3)
  BY DEF LevelOf
<1>5. LevelOf(idx) = 3 => idx >= Granule(3) /\ idx < Granule(4)
  BY DEF LevelOf
<1>6. LevelOf(idx) = 4 => idx >= Granule(4) /\ idx < Granule(5)
  BY DEF LevelOf
<1>7. LevelOf(idx) = 5 => idx >= Granule(5)
  BY <1>2 DEF LevelOf
<1>8. LevelOf(idx) \in {1, 2, 3, 4, 5}
  BY DEF LevelOf
<1>9. idx = 0 => LevelOf(idx) = 1
  BY <1>2 DEF LevelOf
<1>10. idx >= Granule(6) => LevelOf(idx) = 5
  <2>1. /\ Granule(2) <= Granule(3)
        /\ Granule(3) <= Granule(4)
        /\ Granule(4) <= Granule(5)
        /\ Granule(5) <= Granule(6)
    BY Granules DEF Level
  <2>2. Granule(6) \in Nat
    BY Granules
  <2> QED
    BY <1>2, <1>3, <1>4, <1>5, <1>6, <1>8, <2>1, <2>2
<1> QED
  BY <1>1, <1>3, <1>4, <1>5, <1>6, <1>7, <1>8, <1>9, <1>10 DEF Level

(* AddTimerElement puts an element in a slot that is visited not later     *)
(* than it expires, in m_tv1 exactly then; and, when it does not expire in *)
(* the present tick, not in a slot that is visited in the present tick.    *)
LEMMA SlotOnTime ==
  ASSUME NEW expires \in Int, NEW last \in Int,
         last <= expires, 2 * (expires - last) < WORD
  PROVE  LET s == SlotOf(expires, last)
         IN  /\ s \in Slot
             /\ Visit(s, last) <= expires
             /\ s[1] = 1 => Visit(s, last) = expires
             /\ expires > last => Visit(s, last) > last
             /\ expires = last => s = <<1, Index(1, last)>>
<1> DEFINE idx == expires - last
<1> DEFINE k == LevelOf(idx)
<1> DEFINE at == IF idx >= Granule(6) THEN last + Granule(6) - 1 ELSE expires
<1> DEFINE s == SlotOf(expires, last)
<1> DEFINE g == Granule(k)
<1> DEFINE w == Width(k)
<1> DEFINE q == at \div g
<1> DEFINE V == Visit(s, last)
<1>1. (expires - last) % WORD = idx /\ idx \in Nat
  BY WheelAssumption, SMT
<1>2. s = <<k, Index(k, at)>>
  <2> DEFINE d == (expires - last) % WORD
  <2>1. d = idx /\ ~Negative(d)
    <3>1. d = idx
      BY <1>1
    <3>2. ~Negative(idx)
      BY WheelAssumption DEF Negative
    <3> HIDE DEF d, idx
    <3> QED
      BY <3>1, <3>2
  <2>2. s = IF Negative(d) THEN <<1, Index(1, last)>>
            ELSE <<LevelOf(d),
                   Index(LevelOf(d), IF d >= Granule(6) THEN last + Granule(6) - 1
                                                        ELSE expires)>>
    BY DEF SlotOf
  <2> HIDE DEF s, d, idx
  <2> QED
    BY <2>1, <2>2
<1>3. /\ k \in Level
      /\ k # 1 => idx >= g
      /\ k # 5 => idx < g * w
      /\ k = 5 => Granule(6) = g * w
      /\ idx >= Granule(6) => k = 5
      /\ idx = 0 => k = 1
  BY <1>1, LevelFits
<1>4. g \in Nat \ {0} /\ w \in Nat \ {0} /\ Granule(6) \in Nat \ {0}
  BY <1>3, Positive, Granules
<1>5. s \in Slot
  BY SlotOfType
<1>6. s[1] = k /\ s[2] = q % w
  BY <1>2 DEF Index
<1>7. idx \in Nat /\ idx = expires - last
  BY <1>1
<1>8. k = 1 => g = 1
  BY Granules
<1>9. k = 5 => 2 * g <= Granule(6)
  BY Granules
<1>10. at \in Int /\ at = IF idx >= Granule(6) THEN last + Granule(6) - 1 ELSE expires
  BY <1>4
<1>11. expires = last => s = <<1, Index(1, last)>>
  <2>1. expires = last => idx = 0
    BY <1>7
  <2>2. idx = 0 => at = expires /\ k = 1
    BY <1>3, <1>4
  <2> QED
    BY <1>2, <2>1, <2>2
<1>12. /\ V \in Int
       /\ V >= last
       /\ \E r \in Int : V = g * r /\ r % w = s[2]
       /\ \A z \in Int : g * z >= last /\ z % w = s[2] => V <= g * z
  BY <1>5, <1>6, VisitIsFirst
<1> HIDE DEF idx, k, at, s, g, w, V
<1>13. q \in Int /\ g * q <= at /\ at < (g * q) + g /\ g * q \in Int
  <2>1. q \in Int /\ g * q <= at /\ at < (g * q) + g
    BY <1>4, <1>10, Quotient
  <2> QED
    BY <1>4, <2>1, RoundsInOrder
<1> HIDE DEF q
<1>14. PICK r \in Int : V = g * r /\ r % w = s[2]
  BY <1>12
<1> DEFINE turn == g * w
<1>15. turn \in Int
  BY <1>4, RoundsInOrder
<1>16. at <= expires /\ at < last + turn
  <2>1. CASE idx >= Granule(6)
    <3>1. Granule(6) = turn
      BY <1>3, <2>1
    <3> HIDE DEF turn
    <3> QED
      BY <1>4, <1>7, <1>10, <1>15, <2>1, <3>1, SMT
  <2>2. CASE idx < Granule(6)
    <3>1. idx < turn
      BY <1>3, <2>2
    <3> HIDE DEF turn
    <3> QED
      BY <1>4, <1>7, <1>10, <1>15, <2>2, <3>1, SMT
  <2> QED
    BY <1>4, <1>7, <2>1, <2>2
(* In the vectors above the first the element's granule is a later one.    *)
<1>17. k # 1 => g * q > last
  <2>1. CASE idx >= Granule(6)
    BY <1>3, <1>4, <1>9, <1>10, <1>13, <2>1, SMT
  <2>2. CASE idx < Granule(6)
    BY <1>3, <1>4, <1>7, <1>10, <1>13, <2>2, SMT
  <2> QED
    BY <1>4, <1>7, <2>1, <2>2
<1>18. k = 1 => at = expires /\ q = expires /\ g * q = expires
  <2>1. ASSUME k = 1
        PROVE  at = expires
    BY <1>3, <1>4, <1>7, <1>10, <2>1
  <2>2. ASSUME k = 1
        PROVE  q = expires
    BY <1>8, <1>10, <1>13, <2>1, <2>2, SMT
  <2> QED
    BY <1>8, <2>1, <2>2
<1>19. V <= expires
  <2>1. g * q >= last
    BY <1>13, <1>17, <1>18, SMT
  <2>2. V <= g * q
    BY <1>6, <1>12, <1>13, <2>1
  <2> QED
    BY <1>10, <1>12, <1>13, <1>16, <2>2, SMT
(* A visit in the present tick would be a round less than a turn earlier.  *)
<1>20. V = last => r = q
  <2> SUFFICES ASSUME V = last
               PROVE  r = q
    OBVIOUS
  <2>1. g * q >= g * r
    BY <1>12, <1>13, <1>14, <1>17, <1>18, SMT
  <2>2. ~(q < r)
    <3>1. q < r => (g * q) + g <= g * r
      BY <1>4, <1>13, <1>14, RoundsInOrder
    <3>2. g * r \in Int
      BY <1>12, <1>14
    <3> QED
      BY <1>4, <1>13, <2>1, <3>1, <3>2, SMT
  <2>3. g * q < g * (r + w)
    <3>1. g * (r + w) = (g * r) + turn
      BY <1>4, <1>14, RoundsInOrder
    <3> HIDE DEF turn
    <3> QED
      BY <1>10, <1>13, <1>14, <1>15, <1>16, <3>1, SMT
  <2>4. q < r + w
    <3>1. r + w \in Int
      BY <1>4, <1>14
    <3> QED
      BY <1>4, <1>13, <2>3, <3>1, RoundsInOrder
  <2>5. r <= q
    BY <1>13, <1>14, <2>2, SMT
  <2> QED
    BY <1>4, <1>6, <1>13, <1>14, <2>4, <2>5, SameSlotSameRound
<1>21. expires > last => V > last
  <2>1. V = last => g * q = last
    BY <1>14, <1>20
  <2> QED
    BY <1>12, <1>13, <1>17, <1>18, <2>1, SMT
<1>22. k = 1 => V = expires
  <2> SUFFICES ASSUME k = 1
               PROVE  V = expires
    OBVIOUS
  <2>1. V = r /\ r <= q /\ q < r + w
    <3>1. V = r
      BY <1>8, <1>14, SMT
    <3>2. turn = w
      BY <1>4, <1>8, SMT
    <3> HIDE DEF turn
    <3>3. q = expires /\ at = expires
      BY <1>18
    <3> QED
      BY <1>4, <1>10, <1>12, <1>13, <1>14, <1>15, <1>16, <1>19, <3>1, <3>2, <3>3, SMT
  <2>2. r = q
    BY <1>4, <1>6, <1>13, <1>14, <2>1, SameSlotSameRound
  <2> QED
    BY <1>18, <2>1, <2>2
<1> QED
  BY <1>5, <1>6, <1>11, <1>19, <1>21, <1>22 DEF s, V

-----------------------------------------------------------------------------
(***************************************************************************)
(* What a cascade leaves: every element in a slot that is visited in time, *)
(* and no element, but in m_tv1, in a slot that was to be visited now.     *)
(***************************************************************************)
OnTime(vec, last, next) ==
  \A s \in Slot : \A e \in vec[s] :
    /\ Visit(s, last) <= next[e]
    /\ s[1] = 1 => Visit(s, last) = next[e]

Emptied(vec, k, last) ==
  \A s \in Slot : s[1] = k /\ Visit(s, last) = last => vec[s] = {}

Within(vec, last, next) ==
  \A s \in Slot : \A e \in vec[s] : 2 * (next[e] - last) < WORD

(* At a tick that begins a granule of a vector, the vectors below it begin *)
(* a turn: the && of Run's condition holds.                                *)
LEMMA GranuleBegins ==
  ASSUME NEW k \in 2 .. 5, NEW last \in Int, \E r \in Int : last = Granule(k) * r
  PROVE  \A j \in 1 .. (k - 1) : Index(j, last) = 0
<1> DEFINE Begins(j) == \E r \in Int : last = Granule(j) * r
<1>1. ASSUME NEW j \in 1 .. 4, Begins(j + 1)
      PROVE  Index(j, last) = 0 /\ Begins(j)
  <2> DEFINE g == Granule(j)
  <2> DEFINE w == Width(j)
  <2>1. g \in Nat \ {0} /\ w \in Nat \ {0} /\ Granule(j + 1) = g * w
    BY Positive, Granules DEF Level
  <2>2. PICK r \in Int : last = (g * w) * r
    BY <1>1, <2>1
  <2> HIDE DEF g, w
  <2>3. w * r \in Int /\ last = g * (w * r)
    BY <2>1, <2>2, SMT
  <2>4. last \div g = w * r
    BY <2>1, <2>3, QuotientOfMultiple
  <2>5. (w * r) % w = 0
    BY <2>1, SMT
  <2> QED
    BY <2>3, <2>4, <2>5 DEF Index, g, w
<1>2. Begins(k)
  OBVIOUS
<1> HIDE DEF Begins
<1>3. /\ Begins(5) => Index(4, last) = 0 /\ Begins(4)
      /\ Begins(4) => Index(3, last) = 0 /\ Begins(3)
      /\ Begins(3) => Index(2, last) = 0 /\ Begins(2)
      /\ Begins(2) => Index(1, last) = 0
  <2>1. Begins(4 + 1) => Index(4, last) = 0 /\ Begins(4)
    BY <1>1
  <2>2. Begins(3 + 1) => Index(3, last) = 0 /\ Begins(3)
    BY <1>1
  <2>3. Begins(2 + 1) => Index(2, last) = 0 /\ Begins(2)
    BY <1>1
  <2>4. Begins(1 + 1) => Index(1, last) = 0 /\ Begins(1)
    BY <1>1
  <2> QED
    BY <2>1, <2>2, <2>3, <2>4
<1>4. CASE k = 2
  BY <1>2, <1>3, <1>4
<1>5. CASE k = 3
  <2>1. \A j \in 1 .. (k - 1) : j = 1 \/ j = 2
    BY <1>5
  <2> QED
    BY <1>2, <1>3, <1>5, <2>1
<1>6. CASE k = 4
  <2>1. \A j \in 1 .. (k - 1) : j = 1 \/ j = 2 \/ j = 3
    BY <1>6
  <2> QED
    BY <1>2, <1>3, <1>6, <2>1
<1>7. CASE k = 5
  <2>1. \A j \in 1 .. (k - 1) : j = 1 \/ j = 2 \/ j = 3 \/ j = 4
    BY <1>7
  <2> QED
    BY <1>2, <1>3, <1>7, <2>1
<1> QED
  BY <1>4, <1>5, <1>6, <1>7

(* One vector's turn to be cascaded, or not.                               *)
LEMMA CascadeOnTime ==
  ASSUME NEW S, NEW vec \in [Slot -> SUBSET S], NEW k \in 2 .. 5,
         NEW last \in Int, NEW next \in [S -> Int],
         OnTime(vec, last, next), Within(vec, last, next)
  PROVE  LET new == CascadeIfDue(vec, k, last, next)
         IN  /\ new \in [Slot -> SUBSET S]
             /\ OnTime(new, last, next)
             /\ Within(new, last, next)
             /\ Emptied(new, k, last)
             /\ \A j \in 2 .. 5 : Emptied(vec, j, last) => Emptied(new, j, last)
<1> DEFINE due == \A j \in 1 .. (k - 1) : Index(j, last) = 0
<1> DEFINE new == CascadeIfDue(vec, k, last, next)
<1>1. CASE ~due
  <2>1. new = vec
    BY <1>1 DEF CascadeIfDue
  <2>2. \A s \in Slot : s[1] = k => Visit(s, last) # last
    BY <1>1, VisitedNow, GranuleBegins
  <2> QED
    BY <2>1, <2>2 DEF Emptied
<1>2. CASE due
  <2> DEFINE from == <<k, Index(k, last)>>
  <2> DEFINE to(e) == SlotOf(next[e], last)
  <2>1. new = [s \in Slot |-> (IF s = from THEN {} ELSE vec[s])
                                \cup {e \in vec[from] : to(e) = s}]
    BY <1>2 DEF CascadeIfDue, Cascade
  <2>2. from \in Slot
    BY IndexRange DEF Slot, Level, Width
  <2>3. ASSUME NEW e \in vec[from]
        PROVE  /\ next[e] \in Int
               /\ 2 * (next[e] - last) < WORD
               /\ to(e) \in Slot
               /\ Visit(to(e), last) <= next[e]
               /\ to(e)[1] = 1 => Visit(to(e), last) = next[e]
               /\ Visit(to(e), last) # last \/ to(e)[1] = 1
    <3>1. next[e] \in Int /\ 2 * (next[e] - last) < WORD
      BY <2>2 DEF Within
    <3>2. last <= next[e]
      <4>1. Visit(from, last) <= next[e]
        BY <2>2 DEF OnTime
      <4>2. Visit(from, last) \in Int /\ Visit(from, last) >= last
        BY <2>2, VisitIsFirst
      <4> QED
        BY <3>1, <4>1, <4>2, SMT
    <3>3. /\ to(e) \in Slot
          /\ Visit(to(e), last) <= next[e]
          /\ to(e)[1] = 1 => Visit(to(e), last) = next[e]
          /\ next[e] > last => Visit(to(e), last) > last
          /\ next[e] = last => to(e) = <<1, Index(1, last)>>
      BY <3>1, <3>2, SlotOnTime
    <3>4. next[e] > last \/ next[e] = last
      BY <3>1, <3>2
    <3> QED
      BY <3>1, <3>3, <3>4
  <2> HIDE DEF to, from, new
  <2>4. \A s \in Slot : \A e \in new[s] :
          \/ s # from /\ e \in vec[s]
          \/ e \in vec[from] /\ to(e) = s
    BY <2>1
  <2>5. new \in [Slot -> SUBSET S]
    BY <2>1, <2>2
  <2>6. OnTime(new, last, next)
    BY <2>3, <2>4 DEF OnTime
  <2>7. Within(new, last, next)
    BY <2>3, <2>4 DEF Within
  <2>8. Emptied(new, k, last)
    <3> SUFFICES ASSUME NEW s \in Slot, s[1] = k, Visit(s, last) = last, NEW e \in new[s]
                 PROVE  FALSE
      BY DEF Emptied
    <3>1. s = from
      BY VisitedNow DEF from
    <3>2. to(e) = s /\ e \in vec[from]
      BY <2>4, <3>1
    <3>3. to(e)[1] # 1
      BY <3>2
    <3> QED
      BY <2>3, <3>2, <3>3
  <2>9. ASSUME NEW j \in 2 .. 5, Emptied(vec, j, last)
        PROVE  Emptied(new, j, last)
    <3> SUFFICES ASSUME NEW s \in Slot, s[1] = j, Visit(s, last) = last, NEW e \in new[s]
                 PROVE  FALSE
      BY DEF Emptied
    <3>1. e \notin vec[s]
      BY <2>9 DEF Emptied
    <3>2. to(e) = s /\ e \in vec[from]
      BY <2>4, <3>1
    <3>3. to(e)[1] # 1
      BY <3>2
    <3> QED
      BY <2>3, <3>2, <3>3
  <2> QED
    BY <2>5, <2>6, <2>7, <2>8, <2>9 DEF new
<1> QED
  BY <1>1, <1>2

(* The cascades of one tick: what is left in a slot to be visited now is   *)
(* in the current slot of m_tv1.                                           *)
LEMMA CascadeAllOnTime ==
  ASSUME NEW S, NEW vec \in [Slot -> SUBSET S],
         NEW last \in Int, NEW next \in [S -> Int],
         OnTime(vec, last, next), Within(vec, last, next)
  PROVE  LET new == CascadeAll(vec, last, next)
         IN  /\ OnTime(new, last, next)
             /\ \A s \in Slot :
                  Visit(s, last) = last /\ new[s] # {} => s = <<1, Index(1, last)>>
<1> DEFINE Good(v) ==
      v \in [Slot -> SUBSET S] /\ OnTime(v, last, next) /\ Within(v, last, next)
<1> DEFINE v2 == CascadeIfDue(vec, 2, last, next)
<1> DEFINE v3 == CascadeIfDue(v2, 3, last, next)
<1> DEFINE v4 == CascadeIfDue(v3, 4, last, next)
<1> DEFINE v5 == CascadeIfDue(v4, 5, last, next)
<1> DEFINE Step(v, k, u) ==
      /\ Good(u)
      /\ Emptied(u, k, last)
      /\ \A j \in 2 .. 5 : Emptied(v, j, last) => Emptied(u, j, last)
<1>1. ASSUME NEW v, Good(v), NEW k \in 2 .. 5
      PROVE  Step(v, k, CascadeIfDue(v, k, last, next))
  BY <1>1, CascadeOnTime
<1>2. Good(vec)
  OBVIOUS
<1>3. v5 = CascadeAll(vec, last, next)
  BY DEF CascadeAll
<1> HIDE DEF Good
<1>4. Step(vec, 2, v2)
  BY <1>1, <1>2
<1> HIDE DEF v2
<1>5. Step(v2, 3, v3)
  BY <1>1, <1>4
<1> HIDE DEF v3
<1>6. Step(v3, 4, v4)
  BY <1>1, <1>5
<1> HIDE DEF v4
<1>7. Step(v4, 5, v5)
  BY <1>1, <1>6
<1> HIDE DEF v5
<1>8. \A k \in {2, 3, 4, 5} : Emptied(v5, k, last)
  BY <1>4, <1>5, <1>6, <1>7
<1>9. ASSUME NEW s \in Slot, Visit(s, last) = last, v5[s] # {}
      PROVE  s = <<1, Index(1, last)>>
  <2>1. s[1] = 1 \/ s[1] \in {2, 3, 4, 5}
    BY DEF Slot
  <2>2. s[1] \notin {2, 3, 4, 5}
    BY <1>8, <1>9 DEF Emptied
  <2> QED
    BY <1>9, <2>1, <2>2, VisitedNow
<1> QED
  BY <1>3, <1>7, <1>9 DEF Good

(* No element lies in a slot that is visited at tick last.                 *)
Cleared(vec, last) == \A s \in Slot : Visit(s, last) = last => vec[s] = {}

(* v holds what vec holds, and elements of C where AddTimerElement puts    *)
(* them, none of which expires before the present tick.                    *)
Joined(vec, next, v, nextNew, C, last) ==
  /\ \A s \in Slot : \A e \in v[s] :
       \/ e \in vec[s] /\ nextNew[e] = next[e]
       \/ e \in C /\ SlotOf(nextNew[e], last) = s
  /\ \A e \in C : /\ nextNew[e] \in Int
                  /\ last <= nextNew[e]
                  /\ 2 * (nextNew[e] - last) < WORD

(* Elements that are added are on time, as those that were there; and when *)
(* they do not expire in the present tick, its slots stay cleared.         *)
LEMMA AddsOnTime ==
  ASSUME NEW vec, NEW v, NEW C, NEW last \in Int, NEW next, NEW nextNew,
         OnTime(vec, last, next), Joined(vec, next, v, nextNew, C, last)
  PROVE  /\ OnTime(v, last, nextNew)
         /\ Cleared(vec, last) /\ (\A e \in C : last < nextNew[e])
              => Cleared(v, last)
<1>1. ASSUME NEW s \in Slot, NEW e \in v[s]
      PROVE  /\ Visit(s, last) <= nextNew[e]
             /\ s[1] = 1 => Visit(s, last) = nextNew[e]
  <2>1. CASE e \in vec[s] /\ nextNew[e] = next[e]
    BY <2>1 DEF OnTime
  <2>2. CASE e \in C /\ SlotOf(nextNew[e], last) = s
    BY <2>2, SlotOnTime DEF Joined
  <2> QED
    BY <1>1, <2>1, <2>2 DEF Joined
<1>2. ASSUME Cleared(vec, last), \A e \in C : last < nextNew[e],
             NEW s \in Slot, Visit(s, last) = last, NEW e \in v[s]
      PROVE  FALSE
  <2>1. e \notin vec[s]
    BY <1>2 DEF Cleared
  <2>2. e \in C /\ SlotOf(nextNew[e], last) = s
    BY <1>2, <2>1 DEF Joined
  <2>3. Visit(s, last) > last
    BY <1>2, <2>2, SlotOnTime DEF Joined
  <2> QED
    BY <1>2, <2>3
<1> QED
  BY <1>1, <1>2 DEF OnTime, Cleared

(* When a tick's slots are cleared its elements are on time for the next.  *)
LEMMA OnTimeNextTick ==
  ASSUME NEW vec, NEW last \in Int, NEW next,
         OnTime(vec, last, next), Cleared(vec, last)
  PROVE  OnTime(vec, last + 1, next)
<1>1. \A s \in Slot : vec[s] # {} => Visit(s, last + 1) = Visit(s, last)
  BY VisitFromNextTick DEF Cleared
<1> QED
  BY <1>1 DEF OnTime
=============================================================================
