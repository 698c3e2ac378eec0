----------------------------- MODULE TimerWheel -----------------------------
(***************************************************************************)
(* The hashed hierarchical timing wheel of CDMTimerModule: five vectors of *)
(* lists, m_tv1 with TVR_SIZE slots and m_tv2 .. m_tv5 with TVN_SIZE slots *)
(* each.  This module has no state: it says where AddTimerElement puts a   *)
(* timer, what __Cascade moves, and which slots Run cascades at a tick.    *)
(*                                                                         *)
(* A slot's list is the SET of the elements on it.  The order inside a     *)
(* list decides only the order of the callbacks of one tick, which nothing *)
(* here depends on: TimerModule runs them in every order.                  *)
(*                                                                         *)
(* Shifts and masks of the code are divisions and remainders here:         *)
(* (t >> TVR_BITS) & TVN_MASK is (t \div TVR_SIZE) % TVN_SIZE.             *)
(***************************************************************************)
EXTENDS Integers

CONSTANTS
  TVR_SIZE,   \* slots of m_tv1 (256 in the code)
  TVN_SIZE,   \* slots of m_tv2 .. m_tv5 (64 in the code)
  WORD        \* number of values of a uint64_t (2^64 in the code)

Level == 1 .. 5

(* Number of slots of vector k.                                            *)
Width(k) == IF k = 1 THEN TVR_SIZE ELSE TVN_SIZE

(* Ticks that one slot of vector k stands for; Granule(6) is the span of   *)
(* the whole wheel, 2^32 in the code.                                      *)
Granule(k) ==
  CASE k = 1 -> 1
    [] k = 2 -> TVR_SIZE
    [] k = 3 -> TVR_SIZE * TVN_SIZE
    [] k = 4 -> TVR_SIZE * TVN_SIZE * TVN_SIZE
    [] k = 5 -> TVR_SIZE * TVN_SIZE * TVN_SIZE * TVN_SIZE
    [] k = 6 -> TVR_SIZE * TVN_SIZE * TVN_SIZE * TVN_SIZE * TVN_SIZE

ASSUME WheelAssumption ==
  /\ TVR_SIZE \in Nat \ {0}
  /\ TVN_SIZE \in Nat \ {0, 1}
  /\ WORD \in Nat \ {0}
  /\ 2 * Granule(6) <= WORD

(* The slot of vector k that stands for time t: t & TVR_MASK for k = 1,    *)
(* DM_INDEX(t, k - 2) for the others.                                      *)
Index(k, t) == (t \div Granule(k)) % Width(k)

(* A slot is named by its vector and its index there.                      *)
Slot == ({1} \X (0 .. TVR_SIZE - 1)) \cup ((2 .. 5) \X (0 .. TVN_SIZE - 1))

(* Everything on the lists of a wheel, and that nothing is on two of them. *)
On(vec) == UNION {vec[s] : s \in Slot}
Disjoint(vec) == \A s, t \in Slot : s # t => vec[s] \cap vec[t] = {}

-----------------------------------------------------------------------------
(* A uint64_t difference read as an int64_t is negative.                   *)
Negative(w) == 2 * w >= WORD

(* Wrong: the first test is idx <= TVR_SIZE.                               *)
LevelOfOffByOne(idx) ==
  CASE idx <= Granule(2) -> 1
    [] idx > Granule(2) /\ idx < Granule(3) -> 2
    [] idx >= Granule(3) /\ idx < Granule(4) -> 3
    [] idx >= Granule(4) /\ idx < Granule(5) -> 4
    [] OTHER -> 5

(* The vector that takes a timer idx ticks away from the current tick.     *)
LevelOf(idx) ==
  CASE idx < Granule(2) -> 1
    [] idx >= Granule(2) /\ idx < Granule(3) -> 2
    [] idx >= Granule(3) /\ idx < Granule(4) -> 3
    [] idx >= Granule(4) /\ idx < Granule(5) -> 4
    [] OTHER -> 5

(* Wrong: the list is chosen by the distance, not by the time.             *)
SlotOfDistance(expires, last) ==
  LET idx == (expires - last) % WORD
  IN  IF Negative(idx) THEN <<1, Index(1, last)>>
                       ELSE <<LevelOf(idx), Index(LevelOf(idx), idx)>>

(* AddTimerElement's choice of a list, when the tick being processed is    *)
(* last.  A time already past goes on the list of the current tick, and a  *)
(* time beyond the wheel on the farthest list.                             *)
SlotOf(expires, last) ==
  LET idx    == (expires - last) % WORD
      k      == LevelOf(idx)
      beyond == idx >= Granule(6)
      at     == IF beyond THEN last + Granule(6) - 1 ELSE expires
  IN  IF Negative(idx) THEN <<1, Index(1, last)>> ELSE <<k, Index(k, at)>>

(* list_add_tail on the chosen list.                                       *)
Add(vec, e, expires, last) ==
  [vec EXCEPT ![SlotOf(expires, last)] = @ \cup {e}]

(* __Cascade: empty the current slot of vector k and add its elements      *)
(* again, each at its own expiry time next[e].                             *)
Cascade(vec, k, last, next) ==
  LET from == <<k, Index(k, last)>>
  IN  [s \in Slot |->
         (IF s = from THEN {} ELSE vec[s])
           \cup {e \in vec[from] : SlotOf(next[e], last) = s}]

(* Wrong: a vector is cascaded only when its own index is 0 too.           *)
CascadeIfDueLate(vec, k, last, next) ==
  IF \A j \in 1 .. k : Index(j, last) = 0 THEN Cascade(vec, k, last, next) ELSE vec

(* Run cascades vector k when the indices of all vectors below it are 0:   *)
(* the chain of && in its condition.                                       *)
CascadeIfDue(vec, k, last, next) ==
  IF \A j \in 1 .. (k - 1) : Index(j, last) = 0
    THEN Cascade(vec, k, last, next)
    ELSE vec

(* Wrong: no vector is ever cascaded.                                      *)
CascadeAllNever(vec, last, next) == vec

CascadeAll(vec, last, next) ==
  LET v2 == CascadeIfDue(vec, 2, last, next)
      v3 == CascadeIfDue(v2, 3, last, next)
      v4 == CascadeIfDue(v3, 4, last, next)
  IN  CascadeIfDue(v4, 5, last, next)

-----------------------------------------------------------------------------
(* The next tick, from tick "from" on, at which Run empties slot s: the    *)
(* first time t >= from with no remainder by the slot's granule and the    *)
(* slot's index.  Not in the code: the wheel is right when no element is   *)
(* visited later than it expires.                                          *)
Visit(s, from) ==
  LET g     == Granule(s[1])
      round == (from + g - 1) \div g
  IN  (round + ((s[2] - round) % Width(s[1]))) * g
=============================================================================
