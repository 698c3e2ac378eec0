-------------------------- MODULE TimerClockProofs --------------------------
(***************************************************************************)
(* The drift of the scaled clock is bounded, for every counter width,      *)
(* every speed and every pattern of readings.                              *)
(***************************************************************************)
EXTENDS TimerClock, TLAPS

(* Division with remainder, the form in which the others use it.           *)
LEMMA DivMod ==
  ASSUME NEW a \in Int, NEW d \in Nat \ {0}
  PROVE  /\ a \div d \in Int
         /\ (a % d) \in 0 .. d - 1
         /\ a = d * (a \div d) + (a % d)
OBVIOUS

(* Two residues whose numbers are less than the modulus apart.             *)
LEMMA Residues ==
  ASSUME NEW d \in Nat \ {0}, NEW q \in Int, NEW p \in Int,
         NEW r \in 0 .. d - 1, NEW s \in 0 .. d - 1, NEW g \in 0 .. d - 1,
         g = d * (q - p) + (r - s)
  PROVE  (r - s) % d = g
<1>1. q - p = 0 \/ q - p = 1
  <2>1. ASSUME q - p <= -1
        PROVE  FALSE
    <3>1. d * (q - p) <= -d
      BY <2>1
    <3>2. d * (q - p) \in Int
      OBVIOUS
    <3> QED BY <3>1, <3>2
  <2>2. ASSUME q - p >= 2
        PROVE  FALSE
    <3>1. d * (q - p) >= 2 * d
      BY <2>2
    <3>2. d * (q - p) \in Int
      OBVIOUS
    <3> QED BY <3>1, <3>2
  <2> QED BY <2>1, <2>2
<1>2. CASE q - p = 0
  <2>1. r - s = g
    BY <1>2
  <2> QED BY <2>1
<1>3. CASE q - p = 1
  <2>1. r - s = g - d
    BY <1>3
  <2>2. (g - d) % d = g
    OBVIOUS
  <2> QED BY <2>1, <2>2
<1> QED BY <1>1, <1>2, <1>3

(* A difference of residues is the difference of the numbers when that is  *)
(* smaller than the modulus.                                               *)
LEMMA Difference ==
  ASSUME NEW a \in Nat, NEW b \in Nat, NEW d \in Nat \ {0},
         b <= a, a - b < d
  PROVE  ((a % d) - (b % d)) % d = a - b
<1> DEFINE q == a \div d
           p == b \div d
           r == a % d
           s == b % d
           g == a - b
<1>1. q \in Int /\ a = d * q + r /\ r \in 0 .. d - 1
  BY DivMod
<1>2. p \in Int /\ b = d * p + s /\ s \in 0 .. d - 1
  BY DivMod
<1>3. g \in 0 .. d - 1
  OBVIOUS
<1> HIDE DEF q, p, r, s
<1>4. d * q - d * p = d * (q - p) /\ d * q \in Int /\ d * p \in Int
  BY <1>1, <1>2
<1>5. g = d * (q - p) + (r - s)
  BY <1>1, <1>2, <1>4
<1> HIDE DEF g
<1>6. (r - s) % d = g
  BY <1>1, <1>2, <1>3, <1>5, Residues
<1> QED BY <1>6 DEF r, s, g

(* What a reading drops is less than one millisecond, and nothing when no  *)
(* time has passed or the speed is a multiple of the normal one.           *)
LEMMA Dropped ==
  ASSUME ClockAssumption, NEW gap \in Nat, m_dwSpeed \in Nat
  PROVE  /\ Passed(gap) \in Nat
         /\ gap * m_dwSpeed - Passed(gap) * SPEED_DEFAULT \in 0 .. SPEED_DEFAULT - 1
         /\ gap = 0 => Passed(gap) = 0
         /\ m_dwSpeed % SPEED_DEFAULT = 0 =>
              gap * m_dwSpeed = Passed(gap) * SPEED_DEFAULT
<1> DEFINE x == gap * m_dwSpeed
<1>1. x \in Nat /\ SPEED_DEFAULT \in Nat \ {0}
  BY DEF ClockAssumption
<1> HIDE DEF x
<1>2. /\ x \div SPEED_DEFAULT \in Int
      /\ (x % SPEED_DEFAULT) \in 0 .. SPEED_DEFAULT - 1
      /\ x = SPEED_DEFAULT * (x \div SPEED_DEFAULT) + (x % SPEED_DEFAULT)
  BY <1>1, DivMod
<1>3. Passed(gap) = x \div SPEED_DEFAULT
  BY DEF Passed, x
<1>4. gap = 0 => x = 0
  BY DEF x
<1>5. Passed(gap) \in Nat
  BY <1>1, <1>2, <1>3
<1>6. x - Passed(gap) * SPEED_DEFAULT = (x % SPEED_DEFAULT)
  BY <1>1, <1>2, <1>3, <1>5
<1>7. gap = 0 => Passed(gap) = 0
  BY <1>1, <1>3, <1>4
<1>8. ASSUME m_dwSpeed % SPEED_DEFAULT = 0
      PROVE  x = Passed(gap) * SPEED_DEFAULT
  <2> DEFINE k == m_dwSpeed \div SPEED_DEFAULT
  <2>1. k \in Int /\ m_dwSpeed = SPEED_DEFAULT * k
    BY <1>1, <1>8, DivMod
  <2> HIDE DEF k
  <2>2. x = SPEED_DEFAULT * (gap * k)
    BY <1>1, <2>1 DEF x
  <2>3. gap * k \in Int
    BY <2>1
  <2>4. \A y \in Int : (SPEED_DEFAULT * y) % SPEED_DEFAULT = 0
    BY <1>1
  <2>5. (x % SPEED_DEFAULT) = 0
    BY <2>2, <2>3, <2>4
  <2> QED BY <2>5, <1>6, <1>1, <1>5
<1> QED BY <1>2, <1>5, <1>6, <1>7, <1>8 DEF x

(* One reading: how the total and the ideal time grow.                     *)
LEMMA Reading ==
  ASSUME ClockAssumption, ClockTypeOK, GetBootTime
  PROVE  /\ m_qwTotalTickCount' = m_qwTotalTickCount + Passed(real - sampled)
         /\ ideal' = ideal + (real - sampled) * m_dwSpeed
         /\ real - sampled \in Nat
<1>1. RealPassed(GetTickCount32) = real - sampled
  BY Difference DEF ClockAssumption, ClockTypeOK, RealPassed, GetTickCount32
<1> QED BY <1>1 DEF GetBootTime, ClockTypeOK

(* The invariant: the types, and the bound on the drift.                   *)
ClockInv == ClockTypeOK /\ DriftBounded

(* The invariant holds at the start.                                       *)
LEMMA ClockInit == ASSUME ClockAssumption, Init PROVE ClockInv
<1>1. real \in 0 .. TICK_WORD - 1
  BY DEF Init, ClockAssumption
<1> QED BY <1>1 DEF Init, ClockAssumption, ClockInv, ClockTypeOK, DriftBounded,
        Lost, GetTickCount32

(* Every step keeps the invariant.                                         *)
LEMMA ClockNext == ASSUME ClockAssumption, ClockInv, [Next]_vars PROVE ClockInv'
<1> USE DEF ClockInv
<1>1. CASE Millisecond
  BY <1>1 DEF Millisecond, ClockTypeOK, DriftBounded, Lost
<1>2. CASE GetBootTime
  <2> DEFINE gap == real - sampled
  <2>1. /\ gap \in Nat
        /\ m_qwTotalTickCount' = m_qwTotalTickCount + Passed(gap)
        /\ ideal' = ideal + gap * m_dwSpeed
    BY <1>2, Reading
  <2>2. /\ m_dwSpeed \in Nat /\ samples \in Nat /\ real \in Nat /\ sampled \in Nat
        /\ m_qwTotalTickCount \in Nat /\ ideal \in Nat
        /\ SPEED_DEFAULT \in Nat \ {0}
    BY DEF ClockTypeOK, ClockAssumption
  <2>3. /\ Passed(gap) \in Nat
        /\ gap * m_dwSpeed - Passed(gap) * SPEED_DEFAULT \in 0 .. SPEED_DEFAULT - 1
        /\ gap = 0 => Passed(gap) = 0
    BY <2>1, <2>2, Dropped
  <2>4. samples' = samples + (IF gap = 0 THEN 0 ELSE 1)
    BY <1>2, <2>2 DEF GetBootTime
  <2>5. gap = 0 => gap * m_dwSpeed = 0
    BY <2>2
  <2>6. gap * m_dwSpeed \in Nat
    BY <2>1, <2>2
  <2>7. Lost' = Lost + (gap * m_dwSpeed - Passed(gap) * SPEED_DEFAULT)
    BY <2>1, <2>2, <2>3, <2>6 DEF Lost
  <2>8. /\ samples' * (SPEED_DEFAULT - 1) =
             IF gap = 0 THEN samples * (SPEED_DEFAULT - 1)
                        ELSE samples * (SPEED_DEFAULT - 1) + (SPEED_DEFAULT - 1)
        /\ samples * (SPEED_DEFAULT - 1) \in Nat
    BY <2>2, <2>4
  <2>9. Lost \in 0 .. samples * (SPEED_DEFAULT - 1)
    BY DEF DriftBounded
  <2>10. DriftBounded'
    <3>1. CASE gap = 0
      <4>1. Lost' = Lost
        BY <3>1, <2>2, <2>3, <2>5, <2>7, <2>9, <2>8
      <4> QED BY <3>1, <4>1, <2>8, <2>9 DEF DriftBounded
    <3>2. CASE gap # 0
      <4> DEFINE B == samples * (SPEED_DEFAULT - 1)
                 x == gap * m_dwSpeed - Passed(gap) * SPEED_DEFAULT
      <4>1. /\ B \in Nat /\ Lost \in 0 .. B /\ Lost' = Lost + x
            /\ x \in 0 .. SPEED_DEFAULT - 1
            /\ samples' * (SPEED_DEFAULT - 1) = B + (SPEED_DEFAULT - 1)
        BY <3>2, <2>3, <2>7, <2>8, <2>9
      <4> HIDE DEF B, x
      <4>2. Lost' \in 0 .. B + (SPEED_DEFAULT - 1)
        BY <4>1, <2>2
      <4> QED BY <4>1, <4>2 DEF DriftBounded
    <3> QED BY <3>1, <3>2
  <2>11. ClockTypeOK'
    <3>1. m_qwTotalTickCount' \in Nat /\ ideal' \in Nat /\ samples' \in Nat
      BY <2>1, <2>2, <2>3, <2>4, <2>6
    <3> QED BY <1>2, <3>1, <2>2
            DEF GetBootTime, ClockTypeOK, GetTickCount32, ClockAssumption
  <2> QED BY <2>10, <2>11
<1>3. ASSUME NEW dwSpeed \in Speeds, SetSpeed(dwSpeed)
      PROVE  ClockInv'
  BY <1>3 DEF SetSpeed, ClockTypeOK, DriftBounded, Lost, ClockAssumption
<1>4. CASE UNCHANGED vars
  BY <1>4 DEF vars, ClockTypeOK, DriftBounded, Lost
<1> QED BY <1>1, <1>2, <1>3, <1>4 DEF Next

(* The clock of GetBootTime never runs ahead of the speed that is set and  *)
(* loses less than a millisecond per reading, whatever the program does.   *)
THEOREM Drift == Spec => [](ClockTypeOK /\ DriftBounded)
<1>1. Init => ClockInv
  BY ClockInit, ClockAssumption
<1>2. ClockInv /\ [Next]_vars => ClockInv'
  BY ClockNext, ClockAssumption
<1> QED BY <1>1, <1>2, PTL DEF Spec, ClockInv

(* At the normal speed and its multiples GetBootTime loses nothing.        *)
THEOREM WholeMultiples == Spec => WholeMultiplesExact
<1>1. ASSUME ClockInv, Next, m_dwSpeed % SPEED_DEFAULT = 0
      PROVE  Lost' = Lost
  <2>1. CASE Millisecond
    BY <2>1 DEF Millisecond, Lost
  <2>2. CASE GetBootTime
    <3> DEFINE gap == real - sampled
    <3>1. /\ gap \in Nat
          /\ m_qwTotalTickCount' = m_qwTotalTickCount + Passed(gap)
          /\ ideal' = ideal + gap * m_dwSpeed
      BY <1>1, <2>2, Reading, ClockAssumption DEF ClockInv
    <3>2. /\ m_qwTotalTickCount \in Nat /\ ideal \in Nat /\ m_dwSpeed \in Nat
          /\ SPEED_DEFAULT \in Nat
      BY <1>1, ClockAssumption DEF ClockInv, ClockTypeOK, ClockAssumption
    <3>3. Passed(gap) \in Nat /\ gap * m_dwSpeed = Passed(gap) * SPEED_DEFAULT
      BY <1>1, <3>1, <3>2, Dropped, ClockAssumption
    <3>4. (m_qwTotalTickCount + Passed(gap)) * SPEED_DEFAULT =
            m_qwTotalTickCount * SPEED_DEFAULT + Passed(gap) * SPEED_DEFAULT
      BY <3>2, <3>3
    <3> QED BY <3>1, <3>2, <3>3, <3>4 DEF Lost
  <2>3. ASSUME NEW dwSpeed \in Speeds, SetSpeed(dwSpeed)
        PROVE  Lost' = Lost
    BY <2>3 DEF SetSpeed, Lost
  <2> QED BY <1>1, <2>1, <2>2, <2>3 DEF Next
<1>2. ClockInv /\ [Next]_vars => [m_dwSpeed % SPEED_DEFAULT = 0 => Lost' = Lost]_vars
  BY <1>1
<1>3. Spec => []ClockInv
  BY Drift, PTL DEF ClockInv
<1> QED BY <1>2, <1>3, PTL DEF Spec, WholeMultiplesExact
=============================================================================
