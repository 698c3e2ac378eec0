----------------------------- MODULE TimerClock -----------------------------
(***************************************************************************)
(* The clock of CDMTimerModule.  GetBootTime turns the 32 bit millisecond  *)
(* counter of the machine into a 64 bit time that runs m_dwSpeed /         *)
(* SPEED_DEFAULT times as fast.  It is called by Run and by every          *)
(* SetTimer, so how often it is called is up to the program.               *)
(***************************************************************************)
EXTENDS Integers

CONSTANTS
  TICK_WORD,      \* number of values of a uint32_t (2^32 in the code)
  SPEED_DEFAULT,  \* the speed at which a millisecond is one (10000)
  Speeds,         \* arguments of SetSpeed
  Starts,         \* values of the machine's counter at the program's start
  MaxReal         \* bound on real time

ASSUME ClockAssumption ==
  /\ TICK_WORD \in Nat \ {0}
  /\ SPEED_DEFAULT \in Nat \ {0}
  /\ Speeds \subseteq Nat
  /\ Starts \subseteq 0 .. TICK_WORD - 1
  /\ MaxReal \in Nat

VARIABLES
  real,                \* milliseconds of CLOCK_MONOTONIC
  m_dwTickCount,       \* GetTickCount32() at the last reading
  m_qwTotalTickCount,  \* the time that GetBootTime returned last
  m_dwSpeed,
  sampled,             \* real at the last reading
  samples,             \* how many readings found that time had passed
  ideal                \* the sum of milliseconds times speed, not rounded

vars == <<real, m_dwTickCount, m_qwTotalTickCount, m_dwSpeed,
          sampled, samples, ideal>>

(* GetTickCount32: the counter wraps.                                      *)
GetTickCount32 == real % TICK_WORD

Init ==
  /\ real \in Starts
  /\ m_dwTickCount = GetTickCount32
  /\ m_qwTotalTickCount = 0
  /\ m_dwSpeed = SPEED_DEFAULT
  /\ sampled = real
  /\ samples = 0
  /\ ideal = 0

(* A millisecond passes.  The program is assumed to read the clock at      *)
(* least once in every round of the machine's counter (49.7 days).         *)
Millisecond ==
  /\ real < MaxReal
  /\ real + 1 - sampled < TICK_WORD
  /\ real' = real + 1
  /\ UNCHANGED <<m_dwTickCount, m_qwTotalTickCount, m_dwSpeed,
                 sampled, samples, ideal>>

(* Wrong: the difference is taken in a type wider than the counter.        *)
RealPassedNoWrap(cur) == cur - m_dwTickCount

(* dwRealPassedTime, a uint32_t difference: right across a wrap.           *)
RealPassed(cur) == (cur - m_dwTickCount) % TICK_WORD

(* Wrong: divided before it is multiplied.                                 *)
PassedDivideFirst(passed) == (passed \div SPEED_DEFAULT) * m_dwSpeed

(* qwPassedTime; what the division leaves over is dropped.                 *)
Passed(passed) == (passed * m_dwSpeed) \div SPEED_DEFAULT

(* Wrong: m_dwTickCount is not updated.                                    *)
GetBootTimeKeepsTick ==
  /\ m_qwTotalTickCount' = m_qwTotalTickCount + Passed(RealPassed(GetTickCount32))
  /\ sampled' = real
  /\ samples' = samples + (IF real = sampled THEN 0 ELSE 1)
  /\ ideal' = ideal + (real - sampled) * m_dwSpeed
  /\ UNCHANGED <<real, m_dwTickCount, m_dwSpeed>>

GetBootTime ==
  /\ m_dwTickCount' = GetTickCount32
  /\ m_qwTotalTickCount' = m_qwTotalTickCount + Passed(RealPassed(GetTickCount32))
  /\ sampled' = real
  /\ samples' = samples + (IF real = sampled THEN 0 ELSE 1)
  /\ ideal' = ideal + (real - sampled) * m_dwSpeed
  /\ UNCHANGED <<real, m_dwSpeed>>

(* Nothing is read here: the new speed counts from the last reading on.    *)
SetSpeed(dwSpeed) ==
  /\ m_dwSpeed' = dwSpeed
  /\ UNCHANGED <<real, m_dwTickCount, m_qwTotalTickCount, sampled, samples, ideal>>

Next ==
  \/ Millisecond
  \/ GetBootTime
  \/ \E dwSpeed \in Speeds : SetSpeed(dwSpeed)

Spec == Init /\ [][Next]_vars

-----------------------------------------------------------------------------
(* Types, and that m_dwTickCount is the counter at the last reading.       *)
ClockTypeOK ==
  /\ real \in Nat
  /\ sampled \in Nat
  /\ sampled <= real
  /\ real - sampled < TICK_WORD
  /\ m_dwTickCount = sampled % TICK_WORD
  /\ m_qwTotalTickCount \in Nat
  /\ m_dwSpeed \in Nat
  /\ samples \in Nat
  /\ ideal \in Nat

(* What the clock is behind of the time it should show, in units of        *)
(* 1 / SPEED_DEFAULT milliseconds.                                         *)
Lost == ideal - m_qwTotalTickCount * SPEED_DEFAULT

(* The clock never runs ahead of the speed that is set, and it loses less  *)
(* than a millisecond at every reading, over any number of wraps of the    *)
(* machine's counter and changes of speed.                                 *)
DriftBounded == Lost \in 0 .. samples * (SPEED_DEFAULT - 1)

(* At the normal speed and its multiples a reading loses nothing, however  *)
(* often the clock is read.                                                *)
WholeMultiplesExact ==
  [][m_dwSpeed % SPEED_DEFAULT = 0 => Lost' = Lost]_vars
=============================================================================
