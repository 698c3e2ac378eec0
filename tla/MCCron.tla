------------------------------- MODULE MCCron -------------------------------
(* Values of the constants of CronTimer for TLC.                           *)
EXTENDS CronTimer

(* Months of 4, 2 and 4 days; the second has 3 in the years 1 and 5.       *)
MCMonthDays == <<4, 2, 4>>
MCLeapYears == {1, 5}

Item(from, to, step) == [from |-> from, to |-> to, step |-> step]
One(v)       == Item(v, ABSENT, ABSENT)
Span(lo, hi) == Item(lo, hi, ABSENT)
Every(v, n)  == Item(v, ABSENT, n)
All          == {Item(STAR, ABSENT, ABSENT)}
Lists(S)     == {{One(v) : v \in L} : L \in SUBSET S \ {{}}}

(* All times of the day, on all days, among them ranges, steps, a number   *)
(* too large and a field that is empty.                                    *)
TimeTexts ==
  [sec : Lists(0 .. 2) \cup {{Every(0, 2)}, {Span(1, 2)}, {One(3)}},
   min : Lists(0 .. 2) \cup {{Every(STAR, 2)}, {Item(0, 1, 2)}, {Span(2, 1)}, {}},
   hour : Lists(0 .. 1), mday : {All}, wday : {All}, mon : {All}]

(* All sets of days of the month, or of the week, in all sets of months.   *)
DayTexts ==
  [sec : {{One(1)}}, min : {All}, hour : {{One(1)}}, mon : Lists(1 .. 3),
   mday : Lists(1 .. 4), wday : {All}]
  \cup
  [sec : {{One(1)}}, min : {{One(0)}}, hour : {All}, mon : Lists(1 .. 3),
   mday : {All}, wday : Lists(0 .. 1)]

MCTexts == TimeTexts \cup DayTexts

(* A day of the month and of the week.                                     *)
BothDays ==
  [sec : {{One(0)}}, min : {{One(0)}}, hour : {{One(0)}},
   mday : Lists(1 .. 4), wday : Lists(0 .. 2), mon : {All}]

(* Every second of the years 0 and 1.                                      *)
MCStarts == 0 .. 21 * SecondsOfDay - 1
MCMaxTime == 42 * SecondsOfDay
MCDelays == {0, 1, 5}
=============================================================================
