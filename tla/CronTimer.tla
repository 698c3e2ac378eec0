------------------------------ MODULE CronTimer ------------------------------
(***************************************************************************)
(* A cron timer on the wall clock: SetTimerCron and Run ask cron_next for  *)
(* the next time that matches the timer's expression.                      *)
(*                                                                         *)
(* The calendar is scaled: MINUTE seconds in a minute, HOUR minutes in an  *)
(* hour, DAY hours in a day, WEEK days in a week, and months of given      *)
(* lengths, one of which is longer in a leap year.  Time is in seconds.  A *)
(* std::tm is a record of its fields as the code counts them: months from  *)
(* 0, the days of a month from 1.                                          *)
(*                                                                         *)
(* A text is a field by field set of items.  An item is what stands        *)
(* between two commas: "from-to/step", where ABSENT stands for a part that *)
(* is not there and STAR for "*" or "?" (the code replaces "?" by "*", and *)
(* names of days and months by their numbers).                             *)
(***************************************************************************)
EXTENDS Integers, Sequences, FiniteSetsExt

CONSTANTS
  MINUTE, HOUR, DAY, WEEK,
  MonthDays,            \* <<length of each month>> of a common year
  LeapMonth, LeapYears, \* the month (from 0) that has one day more in them
  LastYear,             \* bound on the calendar: years are 0 .. LastYear
  CRON_MAX_YEARS_DIFF,  \* years that find_next searches (4)
  MAX_DAYS,             \* days that find_next_day searches (366)
  CRON_INT,             \* number of values of a cron_int (2^8)
  Texts,                \* texts the program sets timers with
  Starts,               \* times at which it sets them
  Delays,               \* seconds by which Run may be late
  MaxTime               \* bound on time

ASSUME CronAssumption ==
  /\ {MINUTE, HOUR, DAY, WEEK} \subseteq Nat \ {0}
  /\ MonthDays \in Seq(Nat \ {0})
  /\ MAX_DAYS \in Nat
  /\ CRON_INT \in Nat \ {0}
  /\ Delays \subseteq Nat

ABSENT == -1
STAR == -2
NoText == <<>>
INVALID_TIME == -1
NotSet == -2

VARIABLES
  text,     \* m_strCron of the timer
  now,      \* time(0)
  next      \* the time the timer is linked for, NotSet before it is set

vars == <<text, now, next>>

-----------------------------------------------------------------------------
(* The calendar.                                                           *)
Months == Len(MonthDays)

DaysIn(year, mon) ==
  MonthDays[mon + 1] + (IF mon = LeapMonth /\ year \in LeapYears THEN 1 ELSE 0)

(* The day on which a month begins, counted from the first of all.         *)
MonthStart[m \in 0 .. Months * (LastYear + 1)] ==
  IF m = 0 THEN 0
  ELSE MonthStart[m - 1] + DaysIn((m - 1) \div Months, (m - 1) % Months)

SecondsOfDay == MINUTE * HOUR * DAY

(* time_to_tm.  The time zone has no daylight saving.                      *)
Tm == [t \in 0 .. MonthStart[Months * (LastYear + 1)] * SecondsOfDay - 1 |->
  LET day == t \div SecondsOfDay
      m   == CHOOSE k \in 0 .. Months * (LastYear + 1) - 1 :
               MonthStart[k] <= day /\ day < MonthStart[k + 1]
  IN  [sec  |-> t % MINUTE,
       min  |-> (t \div MINUTE) % HOUR,
       hour |-> (t \div (MINUTE * HOUR)) % DAY,
       wday |-> day % WEEK,
       mday |-> day - MonthStart[m] + 1,
       mon  |-> m % Months,
       year |-> m \div Months]]

(* tm_to_time: mktime, which also brings fields out of their ranges back   *)
(* into them and computes the day of the week from the others.             *)
Time(tm) ==
  LET day == MonthStart[tm.year * Months + tm.mon] + tm.mday - 1
  IN  tm.sec + MINUTE * (tm.min + HOUR * (tm.hour + DAY * day))

Normalized(tm) == Tm[Time(tm)]
-----------------------------------------------------------------------------
(* make_cron: from a text to one set of bits per field.                    *)
Fields == {"sec", "min", "hour", "wday", "mday", "mon"}

Lowest(field) == IF field \in {"mday", "mon"} THEN 1 ELSE 0

Highest(field) ==
  CASE field = "sec"  -> MINUTE - 1
    [] field = "min"  -> HOUR - 1
    [] field = "hour" -> DAY - 1
    [] field = "wday" -> WEEK - 1
    [] field = "mday" -> Max({DaysIn(y, m) : y \in 0 .. LastYear, m \in 0 .. Months - 1})
    [] field = "mon"  -> Months

(* to_cron_int, which keeps what fits.                                     *)
ToCronInt(number) == number % CRON_INT

(* make_range.                                                             *)
MakeRange(item, field) ==
  IF item.from = STAR THEN [first |-> Lowest(field), last |-> Highest(field)]
  ELSE IF item.to = ABSENT
         THEN [first |-> ToCronInt(item.from), last |-> ToCronInt(item.from)]
         ELSE [first |-> ToCronInt(item.from), last |-> ToCronInt(item.to)]

Valid(item, field) ==
  LET range == MakeRange(item, field)
  IN  /\ Lowest(field) <= range.first
      /\ range.first <= range.last
      /\ range.last <= Highest(field)
      /\ item.step # ABSENT => ToCronInt(item.step) > 0

(* The bits that the loops of set_cron_field set; i is a cron_int and may  *)
(* wrap before it is past the end.                                         *)
RECURSIVE BitsFrom(_, _, _)
BitsFrom(i, last, delta) ==
  IF i > last THEN {}
  ELSE {i} \cup BitsFrom(ToCronInt(i + delta), last, delta)

Bits(item, field) ==
  LET range == MakeRange(item, field)
      min   == Lowest(field)
  IN  IF item.step = ABSENT
        THEN BitsFrom(range.first - min, range.last - min, 1)
        ELSE BitsFrom(range.first - min,
                      (IF item.to = ABSENT THEN Highest(field) ELSE range.last) - min,
                      ToCronInt(item.step))

(* A field without an item is one that the code cannot split.              *)
IsCron(txt) ==
  \A f \in Fields : txt[f] # {} /\ \A item \in txt[f] : Valid(item, f)

MakeCron(txt) == [f \in Fields |-> UNION {Bits(item, f) : item \in txt[f]}]
-----------------------------------------------------------------------------
(* add_to_field: a day of the week is added as a day.                      *)
AddTo(tm, field) ==
  Normalized([tm EXCEPT ![IF field = "wday" THEN "mday" ELSE field] = @ + 1])

(* set_field and reset_field.                                              *)
Set(tm, field, val) == Normalized([tm EXCEPT ![field] = val])

Reset(tm, field) == Set(tm, field, IF field = "mday" THEN 1 ELSE 0)

ResetIfMarked(tm, field, marked) ==
  IF field \in marked THEN Reset(tm, field) ELSE tm

(* Wrong: nothing is reset.                                                *)
ResetNoField(tm, marked) == tm

(* reset_all_fields, in the order of cron_field.                           *)
ResetAll(tm, marked) ==
  ResetIfMarked(
    ResetIfMarked(
      ResetIfMarked(
        ResetIfMarked(tm, "sec", marked), "min", marked), "hour", marked), "mday", marked)

NextSetBit(target, offset) ==
  LET rest == {i \in target : i >= offset}
  IN  IF rest = {} THEN ABSENT ELSE Min(rest)

(* find_next for a field: the value found, and the date moved to it.       *)
FindField(target, tm, field, next_field, marked) ==
  LET value == tm[field]
      ahead == NextSetBit(target, value)
      found == IF ahead = ABSENT THEN NextSetBit(target, 0) ELSE ahead
      moved == IF ahead = ABSENT THEN Reset(AddTo(tm, next_field), field) ELSE tm
  IN  [value |-> found,
       tm    |-> IF ahead = ABSENT \/ found # value
                   THEN ResetAll(Set(moved, field, found), marked)
                   ELSE tm]

(* Wrong: either field may pick the day.                                   *)
IsDayOfEither(cex, mday, wday) == mday - 1 \in cex.mday \/ wday \in cex.wday

(* The test of find_next_day.                                              *)
IsDay(cex, mday, wday) == mday - 1 \in cex.mday /\ wday \in cex.wday

(* find_next_day from a day with the given day of month and of week on:    *)
(* the day of the month it ends with, and the date.                        *)
RECURSIVE FindDay(_, _, _, _, _, _)
FindDay(cex, tm, mday, wday, marked, count) ==
  IF IsDay(cex, mday, wday) \/ count = MAX_DAYS
    THEN [value |-> mday, tm |-> tm]
    ELSE LET later == AddTo(tm, "mday")
         IN  FindDay(cex, ResetAll(later, marked), later.mday, later.wday,
                     marked, count + 1)

NotFound == [year |-> -1]

(* find_next, for a search that began in year dot, field by field.  Each   *)
(* operator goes on from the date that the fields before it led to.  A     *)
(* field that is as it should be is marked; one that changed starts the    *)
(* search anew from the date it led to, and is not.                        *)
RECURSIVE FindNext(_, _, _)

FromMonth(cex, date, marked, dot) ==
  LET month == FindField(cex.mon, date, "mon", "year", marked)
  IN  IF month.value = date.mon THEN month.tm
      ELSE IF month.tm.year - dot > CRON_MAX_YEARS_DIFF THEN NotFound
      ELSE FindNext(cex, month.tm, dot)

FromDay(cex, date, marked, dot) ==
  LET day == FindDay(cex, date, date.mday, date.wday, marked, 0)
      ok  == day.value = date.mday
      at  == IF ok THEN day.tm ELSE FindNext(cex, day.tm, dot)
  IN  IF at = NotFound THEN NotFound
      ELSE FromMonth(cex, at, marked \cup (IF ok THEN {"mday"} ELSE {}), dot)

FromHour(cex, date, marked, dot) ==
  LET hour == FindField(cex.hour, date, "hour", "wday", marked)
      ok   == hour.value = date.hour
      at   == IF ok THEN hour.tm ELSE FindNext(cex, hour.tm, dot)
  IN  IF at = NotFound THEN NotFound
      ELSE FromDay(cex, at, marked \cup (IF ok THEN {"hour"} ELSE {}), dot)

FromMinute(cex, date, marked, dot) ==
  LET minute == FindField(cex.min, date, "min", "hour", marked)
      ok     == minute.value = date.min
      at     == IF ok THEN minute.tm ELSE FindNext(cex, minute.tm, dot)
  IN  IF at = NotFound THEN NotFound
      ELSE FromHour(cex, at, marked \cup (IF ok THEN {"min"} ELSE {}), dot)

FindNext(cex, date, dot) ==
  LET second == FindField(cex.sec, date, "sec", "min", {})
  IN  FromMinute(cex, second.tm, IF second.value = date.sec THEN {"sec"} ELSE {}, dot)

TimeOf(date) == IF date = NotFound THEN INVALID_TIME ELSE Time(date)

(* cron_next: a time that matches itself is not its own next.              *)
CronNext(cex, t) ==
  LET found == TimeOf(FindNext(cex, Tm[t], Tm[t].year))
      later == AddTo(Tm[t], "sec")
  IN  IF found = t THEN TimeOf(FindNext(cex, later, later.year)) ELSE found
-----------------------------------------------------------------------------
Init ==
  /\ text = NoText
  /\ now \in Starts
  /\ next = NotSet

(* SetTimerCron, of a text that make_cron does not throw on.               *)
SetTimerCron(txt) ==
  /\ next = NotSet
  /\ IsCron(txt)
  /\ text' = txt
  /\ next' = CronNext(MakeCron(txt), now)
  /\ UNCHANGED now

(* The time comes, or a little later.                                      *)
Wait(delay) ==
  /\ now < next
  /\ next + delay <= MaxTime
  /\ now' = next + delay
  /\ UNCHANGED <<text, next>>

(* Run calls the timer and links it again.  One that is linked for         *)
(* INVALID_TIME runs as soon as Run sees it.                               *)
Fire ==
  /\ next # NotSet
  /\ next <= now
  /\ next' = CronNext(MakeCron(text), now)
  /\ UNCHANGED <<text, now>>

Next ==
  \/ \E txt \in Texts : SetTimerCron(txt)
  \/ \E delay \in Delays : Wait(delay)
  \/ Fire

Spec == Init /\ [][Next]_vars
-----------------------------------------------------------------------------
(* What a text says, read without the code: the values that the items of a *)
(* field name, and the times at which every field has one of them.         *)
Names(item, field, value) ==
  LET lo == IF item.from = STAR THEN Lowest(field) ELSE item.from
      hi == IF item.to # ABSENT THEN item.to
            ELSE IF item.step # ABSENT \/ item.from = STAR THEN Highest(field)
            ELSE item.from
  IN  /\ value \in lo .. hi
      /\ item.step # ABSENT => (value - lo) % item.step = 0

Matches(txt, t) ==
  LET value == [Tm[t] EXCEPT !.mon = @ + 1]
  IN  \A f \in Fields : \E item \in txt[f] : Names(item, f, value[f])

(* A cron timer is linked for a time after the present one at which its    *)
(* expression matches, or for none (cron_next, SetTimerCron, Run).         *)
NextMatches ==
  [][next' # next /\ next' # INVALID_TIME => next' > now' /\ Matches(text', next')]_vars

(* A timer that is set, or runs, at a time at which its expression matches *)
(* is linked for the very next such time; it is linked for none only when  *)
(* there is none in the years that are searched (cron_next).               *)
NoneSkipped ==
  [][next' # next /\ Matches(text', now) =>
       LET years == (Tm[now].year + CRON_MAX_YEARS_DIFF + 1) * Months
           end   == IF next' = INVALID_TIME THEN MonthStart[years] * SecondsOfDay ELSE next'
       IN  \A t \in now + 1 .. end - 1 : ~Matches(text', t)]_vars
=============================================================================
