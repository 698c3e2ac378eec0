CONSTANTS
  MINUTE = 3
  HOUR = 3
  DAY = 2
  WEEK = 3
  MonthDays <- MCMonthDays
  LeapMonth = 1
  LeapYears <- MCLeapYears
  LastYear = 11
  CRON_MAX_YEARS_DIFF = 4
  MAX_DAYS = 11
  CRON_INT = 8
  Texts <- BothDays
  Starts <- MCStarts
  Delays <- MCDelays
  MaxTime <- MCMaxTime
SPECIFICATION Spec
PROPERTY NextMatches
CHECK_DEADLOCK FALSE
