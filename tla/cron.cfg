CONSTANTS
  MINUTE = 3
  HOUR = 3
  DAY = 2
  WEEK = 2
  MonthDays <- MCMonthDays
  LeapMonth = 1
  LeapYears <- MCLeapYears
  LastYear = 11
  CRON_MAX_YEARS_DIFF = 4
  MAX_DAYS = 11
  CRON_INT = 8
  Texts <- MCTexts
  Starts <- MCStarts
  Delays <- MCDelays
  MaxTime <- MCMaxTime
SPECIFICATION Spec
PROPERTIES NextMatches NoneSkipped
CHECK_DEADLOCK FALSE
