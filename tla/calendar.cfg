SPECIFICATION Spec

CONSTANTS
  YearsBack = {132, 2102}
  Units = {24, 1440, 86400, 259200, 345600, 864000}
  DaySteps = 73049
  ClockSteps = 2500
  MaxMonths = 14

INVARIANTS
  TypeOK
  DateInStep
  ClockInStep
  NthWeekdays
  MonthsAddUp
  WeeksInStep
  ParsesBack

CHECK_DEADLOCK FALSE
