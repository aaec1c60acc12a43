SPECIFICATION Spec

CONSTANTS
  N = 2
  Period = 2
  Rate = 3
  Second = 2
  Length_s = 1
  Batch = 2
  CounterLimit = 7
  MaxClock = 9
  MaxSent = 8

INVARIANTS
  TypeOK
  NeverAhead
  NeverTooMany
  SendsItsShare
  OneRoundOvertime
  WindowsRecover

CHECK_DEADLOCK FALSE
