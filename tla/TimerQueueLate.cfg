SPECIFICATION Spec
CONSTANTS
  a = a
  b = b
  Timers = {b}
  Interval <- MCInterval
  Delays = {0, 2}
  MaxTime = 5
PROPERTY RunsAgain
