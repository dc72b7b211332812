SPECIFICATION Spec
CONSTANTS
  a = a
  b = b
  Timers = {a, b}
  Interval <- MCInterval
  Delays = {0, 2}
  MaxTime = 5
INVARIANTS
  CancelIsFinal
  ArmedForFirst
PROPERTIES
  FiresUnlessLate
