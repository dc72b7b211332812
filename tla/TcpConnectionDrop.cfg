SPECIFICATION Spec
CONSTANTS
  Workers = {w1}
  Msgs = {m1, m2, m3}
  Room = 3
INVARIANT NothingDropped
