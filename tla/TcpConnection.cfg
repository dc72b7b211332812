SPECIFICATION Spec
CONSTANTS
  Workers = {w1}
  Msgs = {m1, m2, m3}
  Room = 3
INVARIANTS
  PendingIsPolled
  StreamIntact
  FinLast
  AssertsHold
  WritesOwnSocket
PROPERTIES
  RegistrySpec
  ShutdownSendsFin
