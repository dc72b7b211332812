SPECIFICATION Spec
CONSTANTS
  Clients = {c1, c2, c3, c4}
  ThreadNum = 2
  SystemLimit = 3
  ProcessLimit = 4
INVARIANTS
  AssertsHold
  DtorClosesAll
PROPERTIES
  RegistrySpec
  ClientsServed
  ConnectionsProgress
