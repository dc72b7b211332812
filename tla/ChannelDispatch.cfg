SPECIFICATION DispatchSpec
CONSTANTS
  a1 = a1
  d1 = d1
  c1 = c1
  c2 = c2
  Channels = {a1, d1, c1, c2}
  Attempts = {a1}
  Dialled = {d1}
  Accepted = {c1, c2}
  Fds = {fd1, fd2, fd3}
  None = None
  NoFd = NoFd
  RetireUnused = FALSE
  ClosesOthers = FALSE
SYMMETRY Symmetry
INVARIANTS
  NoAssertFails
  IndexConsistent
  NoDanglingEvent
PROPERTIES
  PollReturnsInterested
  OwnDescriptorOnly
  RefusedNotConnected
