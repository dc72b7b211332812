SPECIFICATION ThreadSpec
CONSTANTS
  Loop = Loop
  Owner = Owner
  Workers = {Owner, w1}
  Funcs = {f1, f2}
  Wake = Wake
  Channels = {c1}
  OwnerPushesEarly = FALSE
INVARIANT StartedLoopLives
PROPERTIES
  StartReturns
  ExecRuns
  DtorReturnsIfLooping
