SPECIFICATION FairSpec
CONSTANTS
  Loop = Loop
  Workers = {w1, w2}
  Funcs = {f1, f2, f3}
  Wake = Wake
  Channels = {c1}
  OwnerPushesEarly = FALSE
INVARIANTS
  NoLostWakeup
  NoLostQuit
PROPERTIES
  QueueSpec
  FunctionsRun
  QuitStops
