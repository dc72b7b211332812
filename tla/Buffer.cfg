SPECIFICATION Spec
CONSTANTS
  InitLen = 3
  MaxChunk = 4
  MaxBytes = 9
PROPERTIES
  AppendIsFifo
  GrowsOnlyIfNeeded
