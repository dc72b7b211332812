SPECIFICATION Spec
CONSTANTS
  Users = {u1, u2}
  MaxCalls = 1
  MaxCloses = 2
INVARIANTS
  DescriptorsOwned
  AssertsHold
  Driven
PROPERTIES
  RegistrySpec
  Connects
