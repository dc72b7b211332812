SPECIFICATION Spec
CONSTANTS
  Characters <- MCCharacters
  Methods <- MCMethods
  Routes <- MCRoutes
  Requests <- MCRequests
  Malformed <- MCMalformed
  Outcomes <- MCOutcomes
  MaxMessages = 2
  MaxReads = 3
INVARIANTS
  WholeRequestsUnderstood
  ResponsesSeparable
PROPERTY ClosedAsAsked
