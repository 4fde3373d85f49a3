\* Two requests of a connection.
CONSTANTS
  Fields <- TwoFields
  TableSize = 2
  Blocks <- ShortBlocks
  MaxRequests = 2
SPECIFICATION Spec
INVARIANT RequestHeadersShown
CHECK_DEADLOCK FALSE
