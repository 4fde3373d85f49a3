\* The bound on the requests stops the connection.
CONSTANTS
  Fields <- TwoFields
  TableSize = 2
  Blocks <- ShortBlocks
  MaxRequests = 3
SPECIFICATION Spec
INVARIANTS HeadersInSync FrameHeadersOwnOrNone
CHECK_DEADLOCK FALSE
