\* Every request ends, the client stops, and a panic ends the process.
CONSTANTS
  Streams <- TwoStreams
  s1 = s1
  s2 = s2
  Requests <- TwoRequests
  MaxFrames = 4
SPECIFICATION Spec
SYMMETRY StreamSymmetry
INVARIANTS SnapshotPlaced SteadyIsExact OneClient AloneReportsOwn
CHECK_DEADLOCK FALSE
