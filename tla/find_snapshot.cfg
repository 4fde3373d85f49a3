\* One late frame of the connection.
CONSTANTS
  Streams <- TwoStreams
  s1 = s1
  s2 = s2
  Requests <- TwoRequests
  MaxFrames = 4
SPECIFICATION Spec
SYMMETRY StreamSymmetry
INVARIANT SnapshotCombines
CHECK_DEADLOCK FALSE
