\* Under the supervisor, two streams; the client may send any frame, or
\* nothing, and need not read.
CONSTANTS
  StreamIds <- TwoStreams
  MaxFrames = 2
  ChanCap = 1
  MaxChunks = 0
  Supervised = TRUE
  Strict = FALSE
SPECIFICATION FairSpec
INVARIANTS GoAwayCovers
PROPERTIES Quiesces ImplementsFairService
