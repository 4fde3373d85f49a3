\* DATA after the body timeout.
CONSTANTS
  StreamIds <- OneStream
  MaxFrames = 2
  ChanCap = 1
  MaxChunks = 0
  Supervised = FALSE
  Strict = TRUE
SPECIFICATION Spec
INVARIANTS NoSendOnClosed
