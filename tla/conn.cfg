\* A client that sends any frame at any time, on one stream.
CONSTANTS
  StreamIds <- OneStream
  MaxFrames = 3
  ChanCap = 1
  MaxChunks = 1
  Supervised = FALSE
  Strict = FALSE
SPECIFICATION Spec
INVARIANTS FramerExclusive NoSilentDrop NoDoubleClose InFlightTracked AnsweredLeavesMap
INVARIANTS OneGoAway DrainSound IInv
PROPERTIES BodyWaitNotSkipped ImplementsService
