\* A request is answered once.
CONSTANTS
  Capacity = 1
  Sizes <- TwoSizes
  Window = 3
  MaxFrames = 4
SPECIFICATION Spec
INVARIANT EchoesBody
CHECK_DEADLOCK FALSE
