\* A request is answered once.
CONSTANTS
  Capacity = 1
  Sizes <- TwoSizes
  Window = 3
  MaxFrames = 4
SPECIFICATION Spec
INVARIANTS HolesOnlyWhenFull EchoKeepsLength
PROPERTY StalledIsAnswered
CHECK_DEADLOCK FALSE
