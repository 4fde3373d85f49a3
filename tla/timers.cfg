\* The code's values, with the supervisor and without.
CONSTANTS
  Deadline = 3
  IdleTimeout = 6
  Period = 1
  BodyTimeout = 1
  DrainTimeout = 1
  MaxDelay = 2
  Requests <- TwoRequests
  Horizon = 9
SPECIFICATION Spec
INVARIANTS TimersTypeOK OverInTime DropsExplained IdleInTime
