\* The requests of a scenario come to an end, and so may the process.
CONSTANTS
  KeyIsSet = TRUE
  KeyIsLower = FALSE
  Decimal <- DecimalNumbers
  Scenarios <- AllScenarios
  Top = 1
SPECIFICATION Spec
INVARIANTS ParsedWhole SameBrowserSameRecord TcpOfOwnAddress ShownIsSearchable
INVARIANTS AnswersAgree LabelsTrue RedirectsEnd
CHECK_DEADLOCK FALSE
