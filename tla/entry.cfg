\* The preamble is 2 bytes and a request is read up to 3 of its 4.
\* Clients stop, and the loop waits for the next.
CONSTANTS
  c1 = c1
  c2 = c2
  Connections <- TwoClients
  Preamble = 2
  MaxRequest = 3
  MaxLength = 3
  Messages <- OneOfEach
  Local = TRUE
  CorsKey = TRUE
SPECIFICATION FairSpec
INVARIANTS EntryTypeOK NobodyLeftOpen StrandedIsClosed OneRecordIsRead
PROPERTIES EveryoneEnds LoopComesBack
CHECK_DEADLOCK FALSE
