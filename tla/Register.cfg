\* Three uploads of chunked files, two of them to one path.
CONSTANTS
  A = A
  B = B
  C = C
  NoFile = NoFile
  Nobody = Nobody
  Clients <- MCClients
  Cases <- MCCases
  Paths <- MCPaths
SPECIFICATION FairSpec
INVARIANTS
  TypeOK
  EntryIsBacked
  OkIsBacked
  FailureNamesNothing
  OrphansNeedTrouble
  NoComeback
  PanicsHaveCause
PROPERTY Settles
\* Finished requests stop.
CHECK_DEADLOCK FALSE
