\* Two calls, two tables, one retry, two faults, and a shutdown.
CONSTANTS
  c1 = c1  c2 = c2
  Replay = Replay  NoCall = NoCall
  Calls = {c1, c2}
  NumTables = 2
  TablesOf <- OwnTable
  Releasers = {c1}
  MaxRetries = 1
  MaxFaults = 2
  MayShutDown = TRUE
SPECIFICATION FairSpec
INVARIANT TypeOK
INVARIANT PendingHasReader
INVARIANT ReplayReadsAlone
INVARIANT UnreleasedIsNotMisled
PROPERTY ImplementsRemoteCalls
PROPERTY CallsEnd
CHECK_DEADLOCK FALSE
