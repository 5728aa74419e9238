\* Two items, the first one never quoted and the second created on the way,
\* two requests, two faults.
SPECIFICATION FairOracleSpec
CONSTANTS
  SeedItems = 1
  Silent = {1}
  Readers = {r1, r2}
  MaxItems = 2
  MaxQuotes = 2
  MaxFailures = 2
INVARIANTS OracleTypeOK NothingToLose MonotoneReads
PROPERTIES QuotesArrive
