SPECIFICATION FairSpec
CONSTANTS
  Contracts = {c1}
  Clients = {k1, k2}
  Jobs = {j1, j2}
  NoContract = NoContract
  NoJob = NoJob
  MaxFaults = 1
  MaxCrashes = 1
INVARIANTS TypeOK SingleRunner ReadyIsOneRun UnconsentedUntouched FilesMatchRows
PROPERTIES OnlyTheReplyStrands DeletedForGood DeleteTakesFile ImplementsPromise
CHECK_DEADLOCK FALSE
