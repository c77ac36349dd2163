SPECIFICATION Spec
CONSTANTS
  Contracts = {c1}
  Clients = {k1}
  Jobs = {j1}
  NoContract = NoContract
  NoJob = NoJob
  MaxFaults = 0
  MaxCrashes = 1
INVARIANT Resumable
CHECK_DEADLOCK FALSE
