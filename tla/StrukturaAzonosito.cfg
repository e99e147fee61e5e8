CONSTANTS
  Programs = {"struktura"}
  Buffer = 3
  Disk = 5
  Exps = {1}
  MaxRecords = 3
  MaxRuns = 2
  MaxFailed = 0
SPECIFICATION Spec
INVARIANT UniqueIds
CHECK_DEADLOCK FALSE
