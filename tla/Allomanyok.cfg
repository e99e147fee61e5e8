CONSTANTS
  Programs = {"struktura", "file", "fopen_readwrite", "feladat", "open_fopen"}
  Buffer = 3
  Disk = 5
  Exps = {5}
  MaxRecords = 2
  MaxRuns = 3
  MaxFailed = 1
SPECIFICATION Spec
INVARIANTS TypeOK IdsIncrease ReadAsWritten
PROPERTY Ends
CHECK_DEADLOCK FALSE
