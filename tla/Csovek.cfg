CONSTANTS
  Programs = {"szavazas", "child_communications", "kozos_szamlalas", "pipe_struct",
    "pipe", "pipe2", "pipe3", "pipe2_mashogy", "nevcso", "nevcso_mashogy", "nevcso2"}
  Counts <- UpToTwo
  Numbers = {0, 1}
  Parties = {1, 2}
  PipeCapacity = 2
  MaxNumbers = 3
  MaxTyped = 3
SPECIFICATION Spec
INVARIANTS TypeOK Framed InOrder EveryoneCounted
PROPERTY Ends
CHECK_DEADLOCK FALSE
