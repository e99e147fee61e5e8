CONSTANTS
  Programs = {"teams"}
  Answers = {a1, a2}
  Points = {p1, p2}
  Lines = {line1, line2}
  MaxLines = 2
  Numbers = {n1, n2}
  PipeCapacity = 2
  MaxRuns = 1
SPECIFICATION Spec
PROPERTY BothJoin
CHECK_DEADLOCK FALSE
