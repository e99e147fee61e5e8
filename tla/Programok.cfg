CONSTANTS
  Programs = {"vetelkedo", "ejtoernyo", "teams", "tajekoztato",
    "tajekoztato19", "uzenet2", "szemafor", "pos_szemafor", "szemafor2",
    "uzenet", "mq_uzenet", "osztmem", "poll_cso", "sel_cso", "ppoll"}
  Answers = {a1, a2}
  Points = {p1, p2}
  Lines = {line1, line2}
  MaxLines = 2
  Numbers = {n1, n2}
  PipeCapacity = 2
  MaxRuns = 2
SPECIFICATION Spec
INVARIANTS
  TypeOK Exclusion NoUseAfterRemoval InOrder KeptAtTheEnd VerdictDeserved
  ReadsWhatWasMeant
PROPERTY Ends
CHECK_DEADLOCK FALSE
