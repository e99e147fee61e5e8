CONSTANTS
  Programs = {"signal", "sigaction", "sigprocmask", "sigaction_multiple", "sigaction_value"}
  Copies = 3
SPECIFICATION Spec
INVARIANTS TypeOK HeldBack EverySignalHandled
PROPERTY Ends
CHECK_DEADLOCK FALSE
