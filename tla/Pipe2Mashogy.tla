---------------------------- MODULE Pipe2Mashogy ----------------------------
(***************************************************************************)
(* 5.Gyak/pipe2_mashogy.c: the parent sends a number over one pipe and the  *)
(* child confirms it over the other.                                          *)
(***************************************************************************)
EXTENDS Zh

CONSTANT Numbers    \* rand() % 100

Processes == {"child", "main"}

Init ==
  /\ pc = [p \in Processes |-> IF p = "main" THEN "fork1" ELSE "off"]
  /\ pending = FALSE /\ ready = 0 /\ reaped = {}
  /\ pipe = [d \in {"io_pipes", "io_pipes1"} |-> <<>>]
  /\ mem = [r |-> "unset", arrived |-> "unset", pufferchar |-> "unset"]

child ==
  \/ Read("child", "start", "confirm", "io_pipes1", "arrived")
  \/ Write("child", "confirm", "exited", "io_pipes", "Megkaptam")

Main ==
  \/ Fork("child", "fork1", "rand")
  \/ \E n \in Numbers : Assign("main", "rand", "write", "r", n)
  \/ Write("main", "write", "read", "io_pipes1", mem["r"])
  \/ Read("main", "read", "wait", "io_pipes", "pufferchar")
  \/ Wait({"child"}, "wait", "done")

Next == Main \/ child

Spec == Init /\ [][Next]_zhVars

-----------------------------------------------------------------------------
(* Properties *)

TypeOK ==
  /\ DOMAIN pc = Processes /\ reaped \subseteq {"child"}
  /\ \A d \in DOMAIN pipe : Len(pipe[d]) \in 0..1

\* What the child confirms is the number it was sent, and it has it by then.
InOrder == mem["pufferchar"] # "unset" => mem["arrived"] = mem["r"] /\ mem["r"] \in Numbers
=============================================================================
