------------------------ MODULE ChildCommunications -------------------------
(***************************************************************************)
(* Gyakorlas/child_communications.c: main sends a number to child_1, which *)
(* passes it on to child_2 with that many random numbers.                   *)
(***************************************************************************)
EXTENDS Zh, SequencesExt

CONSTANTS
  Counts,     \* what atoi(argv[1]) may be
  Numbers     \* rand_num(1000)

Children == {"child_1", "child_2"}
Processes == Children \cup {"main"}
Pipes == {"io_pipes_out", "child_communication_out"}    \* the other two are not used

\* arrived and i of each child, buffer of child_2.  elkuldott and olvasott keep
\* the random numbers that child_1 has sent and child_2 has printed.
NoLocals == [console_num |-> 0, arrived1 |-> 0, arrived2 |-> 0, i |-> 0, buffer |-> 0,
             elkuldott |-> <<>>, olvasott |-> <<>>]

\* A missing argument, which crashes atoi, is not modelled.
Init ==
  /\ pc = [p \in Processes |-> IF p = "main" THEN "fork1" ELSE "off"]
  /\ pending = FALSE /\ ready = 0 /\ reaped = {}
  /\ pipe = [d \in Pipes |-> <<>>]
  /\ \E n \in Counts : mem = [NoLocals EXCEPT !["console_num"] = n]

\* The number is read and passed on, then as many random numbers.
child_1 ==
  \/ Read("child_1", "start", "write", "io_pipes_out", "arrived1")
  \/ Write("child_1", "write", "while", "child_communication_out", mem["arrived1"])
  \/ /\ mem["i"] < mem["arrived1"]
     /\ \E n \in Numbers :
          /\ Step("child_1", "while", "while")
          /\ Len(pipe["child_communication_out"]) < PipeCapacity
          /\ pipe' = [pipe EXCEPT !["child_communication_out"] = Append(@, n)]
          /\ mem' = [mem EXCEPT !["i"] = @ + 1, !["elkuldott"] = Append(@, n)]
     /\ UNCHANGED <<pending, ready, reaped>>
  \/ mem["i"] >= mem["arrived1"] /\ Jump("child_1", "while", "exited")

\* The number, then as many random numbers; Len(olvasott) is its i.
child_2 ==
  \/ Read("child_2", "start", "while", "child_communication_out", "arrived2")
  \/ /\ Len(mem["olvasott"]) < mem["arrived2"]
     /\ Read("child_2", "while", "printf", "child_communication_out", "buffer")
  \/ Assign("child_2", "printf", "while", "olvasott", Append(mem["olvasott"], mem["buffer"]))
  \/ Len(mem["olvasott"]) >= mem["arrived2"] /\ Jump("child_2", "while", "exited")

Main ==
  \/ Fork("child_1", "fork1", "fork2")
  \/ Fork("child_2", "fork2", "write")
  \/ Write("main", "write", "wait", "io_pipes_out", mem["console_num"])
  \/ Wait(Children, "wait", "done")

Next == Main \/ child_1 \/ child_2

Spec == Init /\ [][Next]_zhVars

-----------------------------------------------------------------------------
(* Properties *)

TypeOK ==
  /\ DOMAIN pc = Processes /\ reaped \subseteq Children
  /\ \A d \in Pipes : Len(pipe[d]) \in 0..PipeCapacity
  /\ mem["arrived1"] \in Counts \cup {0} /\ mem["buffer"] \in Numbers \cup {0}

\* child_2 prints the numbers child_1 has sent, in their order, as many as
\* were asked for, and leaves none in the pipe.
InOrder ==
  /\ IsPrefix(mem["olvasott"], mem["elkuldott"])
  /\ pc["child_2"] = "exited" =>
       /\ mem["arrived2"] = mem["console_num"]
       /\ mem["olvasott"] = mem["elkuldott"] /\ pipe["child_communication_out"] = <<>>
=============================================================================
