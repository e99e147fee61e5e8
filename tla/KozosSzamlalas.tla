--------------------------- MODULE KozosSzamlalas ---------------------------
(***************************************************************************)
(* Gyakorlas/kozos_szamlalas.c: parent and child count to three together.   *)
(* The parent says a number and sends a sign, the child reads a sign and    *)
(* says its number.                                                          *)
(***************************************************************************)
EXTENDS Zh

Processes == {"child", "main"}

\* szamlalo of the child, mainszamlalo of the parent
NoLocals == [szamlalo |-> 1, mainszamlalo |-> 1, sign |-> "unset"]

Init ==
  /\ pc = [p \in Processes |-> IF p = "main" THEN "fork1" ELSE "off"]
  /\ pending = FALSE /\ ready = 0 /\ reaped = {}
  /\ pipe = [d \in {"io_pipes1"} |-> <<>>]
  /\ mem = NoLocals

\* while (szamlalo < 4) { read; printf; szamlalo++; }
child ==
  \/ mem["szamlalo"] < 4 /\ Read("child", "start", "printf", "io_pipes1", "sign")
  \/ Assign("child", "printf", "start", "szamlalo", mem["szamlalo"] + 1)
  \/ mem["szamlalo"] = 4 /\ Jump("child", "start", "exited")

\* while (mainszamlalo < 4) { printf; write; mainszamlalo++; }
Main ==
  \/ Fork("child", "fork1", "while")
  \/ mem["mainszamlalo"] < 4 /\ Write("main", "while", "++", "io_pipes1", "counting")
  \/ Assign("main", "++", "while", "mainszamlalo", mem["mainszamlalo"] + 1)
  \/ mem["mainszamlalo"] = 4 /\ Jump("main", "while", "wait")
  \/ Wait({"child"}, "wait", "done")

Next == Main \/ child

Spec == Init /\ [][Next]_zhVars

-----------------------------------------------------------------------------
(* Properties *)

TypeOK ==
  /\ DOMAIN pc = Processes /\ reaped \subseteq {"child"}
  /\ Len(pipe["io_pipes1"]) \in 0..PipeCapacity
  /\ mem["szamlalo"] \in 1..4 /\ mem["mainszamlalo"] \in 1..4

\* The child says a number after the parent has said it, and both get to
\* three: no sign is left over.
InOrder ==
  /\ mem["szamlalo"] <= mem["mainszamlalo"] + (IF pc["main"] = "++" THEN 1 ELSE 0)
  /\ pc["main"] = "done" => mem["szamlalo"] = 4 /\ pipe["io_pipes1"] = <<>>
=============================================================================
