----------------------------- MODULE Szemafor2 ------------------------------
(***************************************************************************)
(* 7. Gyak/szemafor2.c: the parent puts the lines of the user into shared   *)
(* memory under a semaphore and prints the length the child has left there; *)
(* the child looks at the memory again and again and prints the line it     *)
(* finds.  "exit" ends both.                                                 *)
(***************************************************************************)
EXTENDS ZhIpc

CONSTANTS Lines, MaxLines    \* bound on the lines that are typed in a run

Processes == {"child", "main"}

\* typed: the number of lines of this run
NoLocals == [buffer |-> "unset", typed |-> 0, read |-> "unset", previous |-> "unset"]
Zero == [text |-> "zero", textSize |-> "zero"]

Init == IpcInit(Processes, {}, NoLocals, Zero)

\* The user types a line, or "exit", which is the last one.
fgets ==
  /\ \E line \in Lines \cup {"exit"} :
       /\ mem["typed"] < MaxLines \/ line = "exit"
       /\ mem' = [mem EXCEPT !["buffer"] = line, !["typed"] = @ + 1]
  /\ Step("main", "fgets", "down")
  /\ UNCHANGED <<pending, ready, reaped, pipe, ipc>>

\* while (running): a line, down, strcpy, the previous length, up
parent ==
  \/ fgets
  \/ SemOp("main", "down", "strcpy", -1)
  \/ StoreShm("main", "strcpy", "length", "text", mem["buffer"])
  \/ LoadShm("main", "length", "up", "textSize", "previous")
  \/ SemOp("main", "up", IF mem["buffer"] = "exit" THEN "wait" ELSE "fgets", 1)

\* while (running): down, print the text and look for "exit", its length, up
child ==
  \/ SemOp("child", "start", "print", -1)
  \/ LoadShm("child", "print", "strlen", "text", "read")
  \/ StoreShm("child", "strlen", "up", "textSize", shm["text"])
  \/ SemOp("child", "up", IF mem["read"] = "exit" THEN "exited" ELSE "start", 1)

Main ==
  \/ Fork("child", "fork1", "fgets") /\ UNCHANGED ipc
  \/ parent
  \/ Wait({"child"}, "wait", "szemafor_torles") /\ UNCHANGED ipc
  \/ RemoveSem("szemafor_torles", "shmctl")
  \/ RemoveShm("shmctl", Zero)

Next ==
  \/ Start(Processes, {}, NoLocals, semaphoreCreation(1))
  \/ Interrupt(Processes)
  \/ Main \/ child

Spec == Init /\ [][Next]_vars

-----------------------------------------------------------------------------
(* Properties *)

\* A length is known by the text it is the length of.
Texts == Lines \cup {"exit", "zero"}
TypeOK ==
  /\ DOMAIN pc = Processes /\ sem \in 0..1 /\ run \in 0..MaxRuns
  /\ exists \subseteq {"sem", "queue"}
  /\ shm["text"] \in Texts /\ shm["textSize"] \in Texts
  /\ mem["typed"] \in 0..(MaxLines + 1)

\* The line the child has printed and compared is the one it measures, and the
\* length the parent prints does not change before it leaves.
Exclusion ==
  /\ pc["child"] = "strlen" => shm["text"] = mem["read"]
  /\ pc["child"] = "up" => shm["textSize"] = mem["read"]
  /\ pc["main"] = "length" => shm["text"] = mem["buffer"]
  /\ pc["main"] = "up" => shm["textSize"] = mem["previous"]

\* The child takes part until "exit", and uses nothing that was removed.
NoUseAfterRemoval ==
  /\ pc["child"] \in {"start", "print", "strlen", "up"} => "sem" \in exists
  /\ pc["child"] = "exited" => mem["read"] = "exit"
=============================================================================
