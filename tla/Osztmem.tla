------------------------------- MODULE Osztmem ------------------------------
(***************************************************************************)
(* 6. Gyak/osztmem.c (osztmem_first.c with the fork in a function): the      *)
(* parent writes a text into shared memory and removes it when the child    *)
(* has ended; only sleep(1) makes the child read later than the parent writes. *)
(***************************************************************************)
EXTENDS ZhIpc

Processes == {"child1", "main"}

NoLocals == [x \in {"eredmeny"} |-> "unset"]
NoText == [f \in {"s"} |-> "zero"]

Init == IpcInit(Processes, {}, NoLocals, NoText)

child1 == LoadShm("child1", "start", "exited", "s", "eredmeny")

\* strcpy() may be seen when half of it is done.
Main ==
  \/ Fork("child1", "fork1", "strcpy") /\ UNCHANGED ipc
  \/ StoreShm("main", "strcpy", "strcpy end", "s", "a part")
  \/ StoreShm("main", "strcpy end", "wait", "s", "Hajra Fradi!")
  \/ Wait({"child1"}, "wait", "shmctl") /\ UNCHANGED ipc
  \/ RemoveShm("shmctl", NoText)

Next ==
  \/ Start(Processes, {}, NoLocals, 0)
  \/ Interrupt(Processes)
  \/ Main \/ child1

Spec == Init /\ [][Next]_vars

-----------------------------------------------------------------------------
(* Properties *)

TypeOK ==
  /\ DOMAIN pc = Processes /\ run \in 0..MaxRuns
  /\ \A x \in {shm["s"], mem["eredmeny"]} : x \in {"zero", "a part", "Hajra Fradi!", "unset"}

\* The memory is there until the child has read it, and a run that got to its
\* end leaves no text for the next one.
NoUseAfterRemoval ==
  /\ pc["child1"] = "start" => pc["main"] # "done"
  /\ pc["main"] = "done" => shm = NoText /\ mem["eredmeny"] # "unset"
=============================================================================
