------------------------------ MODULE Szemafor ------------------------------
(***************************************************************************)
(* 7. Gyak/szemafor.c: the parent writes a text into shared memory and      *)
(* raises a semaphore that starts at 0; the child waits for it and prints   *)
(* the text.  Anyag/gy6/pos_szemafor.c (Named = TRUE) is the same with a    *)
(* POSIX semaphore, whose name and value outlive an interrupted run.        *)
(***************************************************************************)
EXTENDS ZhIpc

CONSTANT Named

Processes == {"child", "main"}

NoLocals == [x \in {"eredmeny"} |-> "unset"]
NoText == [f \in {"s"} |-> "zero"]

Init == IpcInit(Processes, {}, NoLocals, NoText)

\* sem_open(O_CREAT) gives the value to a new semaphore only.
szemafor_letrehozas == IF Named /\ "sem" \in exists THEN sem ELSE semaphoreCreation(0)

child ==
  \/ SemOp("child", "start", "print", -1)
  \/ LoadShm("child", "print", "up", "s", "eredmeny")
  \/ SemOp("child", "up", "exited", 1)

Main ==
  \/ Fork("child", "fork1", "strcpy") /\ UNCHANGED ipc
  \/ StoreShm("main", "strcpy", "up", "s", "I like Illes")
  \/ SemOp("main", "up", "wait", 1)
  \/ Wait({"child"}, "wait", "szemafor_torles") /\ UNCHANGED ipc
  \/ RemoveSem("szemafor_torles", "shmctl")
  \/ RemoveShm("shmctl", NoText)

Next ==
  \/ Start(Processes, {}, NoLocals, szemafor_letrehozas)
  \/ Interrupt(Processes)
  \/ Main \/ child

Spec == Init /\ [][Next]_vars

-----------------------------------------------------------------------------
(* Properties *)

\* A named semaphore gains one with every interrupted run.
TypeOK ==
  /\ DOMAIN pc = Processes /\ run \in 0..MaxRuns
  /\ sem \in 0..(IF Named THEN MaxRuns ELSE 1) /\ exists \subseteq {"sem", "queue"}
  /\ shm["s"] \in {"zero", "I like Illes"}

\* The child prints the parent's text and never an empty memory, although a
\* named semaphore may be up from an interrupted run: then the memory holds
\* the text as well, because it is removed after the semaphore.
ReadsTheText ==
  /\ mem["eredmeny"] \in {"unset", "I like Illes"}
  /\ pc["child"] = "exited" => mem["eredmeny"] = "I like Illes"

\* The child does not use semaphore and memory after their removal.
NoUseAfterRemoval ==
  pc["child"] \in {"start", "print", "up"} => "sem" \in exists
=============================================================================
