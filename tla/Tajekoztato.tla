---------------------------- MODULE Tajekoztato -----------------------------
(***************************************************************************)
(* ZH Gyak/Tajekoztato/20.Csoport/tajekoztato1.c: a press conference.  The *)
(* communication officer (main) asks the police officer over pipes, gets a *)
(* comment of the chief medical officer over the message queue, and prints *)
(* the new data the medical officer writes into shared memory.  Main waits *)
(* for one of its two children only.                                        *)
(***************************************************************************)
EXTENDS ZhIpc

Children == {"policeOfficer", "chiefMedicalOfficer"}
Processes == Children \cup {"main"}
Pipes == {"io_pipes", "io_pipes1"}

Locals == {"question", "puffer", "ms", "printed"}
NoLocals == [x \in Locals |-> IF x = "ms" THEN NoMessage ELSE "unset"]

Init == IpcInit(Processes, Pipes, NoLocals, [f \in {"text"} |-> "zero"])

policeOfficer ==
  /\ \/ Kill("policeOfficer", "start", "read")
     \/ Read("policeOfficer", "read", "write", "io_pipes1", "question")
     \/ Write("policeOfficer", "write", "exited", "io_pipes", "Igen")
  /\ UNCHANGED ipc

\* A slip: the medical officer forgets the new data.
chiefMedicalOfficerSilent ==
  \/ /\ Kill("chiefMedicalOfficer", "start", "msgsnd")
     /\ UNCHANGED ipc
  \/ MsgSnd("chiefMedicalOfficer", "msgsnd", "lock", 5, "A maszk fontos")
  \/ SemOp("chiefMedicalOfficer", "lock", "unlock", -1)
  \/ SemOp("chiefMedicalOfficer", "unlock", "exited", 1)

chiefMedicalOfficer ==
  \/ /\ Kill("chiefMedicalOfficer", "start", "msgsnd")
     /\ UNCHANGED ipc
  \/ MsgSnd("chiefMedicalOfficer", "msgsnd", "lock", 5, "A maszk fontos")
  \/ SemOp("chiefMedicalOfficer", "lock", "store", -1)
  \/ StoreShm("chiefMedicalOfficer", "store", "unlock", "text", "238")
  \/ SemOp("chiefMedicalOfficer", "unlock", "exited", 1)

\* The forks, the signals, question and answer, the comment, and the data
Main ==
  \/ /\ \/ Fork("policeOfficer", "fork1", "fork2")
        \/ Fork("chiefMedicalOfficer", "fork2", "ready1")
        \/ AwaitReady(1, "ready1", "ready2")
        \/ AwaitReady(2, "ready2", "write")
        \/ Write("main", "write", "read", "io_pipes1", "Maszk?")
        \/ Read("main", "read", "msgrcv", "io_pipes", "puffer")
        \/ Wait(Children, "wait", "semaphoreDelete")
     /\ UNCHANGED ipc
  \/ MsgRcv("main", "msgrcv", "lock", 5, "ms")
  \/ SemOp("main", "lock", "print", -1)
  \/ LoadShm("main", "print", "unlock", "text", "printed")
  \/ SemOp("main", "unlock", "wait", 1)
  \/ RemoveSem("semaphoreDelete", "msgctl")
  \/ RemoveQueue("msgctl")

Next ==
  \/ Start(Processes, Pipes, NoLocals, semaphoreCreation(1))
  \/ Interrupt(Processes)
  \/ Main \/ policeOfficer \/ chiefMedicalOfficer
  \/ (Deliver /\ UNCHANGED ipc)

Spec == Init /\ [][Next]_vars

-----------------------------------------------------------------------------
(* Properties *)

TypeOK ==
  /\ DOMAIN pc = Processes
  /\ pending \in BOOLEAN /\ ready \in 0..2 /\ reaped \subseteq Children
  /\ \A d \in Pipes : Len(pipe[d]) \in 0..PipeCapacity
  /\ sem \in 0..1 /\ exists \subseteq {"sem", "queue"} /\ run \in 0..MaxRuns
  /\ shm["text"] \in {"zero", "238"} /\ mem["printed"] \in {"unset", "zero", "238"}
  /\ mem["puffer"] \in {"unset", "Igen"} /\ mem["question"] \in {"unset", "Maszk?"}

\* The data is not read while it is being written, also when main has removed
\* the semaphore before the medical officer got to it.
Exclusion == ~(pc["main"] = "print" /\ pc["chiefMedicalOfficer"] = "store")

\* The police officer has been asked before it answers, and it has spoken
\* before the comment of the medical officer is taken from the queue.
InOrder ==
  /\ mem["puffer"] = "Igen" => mem["question"] = "Maszk?"
  /\ mem["ms"].from # "nobody" => mem["puffer"] = "Igen"

\* In the end the data is in the shared memory, although the medical officer
\* may find the semaphore gone.
KeptAtTheEnd ==
  pc["main"] = "done" /\ pc["chiefMedicalOfficer"] = "exited" => shm["text"] = "238"

\* The one way the conference stops short: the two signals are merged.
Stuck == SignalLost(Children, 2)
=============================================================================
