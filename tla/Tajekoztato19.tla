--------------------------- MODULE Tajekoztato19 ----------------------------
(***************************************************************************)
(* ZH Gyak/Tajekoztato/19.Csoport/tajekoztato1.c: the press conference of   *)
(* the other group.  There is no new data; the shared memory and the        *)
(* semaphore are created and neither used nor removed.                      *)
(***************************************************************************)
EXTENDS ZhIpc

Children == {"policeOfficer", "chiefMedicalOfficer"}
Processes == Children \cup {"main"}
Pipes == {"io_pipes", "io_pipes1"}

Locals == {"question", "puffer", "ms"}
NoLocals == [x \in Locals |-> IF x = "ms" THEN NoMessage ELSE "unset"]

Init == IpcInit(Processes, Pipes, NoLocals, [f \in {"text"} |-> "zero"])

policeOfficer ==
  /\ \/ Kill("policeOfficer", "start", "read")
     \/ Read("policeOfficer", "read", "write", "io_pipes1", "question")
     \/ Write("policeOfficer", "write", "exited", "io_pipes", "Igen")
  /\ UNCHANGED ipc

chiefMedicalOfficer ==
  \/ Kill("chiefMedicalOfficer", "start", "msgsnd") /\ UNCHANGED ipc
  \/ MsgSnd("chiefMedicalOfficer", "msgsnd", "exited", 5, "A maszk fontos")

\* The forks, the signals, question and answer, the comment
Main ==
  \/ /\ \/ Fork("policeOfficer", "fork1", "fork2")
        \/ Fork("chiefMedicalOfficer", "fork2", "ready1")
        \/ AwaitReady(1, "ready1", "ready2")
        \/ AwaitReady(2, "ready2", "write")
        \/ Write("main", "write", "read", "io_pipes1", "Maszk?")
        \/ Read("main", "read", "msgrcv", "io_pipes", "puffer")
        \/ Wait(Children, "wait", "msgctl")
     /\ UNCHANGED ipc
  \/ MsgRcv("main", "msgrcv", "wait", 5, "ms")
  \/ RemoveQueue("msgctl")

Next ==
  \/ Start(Processes, Pipes, NoLocals, semaphoreCreation(1))
  \/ Interrupt(Processes)
  \/ Main \/ policeOfficer \/ chiefMedicalOfficer
  \/ (Deliver /\ UNCHANGED ipc)

Spec == Init /\ [][Next]_vars

-----------------------------------------------------------------------------
(* Properties *)

TypeOK ==
  /\ DOMAIN pc = Processes
  /\ pending \in BOOLEAN /\ ready \in 0..2 /\ reaped \subseteq Children
  /\ \A d \in Pipes : Len(pipe[d]) \in 0..PipeCapacity
  /\ sem \in 0..1 /\ exists \subseteq {"sem", "queue"} /\ run \in 0..MaxRuns
  /\ mem["puffer"] \in {"unset", "Igen"} /\ mem["question"] \in {"unset", "Maszk?"}

\* Main waits for one of its children, and still the medical officer sends
\* its comment before the queue is removed, unless main has taken the comment
\* of an interrupted run.
NoUseAfterRemoval ==
  pc["chiefMedicalOfficer"] \in {"start", "msgsnd"} /\ "queue" \notin exists
    => mem["ms"].run < run

\* The police officer has been asked before it answers, and it has spoken
\* before the comment of the medical officer is taken from the queue.
InOrder ==
  /\ mem["puffer"] = "Igen" => mem["question"] = "Maszk?"
  /\ mem["ms"].from # "nobody" => mem["puffer"] = "Igen"

\* The one way the conference stops short: the two signals are merged.
Stuck == SignalLost(Children, 2)
=============================================================================
