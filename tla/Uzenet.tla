------------------------------- MODULE Uzenet -------------------------------
(***************************************************************************)
(* 6. Gyak/uzenet.c: the parent sends the child one message, waits for it   *)
(* and removes the queue.                                                     *)
(***************************************************************************)
EXTENDS ZhIpc

Processes == {"gyerek", "main"}

NoLocals == [x \in {"uz"} |-> NoMessage]

Init == IpcInit(Processes, {}, NoLocals, <<>>)

szulo == MsgSnd("main", "szulo", "wait", 5, "Hajra Fradi!")

gyerek == MsgRcv("gyerek", "start", "exited", 5, "uz")

Main ==
  \/ Fork("gyerek", "fork1", "szulo") /\ UNCHANGED ipc
  \/ szulo
  \/ Wait({"gyerek"}, "wait", "msgctl") /\ UNCHANGED ipc
  \/ RemoveQueue("msgctl")

Next ==
  \/ Start(Processes, {}, NoLocals, 0)
  \/ Interrupt(Processes)
  \/ Main \/ gyerek

Spec == Init /\ [][Next]_vars

-----------------------------------------------------------------------------
(* Properties *)

TypeOK ==
  /\ DOMAIN pc = Processes /\ DOMAIN mem = {"uz"}
  /\ exists \subseteq {"sem", "queue"} /\ run \in 0..MaxRuns
  /\ Len(queue) <= MaxRuns

\* The child has received a message when it ends, of this parent or of one that
\* was interrupted, and has not met a queue that was removed already.
FromTheParent == pc["gyerek"] = "exited" => mem["uz"].from = "main"

\* The queue is there until the child has its message.
NoUseAfterRemoval == pc["gyerek"] = "start" => "queue" \in exists
=============================================================================
