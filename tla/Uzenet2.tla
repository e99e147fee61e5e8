------------------------------ MODULE Uzenet2 -------------------------------
(***************************************************************************)
(* 6. Gyak/uzenet2.c (uzenet3.c sends numbers instead of a text): parent   *)
(* and child send each other one message over one queue, with type 5 to     *)
(* the child and type 4 to the parent.                                      *)
(***************************************************************************)
EXTENDS ZhIpc

Processes == {"gyerek", "main"}

NoLocals == [x \in {"fromChild", "fromParent"} |-> NoMessage]

Init == IpcInit(Processes, {}, NoLocals, <<>>)

szulo ==
  \/ MsgSnd("main", "msgsnd", "msgrcv", 5, "Hajra Fradi!")
  \/ MsgRcv("main", "msgrcv", "wait", 4, "fromChild")

gyerek ==
  \/ MsgSnd("gyerek", "start", "msgrcv", 4, "asdasd")
  \/ MsgRcv("gyerek", "msgrcv", "exited", 5, "fromParent")

Main ==
  \/ Fork("gyerek", "fork1", "msgsnd") /\ UNCHANGED ipc
  \/ szulo
  \/ Wait({"gyerek"}, "wait", "msgctl") /\ UNCHANGED ipc
  \/ RemoveQueue("msgctl")

Next ==
  \/ Start(Processes, {}, NoLocals, 0)
  \/ Interrupt(Processes)
  \/ Main \/ gyerek

Spec == Init /\ [][Next]_vars

-----------------------------------------------------------------------------
(* Properties *)

TypeOK ==
  /\ DOMAIN pc = Processes /\ DOMAIN mem = {"fromChild", "fromParent"}
  /\ exists \subseteq {"sem", "queue"} /\ run \in 0..MaxRuns
  /\ \A k \in DOMAIN queue : queue[k].type \in {4, 5}

\* Each receives what the other one has sent, in this run or an interrupted
\* one, and never its own message; what is left of interrupted runs does not
\* keep anybody waiting.
FromTheOther ==
  /\ mem["fromChild"].from \in {"nobody", "gyerek"}
  /\ mem["fromParent"].from \in {"nobody", "main"}

\* Nobody uses the queue after it was removed.
NoUseAfterRemoval == pc["gyerek"] \in {"start", "msgrcv"} => "queue" \in exists
=============================================================================
