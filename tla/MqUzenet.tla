------------------------------ MODULE MqUzenet ------------------------------
(***************************************************************************)
(* 6. Gyak/mq_uzenet.c: the child sends a message to a POSIX queue, and the *)
(* parent, which has asked for a SIGUSR1 when a message comes to the empty  *)
(* queue, receives it after the signal.                                       *)
(***************************************************************************)
EXTENDS ZhIpc

Processes == {"child", "main"}

\* rcv_buf, and whether a notification is registered.  ready is code: the
\* handler has set it to SI_MESGQ.
NoLocals == [rcv_buf |-> NoMessage, notify |-> FALSE]

Init == IpcInit(Processes, {}, NoLocals, <<>>)

\* The first thing main does; mq_open() then makes an empty queue.
mq_unlink ==
  /\ Step("main", "fork1", "mq_notify")
  /\ queue' = <<>>
  /\ UNCHANGED <<pending, ready, reaped, pipe, mem, sem, shm, exists, run>>

mq_notify == Assign("main", "mq_notify", "fork", "notify", TRUE)

\* mq_send(): a message to an empty queue uses the notification up.
mq_send ==
  /\ Step("child", "start", "exited")
  /\ queue' = Append(queue, Message("child", 30, "Hajra Vasas!"))
  /\ LET notified == mem["notify"] /\ queue = <<>>
     IN  /\ pending' = (pending \/ notified)
         /\ mem' = [mem EXCEPT !["notify"] = @ /\ ~notified]
  /\ UNCHANGED <<ready, reaped, pipe, sem, shm, exists, run>>

\* waitpid() on a pid nobody has set: it waits for the child if that happens
\* to be 0 or -1, and the signal interrupts it (no SA_RESTART); otherwise it
\* fails at once.
waitpid == Wait({"child"}, "waitpid", "code") \/ Jump("main", "waitpid", "code")

Main ==
  \/ mq_unlink
  \/ /\ \/ mq_notify
        \/ Fork("child", "fork", "waitpid")
        \/ waitpid
        \/ AwaitReady(1, "code", "mq_receive")
     /\ UNCHANGED ipc
  \/ MsgRcv("main", "mq_receive", "mq_unlink", 30, "rcv_buf")
  \/ RemoveQueue("mq_unlink")

Next ==
  \/ Start(Processes, {}, NoLocals, 0)
  \/ Interrupt(Processes)
  \/ Main \/ mq_send
  \/ (Deliver /\ UNCHANGED ipc)

Spec == Init /\ [][Next]_vars

-----------------------------------------------------------------------------
(* Properties *)

TypeOK ==
  /\ DOMAIN pc = Processes /\ run \in 0..MaxRuns
  /\ pending \in BOOLEAN /\ ready \in 0..1 /\ Len(queue) <= 1
  /\ exists \subseteq {"sem", "queue"}

\* Whatever waitpid() does, what is received is the child's message of this
\* run, and it is in the queue when the wait for the signal is over.
FromTheChild ==
  /\ pc["main"] = "mq_receive" => queue # <<>>
  /\ pc["main"] \in {"mq_unlink", "done"} => mem["rcv_buf"].run = run

\* The name is removed after the child has opened the queue by it.
NoUseAfterRemoval == pc["child"] = "start" => "queue" \in exists
=============================================================================
