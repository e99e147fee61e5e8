------------------------------- MODULE Teams --------------------------------
(***************************************************************************)
(* ZH Gyak/Teams/teams.c: a teacher and a student meet through Teams       *)
(* (main).  The student greets over the message queue, the teacher asks a  *)
(* question that Teams passes on over two pipes, the student writes its    *)
(* answer into shared memory and the teacher reads it there after sleep(2). *)
(* Without clocks sleep() promises nothing about the other process.         *)
(***************************************************************************)
EXTENDS ZhIpc

Children == {"teacher", "student"}
Processes == Children \cup {"main"}
Pipes == {"io_pipes", "io_pipes2"}    \* io_pipes1 and io_pipes3 are never used

Locals == {"ms", "puffer", "question", "text"}
NoLocals == [x \in Locals |-> IF x = "ms" THEN NoMessage ELSE "unset"]

Init == IpcInit(Processes, Pipes, NoLocals, [f \in {"text"} |-> "zero"])

\* A slip: the student answers before it has read the question.
studentHasty ==
  \/ /\ Kill("student", "start", "msgsnd")
     /\ UNCHANGED ipc
  \/ MsgSnd("student", "msgsnd", "lock", 5, "Jo napot.")
  \/ SemOp("student", "lock", "store", -1)
  \/ StoreShm("student", "store", "unlock", "text", "CFS")
  \/ SemOp("student", "unlock", "read", 1)
  \/ /\ Read("student", "read", "exited", "io_pipes2", "question")
     /\ UNCHANGED ipc

student ==
  \/ /\ \/ Kill("student", "start", "msgsnd")
        \/ Read("student", "read", "lock", "io_pipes2", "question")
     /\ UNCHANGED ipc
  \/ MsgSnd("student", "msgsnd", "read", 5, "Jo napot.")
  \/ SemOp("student", "lock", "store", -1)
  \/ StoreShm("student", "store", "unlock", "text", "CFS")
  \/ SemOp("student", "unlock", "exited", 1)

teacher ==
  \/ /\ \/ Kill("teacher", "start", "msgrcv")
        \/ Write("teacher", "write", "lock", "io_pipes", "Melyik?")
     /\ UNCHANGED ipc
  \/ MsgRcv("teacher", "msgrcv", "write", 5, "ms")
  \/ SemOp("teacher", "lock", "load", -1)
  \/ LoadShm("teacher", "load", "unlock", "text", "text")
  \/ SemOp("teacher", "unlock", "exited", 1)

\* The forks, the signals, the question passed on, and the two waits
Main ==
  \/ /\ \/ Fork("teacher", "fork1", "fork2")
        \/ Fork("student", "fork2", "ready1")
        \/ AwaitReady(1, "ready1", "ready2")
        \/ AwaitReady(2, "ready2", "read")
        \/ Read("main", "read", "write", "io_pipes", "puffer")
        \/ Write("main", "write", "wait1", "io_pipes2", mem["puffer"])
        \/ Wait(Children, "wait1", "wait2")
        \/ Wait(Children, "wait2", "semaphoreDelete")
     /\ UNCHANGED ipc
  \/ RemoveSem("semaphoreDelete", "msgctl")
  \/ RemoveQueue("msgctl")

Next ==
  \/ Start(Processes, Pipes, NoLocals, semaphoreCreation(1))
  \/ Interrupt(Processes)
  \/ Main \/ teacher \/ student
  \/ (Deliver /\ UNCHANGED ipc)

Spec == Init /\ [][Next]_vars

-----------------------------------------------------------------------------
(* Properties *)

TypeOK ==
  /\ DOMAIN pc = Processes
  /\ pending \in BOOLEAN /\ ready \in 0..2 /\ reaped \subseteq Children
  /\ \A d \in Pipes : Len(pipe[d]) \in 0..PipeCapacity
  /\ sem \in 0..1 /\ exists \subseteq {"sem", "queue"} /\ run \in 0..MaxRuns
  /\ shm["text"] \in {"zero", "CFS"} /\ mem["text"] \in {"unset", "zero", "CFS"}
  /\ mem["puffer"] \in {"unset", "Melyik?"} /\ mem["question"] \in {"unset", "Melyik?"}

\* The answer is not read while it is being written.
Exclusion == ~(pc["teacher"] = "load" /\ pc["student"] = "store")

\* The meeting is over only when teacher and student have left: Teams removes
\* the semaphore and the queue when no child can use them any more.
NoUseAfterRemoval ==
  pc["main"] \in {"semaphoreDelete", "msgctl", "done"} => \A c \in Children : pc[c] = "exited"

\* An answer written in this run answers a question the teacher has asked in
\* this run and Teams has passed on.
InOrder ==
  pc["student"] \in {"store", "unlock", "exited"}
    => /\ pc["teacher"] \in {"lock", "load", "unlock", "exited"}
       /\ pc["main"] \notin {"fork1", "fork2", "ready1", "ready2", "read", "write"}
       /\ mem["question"] = "Melyik?"

\* The one way the meeting stops short: the two signals are merged into one.
Stuck == SignalLost(Children, 2)

(***************************************************************************)
(* What a message of the source says                                       *)
(***************************************************************************)

\* "Student - join teams meeting!", line 190: once both have signalled Teams
\* gets past the loop in front of this line.
BothJoin ==
  (pc["main"] = "ready1" /\ \A c \in Children : pc[c] # "start")
     ~> (pc["main"] \notin {"ready1", "ready2"})
=============================================================================
