----------------------------- MODULE Ejtoernyo ------------------------------
(***************************************************************************)
(* ZH Gyak/Ejtoernyo/ejtoernyo.c: a parachuting instructor (main) counts   *)
(* to three for a student over a pipe, they exchange a question and an     *)
(* answer over one message queue, with one message type in both directions, *)
(* and the student reads the points it gets from shared memory.            *)
(***************************************************************************)
EXTENDS ZhIpc

CONSTANT Points    \* rand() % 10

Processes == {"student", "main"}
Pipes == {"io_pipes"}    \* io_pipes1 is never used

Locals == {"sign", "ms", "msFromParent", "resultPoint", "printed"}
NoLocals == [x \in Locals \cup {"counter", "mainCounter"} |->
               CASE x \in {"ms", "msFromParent"} -> NoMessage
                 [] x \in {"counter", "mainCounter"} -> 1
                 [] OTHER -> "unset"]

Init == IpcInit(Processes, Pipes, NoLocals, [f \in {"point"} |-> "zero"])

\* The signal and while (counter < 4) { read; counter++; }
studentCount ==
  \/ /\ Kill("student", "start", "count")
     /\ UNCHANGED ipc
  \/ /\ mem["counter"] < 4
     /\ Read("student", "count", "counted", "io_pipes", "sign")
     /\ UNCHANGED ipc
  \/ /\ Assign("student", "counted", "count", "counter", mem["counter"] + 1)
     /\ UNCHANGED ipc
  \/ /\ mem["counter"] = 4
     /\ Jump("student", "count", "msgsnd")
     /\ UNCHANGED ipc

\* The question, the answer and the points
studentJump ==
  \/ MsgSnd("student", "msgsnd", "msgrcv", 5, "Mit csinaljak?")
  \/ MsgRcv("student", "msgrcv", "lock", 5, "msFromParent")
  \/ SemOp("student", "lock", "print", -1)
  \/ LoadShm("student", "print", "unlock", "point", "printed")
  \/ SemOp("student", "unlock", "exited", 1)

student == studentCount \/ studentJump

\* The fork, the wait for the signal, and while (mainCounter < 4) { write; ++ }
mainCount ==
  \/ /\ Fork("student", "fork1", "ready1")
     /\ UNCHANGED ipc
  \/ /\ AwaitReady(1, "ready1", "count")
     /\ UNCHANGED ipc
  \/ /\ mem["mainCounter"] < 4
     /\ Write("main", "count", "counted", "io_pipes", "counting")
     /\ UNCHANGED ipc
  \/ /\ Assign("main", "counted", "count", "mainCounter", mem["mainCounter"] + 1)
     /\ UNCHANGED ipc
  \/ /\ mem["mainCounter"] = 4
     /\ Jump("main", "count", "msgrcv")
     /\ UNCHANGED ipc

\* The question is answered and the points are written.
mainPoints ==
  \/ MsgRcv("main", "msgrcv", "msgsnd", 5, "ms")
  \/ MsgSnd("main", "msgsnd", "rand_point", 5, "Rantsd meg a zsinort!")
  \/ /\ \E p \in Points : Assign("main", "rand_point", "lock", "resultPoint", p)
     /\ UNCHANGED ipc
  \/ SemOp("main", "lock", "store", -1)
  \/ StoreShm("main", "store", "unlock", "point", mem["resultPoint"])
  \/ SemOp("main", "unlock", "wait", 1)

mainEnd ==
  \/ /\ Wait({"student"}, "wait", "semaphoreDelete")
     /\ UNCHANGED ipc
  \/ RemoveSem("semaphoreDelete", "msgctl")
  \/ RemoveQueue("msgctl")

Main == mainCount \/ mainPoints \/ mainEnd

Next ==
  \/ Start(Processes, Pipes, NoLocals, semaphoreCreation(1))
  \/ Interrupt(Processes)
  \/ Main \/ student
  \/ (Deliver /\ UNCHANGED ipc)

Spec == Init /\ [][Next]_vars

-----------------------------------------------------------------------------
(* Properties *)

TypeOK ==
  /\ DOMAIN pc = Processes
  /\ pending \in BOOLEAN /\ ready \in 0..1 /\ reaped \subseteq {"student"}
  /\ Len(pipe["io_pipes"]) \in 0..PipeCapacity
  /\ mem["counter"] \in 1..4 /\ mem["mainCounter"] \in 1..4
  /\ sem \in 0..1 /\ exists \subseteq {"sem", "queue"} /\ run \in 0..MaxRuns
  /\ shm["point"] \in Points \cup {"zero"}
  /\ \A m \in {mem["ms"], mem["msFromParent"]} : m.from \in Processes \cup {"nobody"}

\* The instructor's store and the student's load of the points exclude each other.
Exclusion == ~(pc["main"] = "store" /\ pc["student"] = "print")

\* The student repeats a number only after the instructor has said it.
NeverAhead ==
  Alive("main") =>
    mem["counter"] <= mem["mainCounter"] + (IF pc["main"] = "counted" THEN 1 ELSE 0)

\* Nobody uses the semaphore or the queue after the instructor removed them.
NoUseAfterRemoval ==
  pc["student"] \in {"msgsnd", "msgrcv", "lock", "print", "unlock"}
    => exists = {"sem", "queue"}

\* Instructor and student wait for each other's message for ever only when the
\* student has taken a message that a student sent.
Stuck ==
  /\ pc["main"] = "msgrcv" /\ pc["student"] = "exited" /\ queue = <<>>
  /\ mem["msFromParent"].from = "student"

(***************************************************************************)
(* What a message of the source says                                       *)
(***************************************************************************)

\* "A kapott uzenet az oktatotol" (the message received from the instructor),
\* line 120: the message the student prints comes from the instructor.
MessageFromInstructor == mem["msFromParent"].from \in {"nobody", "main"}
=============================================================================
