------------------------------- MODULE ZhIpc --------------------------------
(***************************************************************************)
(* Programs that also use System V IPC: one message queue, one semaphore,  *)
(* one shared memory segment, all with keys made from the program's own    *)
(* path.  So a run finds what an earlier one left: a shared memory that is  *)
(* never removed, or the messages of an interrupted run.                     *)
(***************************************************************************)
EXTENDS Zh

CONSTANT MaxRuns    \* bound on the runs of the program

ASSUME MaxRunsAssumption == MaxRuns \in Nat \ {0}

VARIABLES
  sem,      \* the value of the semaphore
  queue,    \* the messages, in the order they were sent
  shm,      \* the fields of the shared memory
  exists,   \* which of "sem" and "queue" exist in the system
  run       \* the number of runs so far

ipc == <<sem, queue, shm, exists, run>>
vars == <<zhVars, ipc>>

\* A slip: the semaphore is created with one unit too many.
semaphoreCreationOneMore(value) == value + 1

\* semget and SETVAL: the semaphore gets its value also when it exists already.
semaphoreCreation(value) == value

-----------------------------------------------------------------------------
(* The life of a run *)

\* The program is started again when nothing of the last run is left running:
\* msgget, shmget, shmat, the creation of the semaphore and the pipes.
Start(processes, pipes, locals, value) ==
  /\ \A p \in processes : ~Alive(p)
  /\ run < MaxRuns
  /\ run' = run + 1
  /\ pc' = [p \in processes |-> IF p = "main" THEN "fork1" ELSE "off"]
  /\ pending' = FALSE /\ ready' = 0 /\ reaped' = {}
  /\ pipe' = [d \in pipes |-> <<>>]
  /\ mem' = locals
  /\ sem' = value
  /\ exists' = exists \cup {"sem", "queue"}
  /\ UNCHANGED <<queue, shm>>

\* Ctrl-C: the terminal sends SIGINT to all processes of the program.  What
\* the main process left behind when a fork failed ends here as well.
Interrupt(processes) ==
  /\ \E p \in processes : Alive(p)
  /\ run < MaxRuns
  /\ pc' = [p \in processes |-> "off"]
  /\ UNCHANGED <<pending, ready, reaped, pipe, mem, ipc>>

IpcInit(processes, pipes, locals, fields) ==
  /\ pc = [p \in processes |-> "off"]
  /\ pending = FALSE /\ ready = 0 /\ reaped = {}
  /\ pipe = [d \in pipes |-> <<>>]
  /\ mem = locals
  /\ sem = 0 /\ queue = <<>> /\ shm = fields
  /\ exists = {} /\ run = 0

-----------------------------------------------------------------------------
(* The semaphore and the memory it protects *)

\* A slip: the release of the semaphore gets lost.
SemOpNoPost(p, from, to, op) ==
  /\ Step(p, from, to)
  /\ sem + op >= 0 /\ sem' = IF op < 0 THEN sem + op ELSE sem
  /\ UNCHANGED <<pending, ready, reaped, pipe, mem, queue, shm, exists, run>>

\* semaphoreOperation: blocks until the value allows it.  On a semaphore that
\* was removed semop fails at once; the process prints that and goes on.
SemOp(p, from, to, op) ==
  /\ Step(p, from, to)
  /\ IF "sem" \in exists THEN sem + op >= 0 /\ sem' = sem + op ELSE UNCHANGED sem
  /\ UNCHANGED <<pending, ready, reaped, pipe, mem, queue, shm, exists, run>>

StoreShm(p, from, to, field, v) ==
  /\ Step(p, from, to)
  /\ shm' = [shm EXCEPT ![field] = v]
  /\ UNCHANGED <<pending, ready, reaped, pipe, mem, sem, queue, exists, run>>

LoadShm(p, from, to, field, x) ==
  /\ Step(p, from, to)
  /\ mem' = [mem EXCEPT ![x] = shm[field]]
  /\ UNCHANGED <<pending, ready, reaped, pipe, ipc>>

\* semaphoreDelete
RemoveSem(from, to) ==
  /\ Step("main", from, to)
  /\ exists' = exists \ {"sem"}
  /\ UNCHANGED <<pending, ready, reaped, pipe, mem, sem, queue, shm, run>>

\* shmctl(IPC_RMID) and return 0: the next run gets a new segment.
RemoveShm(from, fields) ==
  /\ Step("main", from, "done")
  /\ shm' = fields
  /\ UNCHANGED <<pending, ready, reaped, pipe, mem, sem, queue, exists, run>>

-----------------------------------------------------------------------------
(* The message queue *)

\* A message, with who sent it and in which run
Message(p, type, v) == [from |-> p, run |-> run, type |-> type, text |-> v]
NoMessage == [from |-> "nobody", run |-> 0, type |-> 0, text |-> "unset"]

\* msgsnd; it fails when the queue was removed.
MsgSnd(p, from, to, type, v) ==
  /\ Step(p, from, to)
  /\ queue' = IF "queue" \in exists THEN Append(queue, Message(p, type, v)) ELSE queue
  /\ UNCHANGED <<pending, ready, reaped, pipe, mem, sem, shm, exists, run>>

\* A slip: type 0, that is the oldest message of any type.
MsgRcvAny(p, from, to, type, x) ==
  /\ Step(p, from, to)
  /\ queue # <<>>
  /\ mem' = [mem EXCEPT ![x] = Head(queue)]
  /\ queue' = Tail(queue)
  /\ UNCHANGED <<pending, ready, reaped, pipe, sem, shm, exists, run>>

\* msgrcv: the oldest message of that type, whoever sent it; like msgsnd it
\* fails when the queue was removed.
MsgRcv(p, from, to, type, x) ==
  /\ Step(p, from, to)
  /\ IF "queue" \in exists
       THEN \E k \in DOMAIN queue :
              /\ queue[k].type = type /\ \A l \in 1..(k - 1) : queue[l].type # type
              /\ mem' = [mem EXCEPT ![x] = queue[k]]
              /\ queue' = SubSeq(queue, 1, k - 1) \o SubSeq(queue, k + 1, Len(queue))
       ELSE UNCHANGED <<mem, queue>>
  /\ UNCHANGED <<pending, ready, reaped, pipe, sem, shm, exists, run>>

\* msgctl(IPC_RMID) and return 0
RemoveQueue(from) ==
  /\ Step("main", from, "done")
  /\ exists' = exists \ {"queue"}
  /\ queue' = <<>>
  /\ UNCHANGED <<pending, ready, reaped, pipe, mem, sem, shm, run>>
=============================================================================
