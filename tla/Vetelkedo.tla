----------------------------- MODULE Vetelkedo ------------------------------
(***************************************************************************)
(* ZH Gyak/Álarcos énekes/19.Csoport/vetelkedo.c (20.Csoport has the same  *)
(* program): a quiz host and two players.  Both get a question and answer  *)
(* it over pipes, the second one sends a guess about the first one's answer *)
(* over the message queue, and both put their answers into shared memory,   *)
(* from where the host prints them.                                         *)
(***************************************************************************)
EXTENDS ZhIpc

CONSTANT Answers    \* the numbers 1..5 a player may answer

Players == {"firstPlayer", "secPlayer"}
Processes == Players \cup {"main"}
Pipes == {"io_pipes", "io_pipes1", "io_pipes2", "io_pipes3"}

\* The local variables, by process: the players' own answers and the guess
\* (puffer) of the second one; what the host has read and judged.
Locals == {"question1", "answer1", "question2", "answer2", "puffer",
           "firstPlayerName", "secPlayerName", "goodAnswer", "firstAnswer", "secondAnswer",
           "ms", "verdict", "firstPrinted", "secPrinted"}
NoLocals == [x \in Locals |-> IF x = "ms" THEN NoMessage ELSE "unset"]

\* The shared memory is zero until a run has written to it.
Init == IpcInit(Processes, Pipes, NoLocals,
                [f \in {"firstPlayerAnswer", "secPlayerAnswer"} |-> "zero"])

\* evaluate: 'j' for the good answer, 'h' for another one
evaluate(answer, good) == IF answer = good THEN "j" ELSE "h"

\* A slip: the first player does not wait for the semaphore.
firstPlayerUnlocked ==
  \/ /\ \/ Kill("firstPlayer", "start", "name")
        \/ Write("firstPlayer", "name", "question", "io_pipes1", "a name")
        \/ Read("firstPlayer", "question", "think", "io_pipes", "question1")
        \/ \E a \in Answers : Assign("firstPlayer", "think", "answer", "answer1", a)
        \/ Write("firstPlayer", "answer", "store", "io_pipes1", mem["answer1"])
     /\ UNCHANGED ipc
  \/ StoreShm("firstPlayer", "store", "unlock", "firstPlayerAnswer", mem["answer1"])
  \/ SemOp("firstPlayer", "unlock", "exited", 1)

firstPlayer ==
  \/ /\ \/ Kill("firstPlayer", "start", "name")
        \/ Write("firstPlayer", "name", "question", "io_pipes1", "a name")
        \/ Read("firstPlayer", "question", "think", "io_pipes", "question1")
        \/ \E a \in Answers : Assign("firstPlayer", "think", "answer", "answer1", a)
        \/ Write("firstPlayer", "answer", "lock", "io_pipes1", mem["answer1"])
     /\ UNCHANGED ipc
  \/ SemOp("firstPlayer", "lock", "store", -1)
  \/ StoreShm("firstPlayer", "store", "unlock", "firstPlayerAnswer", mem["answer1"])
  \/ SemOp("firstPlayer", "unlock", "exited", 1)

secPlayer ==
  \/ /\ \/ Kill("secPlayer", "start", "name")
        \/ Write("secPlayer", "name", "question", "io_pipes3", "a name")
        \/ Read("secPlayer", "question", "think", "io_pipes2", "question2")
        \/ \E a \in Answers : Assign("secPlayer", "think", "answer", "answer2", a)
        \/ Write("secPlayer", "answer", "guess", "io_pipes3", mem["answer2"])
        \/ \E g \in {"h", "j"} : Assign("secPlayer", "guess", "msgsnd", "puffer", g)
     /\ UNCHANGED ipc
  \/ MsgSnd("secPlayer", "msgsnd", "lock", 5, mem["puffer"])
  \/ SemOp("secPlayer", "lock", "store", -1)
  \/ StoreShm("secPlayer", "store", "unlock", "secPlayerAnswer", mem["answer2"])
  \/ SemOp("secPlayer", "unlock", "exited", 1)

\* Both players are forked, and have signalled.
mainStart ==
  /\ \/ Fork("firstPlayer", "fork1", "fork2")
     \/ Fork("secPlayer", "fork2", "ready1")
     \/ AwaitReady(1, "ready1", "ready2")
     \/ AwaitReady(2, "ready2", "name1")
  /\ UNCHANGED ipc

\* A slip: the answers are read from the pipes in the wrong order.
mainRoundSwapped ==
  \/ /\ \/ Read("main", "name1", "name2", "io_pipes1", "firstPlayerName")
        \/ Read("main", "name2", "generate", "io_pipes3", "secPlayerName")
        \/ \E a \in Answers : Assign("main", "generate", "ask1", "goodAnswer", a)
        \/ Write("main", "ask1", "ask2", "io_pipes", "a question")
        \/ Write("main", "ask2", "answer1", "io_pipes2", "a question")
        \/ Read("main", "answer1", "answer2", "io_pipes3", "firstAnswer")
        \/ Read("main", "answer2", "msgrcv", "io_pipes1", "secondAnswer")
     /\ UNCHANGED ipc
  \/ MsgRcv("main", "msgrcv", "verdict", 5, "ms")

\* The names, the question to both players, their answers and the guess
mainRound ==
  \/ /\ \/ Read("main", "name1", "name2", "io_pipes1", "firstPlayerName")
        \/ Read("main", "name2", "generate", "io_pipes3", "secPlayerName")
        \/ \E a \in Answers : Assign("main", "generate", "ask1", "goodAnswer", a)
        \/ Write("main", "ask1", "ask2", "io_pipes", "a question")
        \/ Write("main", "ask2", "answer1", "io_pipes2", "a question")
        \/ Read("main", "answer1", "answer2", "io_pipes1", "firstAnswer")
        \/ Read("main", "answer2", "msgrcv", "io_pipes3", "secondAnswer")
     /\ UNCHANGED ipc
  \/ MsgRcv("main", "msgrcv", "verdict", 5, "ms")

\* strcmp(firstResult, guessValue) == 0
reward == IF evaluate(mem["firstAnswer"], mem["goodAnswer"]) = mem["ms"].text
            THEN "mikulas" ELSE "virgacs"

\* The verdict on the guess, what is printed from shared memory, and the end
mainEnd ==
  \/ /\ \/ Assign("main", "verdict", "lock", "verdict", reward)
        \/ Wait(Players, "wait", "semaphoreDelete")
     /\ UNCHANGED ipc
  \/ SemOp("main", "lock", "print1", -1)
  \/ LoadShm("main", "print1", "print2", "firstPlayerAnswer", "firstPrinted")
  \/ LoadShm("main", "print2", "unlock", "secPlayerAnswer", "secPrinted")
  \/ SemOp("main", "unlock", "wait", 1)
  \/ RemoveSem("semaphoreDelete", "msgctl")
  \/ RemoveQueue("msgctl")

Main == mainStart \/ mainRound \/ mainEnd

Next ==
  \/ Start(Processes, Pipes, NoLocals, semaphoreCreation(1))
  \/ Interrupt(Processes)
  \/ Main \/ firstPlayer \/ secPlayer
  \/ (Deliver /\ UNCHANGED ipc)

Spec == Init /\ [][Next]_vars

-----------------------------------------------------------------------------
(* Properties *)

TypeOK ==
  /\ DOMAIN pc = Processes
  /\ pending \in BOOLEAN /\ ready \in 0..2 /\ reaped \subseteq Players
  /\ \A d \in Pipes : Len(pipe[d]) \in 0..PipeCapacity
  /\ sem \in 0..1 /\ exists \subseteq {"sem", "queue"} /\ run \in 0..MaxRuns
  /\ \A f \in DOMAIN shm : shm[f] \in Answers \cup {"zero"}
  /\ \A x \in {"answer1", "answer2", "goodAnswer", "firstAnswer", "secondAnswer"} :
       mem[x] \in Answers \cup {"unset"}
  /\ \A x \in {"firstPlayerName", "secPlayerName"} : mem[x] \in {"a name", "unset"}

\* The stores and loads of the shared answers exclude each other, also when
\* main has removed the semaphore while a player still wants it.
InShm(p) == pc[p] \in {"store", "print1", "print2"}
Exclusion == \A p, q \in Processes : InShm(p) /\ InShm(q) => p = q

\* The host judges the answers the players gave, each as that player's, and
\* the reward for the guess depends on this run's guess and first answer,
\* unless the queue still held a guess of an interrupted run.
VerdictDeserved ==
  /\ mem["firstAnswer"] # "unset" => mem["firstAnswer"] = mem["answer1"]
  /\ mem["secondAnswer"] # "unset" => mem["secondAnswer"] = mem["answer2"]
  /\ mem["verdict"] # "unset" /\ mem["ms"].run = run
       => (mem["verdict"] = "mikulas"
             <=> mem["puffer"] = IF mem["answer1"] = mem["goodAnswer"] THEN "j" ELSE "h")

\* In the end the shared memory holds both players' answers, although one
\* player may find the semaphore gone.
KeptAtTheEnd ==
  pc["main"] = "done" /\ (\A p \in Players : pc[p] = "exited")
    => shm["firstPlayerAnswer"] = mem["answer1"] /\ shm["secPlayerAnswer"] = mem["answer2"]

\* The one way the game stops short: the two signals are merged into one.
Stuck == SignalLost(Players, 2)
=============================================================================
