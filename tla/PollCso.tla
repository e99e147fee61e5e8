------------------------------- MODULE PollCso ------------------------------
(***************************************************************************)
(* 5.Gyak/poll_cso.c, sel_cso.c and Anyag/gy3/ppoll.cso.c: the child waits   *)
(* for data in a FIFO with poll(), select() or ppoll(); the parent writes a  *)
(* number or, in ppoll.cso.c, sends a signal instead.  Both have the FIFO    *)
(* open for reading and writing, and both remove its name at the end.        *)
(***************************************************************************)
EXTENDS ZhIpc

CONSTANT Numbers    \* rand() % 100

VARIABLE program    \* "poll_cso", "sel_cso" or "ppoll"

pollVars == <<vars, program>>

Processes == {"child", "main"}

\* i of the parent and data or cdata of the child; signalled: the handler has
\* run in the child, in ppoll() or just before it.
NoLocals == [i |-> "unset", data |-> "unset", signalled |-> FALSE]

Init == IpcInit(Processes, {"namedpipe"}, NoLocals, <<>>)

\* mkfifo() fails if the name exists.  The wait that follows it in poll_cso.c
\* and sel_cso.c ends with the timeout: nobody else knows the FIFO.
mkfifo ==
  /\ IF "fifo" \in exists THEN Step("main", "fork1", "exited") /\ UNCHANGED exists
                          ELSE Step("main", "fork1", "fork") /\ exists' = exists \cup {"fifo"}
  /\ UNCHANGED <<pending, ready, reaped, pipe, mem, sem, queue, shm, run>>

\* When fork() fails the parent takes the child's branch.
ForkOrBranch ==
  /\ pc["main"] = "fork"
  /\ \/ pc' = [pc EXCEPT !["main"] = "rand", !["child"] = "start"]
     \/ pc' = [pc EXCEPT !["main"] = "start"]
  /\ UNCHANGED <<pending, ready, reaped, pipe, mem>>

\* kill(child, SIGUSR1) ends a child that has not called signal() yet.
KillChild ==
  /\ pc["main"] = "kill"
  /\ LET killed == pc["child"] = "start"
     IN  /\ pc' = [pc EXCEPT !["main"] = "wait", !["child"] = IF killed THEN "exited" ELSE @]
         /\ mem' = [mem EXCEPT !["signalled"] = pc["child"] = "poll"]
  /\ UNCHANGED <<pending, ready, reaped, pipe>>

\* unlink(), which may fail because the other one was first
unlink(p, to) ==
  /\ Step(p, "unlink", to)
  /\ exists' = exists \ {"fifo"}
  /\ UNCHANGED <<pending, ready, reaped, pipe, mem, sem, queue, shm, run>>

\* poll(), ppoll() and select(): there is data, a signal has come, or, unless
\* it is select() without a timeout, the time is over.  In ppoll.cso.c no data
\* ever comes.
Poll(p) ==
  \/ pipe["namedpipe"] # <<>> /\ Jump(p, "poll", "read")
  \/ mem["signalled"] /\ Jump(p, "poll", "unlink")
  \/ program # "sel_cso" /\ Jump(p, "poll", "unlink")

\* The branch of the child, taken by p; "start" is before signal().  poll_cso.c
\* reads one byte of the four, which is the number; nobody reads the others.
Branch(p, end) ==
  \/ /\ \/ Jump(p, "start", "poll")
        \/ Poll(p)
        \/ Read(p, "read", "unlink", "namedpipe", "data")
     /\ UNCHANGED ipc
  \/ unlink(p, end)

child == Branch("child", "exited") /\ UNCHANGED program

Main ==
  /\ \/ mkfifo
     \/ /\ \/ ForkOrBranch
           \/ \E n \in Numbers :
                Assign("main", "rand", IF program = "ppoll" THEN "kill" ELSE "write", "i", n)
           \/ Write("main", "write", "wait", "namedpipe", mem["i"])
           \/ KillChild
           \/ Wait({"child"}, "wait", "unlink")
        /\ UNCHANGED ipc
     \/ Branch("main", "done")
  /\ UNCHANGED program

Next ==
  \/ Start(Processes, {"namedpipe"}, NoLocals, 0) /\ UNCHANGED program
  \/ Interrupt(Processes) /\ UNCHANGED program
  \/ Main \/ child

Spec == Init /\ [][Next]_pollVars

-----------------------------------------------------------------------------
(* Properties *)

TypeOK ==
  /\ DOMAIN pc = Processes /\ run \in 0..MaxRuns
  /\ exists \subseteq {"sem", "queue", "fifo"} /\ Len(pipe["namedpipe"]) \in 0..1

\* The child reads the parent's number, and only a timeout keeps it from that:
\* the number is then still in the pipe when all is over.
ReadsTheNumber ==
  /\ mem["data"] \in {"unset", mem["i"]}
  /\ program # "ppoll" /\ AllForked /\ AllOver =>
       (mem["data"] = "unset" <=> pipe["namedpipe"] = <<mem["i"]>>)
  /\ program = "sel_cso" /\ pc["main"] = "done" => mem["data"] # "unset"

\* A run that gets to its end leaves no name behind, whoever has removed it
\* and however the child ended; so only after an interrupted run mkfifo() fails.
NameRemoved == pc["main"] = "done" => "fifo" \notin exists

\* fork() has failed in sel_cso.c, and the parent waits in select(), which has
\* no timeout, for a number nobody will write.
LeftAlone == program = "sel_cso" /\ pc["main"] = "poll" /\ ~AllForked
=============================================================================
