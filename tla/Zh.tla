--------------------------------- MODULE Zh ---------------------------------
(***************************************************************************)
(* What the exam programs under "ZH Gyak" have in common: a main process   *)
(* that forks its children with one copied function, counts their SIGUSR1  *)
(* in a handler, talks to them over pipes and waits for some of them.      *)
(*                                                                         *)
(* A program is a set of processes, each at a label; its module says with  *)
(* the steps below what every process does at every label.                 *)
(***************************************************************************)
EXTENDS Integers, Sequences

CONSTANT PipeCapacity    \* writes a pipe holds before write() blocks

ASSUME PipeCapacityAssumption == PipeCapacity \in Nat \ {0}

VARIABLES
  pc,        \* where each process is
  pending,   \* SIGUSR1 is pending for main: one bit, whoever sent it
  ready,     \* the handler's counter (jelek, ready, start)
  reaped,    \* the children wait() has returned for
  pipe,      \* what is in each pipe, one entry for each write()
  mem        \* the local variables that matter, by name

zhVars == <<pc, pending, ready, reaped, pipe, mem>>

Gone == {"off", "exited", "done"}    \* done: main has returned 0
Alive(p) == pc[p] \notin Gone

Step(p, from, to) == pc[p] = from /\ pc' = [pc EXCEPT ![p] = to]

-----------------------------------------------------------------------------
(* Processes and signals *)

\* fork() in the wrapper of child c: the child starts, or fork fails and the
\* wrapper ends main on the spot.
Fork(c, from, to) ==
  /\ pc["main"] = from
  /\ \/ pc' = [pc EXCEPT !["main"] = to, ![c] = "start"]
     \/ pc' = [pc EXCEPT !["main"] = "exited"]
  /\ UNCHANGED <<pending, ready, reaped, pipe, mem>>

\* kill(main, SIGUSR1): a signal that is pending already stays pending once.
Kill(c, from, to) ==
  /\ Step(c, from, to)
  /\ pending' = Alive("main")
  /\ UNCHANGED <<ready, reaped, pipe, mem>>

\* The handler runs at some point between two instructions of main.
Deliver ==
  /\ pending /\ Alive("main")
  /\ pending' = FALSE
  /\ ready' = ready + 1
  /\ UNCHANGED <<pc, reaped, pipe, mem>>

\* while (ready < n);
AwaitReady(n, from, to) ==
  /\ ready >= n
  /\ Step("main", from, to)
  /\ UNCHANGED <<pending, ready, reaped, pipe, mem>>

\* A slip: wait() that does not block.
WaitNot(children, from, to) ==
  /\ Step("main", from, to)
  /\ UNCHANGED <<pending, ready, reaped, pipe, mem>>

\* wait(NULL): returns for some child that has ended.
Wait(children, from, to) ==
  /\ \E c \in children \ reaped : pc[c] = "exited" /\ reaped' = reaped \cup {c}
  /\ Step("main", from, to)
  /\ UNCHANGED <<pending, ready, pipe, mem>>

-----------------------------------------------------------------------------
(* Pipes and local variables *)

\* A slip: write() that never blocks.
WriteUnbounded(p, from, to, d, item) ==
  /\ Step(p, from, to)
  /\ pipe' = [pipe EXCEPT ![d] = Append(@, item)]
  /\ UNCHANGED <<pending, ready, reaped, mem>>

\* write(): atomic, and blocking when the pipe is full.  Every process holds
\* a read end of every pipe, so there is no EPIPE.
Write(p, from, to, d, item) ==
  /\ Step(p, from, to)
  /\ Len(pipe[d]) < PipeCapacity
  /\ pipe' = [pipe EXCEPT ![d] = Append(@, item)]
  /\ UNCHANGED <<pending, ready, reaped, mem>>

\* read() into x.  Every process holds a write end of every pipe, so there is
\* no end of file: an empty pipe blocks.
Read(p, from, to, d, x) ==
  /\ Step(p, from, to)
  /\ pipe[d] # <<>>
  /\ mem' = [mem EXCEPT ![x] = Head(pipe[d])]
  /\ pipe' = [pipe EXCEPT ![d] = Tail(@)]
  /\ UNCHANGED <<pending, ready, reaped>>

Assign(p, from, to, x, v) ==
  /\ Step(p, from, to)
  /\ mem' = [mem EXCEPT ![x] = v]
  /\ UNCHANGED <<pending, ready, reaped, pipe>>

Jump(p, from, to) ==
  /\ Step(p, from, to)
  /\ UNCHANGED <<pending, ready, reaped, pipe, mem>>

-----------------------------------------------------------------------------
(* How a run may end *)

AllForked == \A p \in DOMAIN pc : pc[p] # "off"
AllOver == \A p \in DOMAIN pc : ~Alive(p)

\* Every child has sent its signal, but they were merged and main is still
\* short of n: it waits for ever for a signal nobody will send.
SignalLost(children, n) ==
  /\ \A c \in children : pc[c] \notin {"off", "start"}
  /\ ~pending /\ ready < n
  /\ pc["main"] \in {"ready1", "ready2"}

\* The second fork has failed and main has exited.  The first child waits at l
\* for an answer nobody will send; it holds a write end of every pipe itself.
LeftBehind(child, l) == pc["main"] = "exited" /\ ~AllForked /\ pc[child] = l
=============================================================================
