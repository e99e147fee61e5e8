------------------------------- MODULE Fcntl --------------------------------
(***************************************************************************)
(* Anyag/gy1/fcntl.c: parent and child write Rounds lines each into one    *)
(* file, character by character, under a write lock on the whole file.     *)
(* fcntl_0.c is the same program without the lock.  The file was opened    *)
(* before the fork, so both share its offset and each write() goes to the   *)
(* end.                                                                      *)
(***************************************************************************)
EXTENDS Integers, Sequences

CONSTANTS
  Rounds,     \* the lines each process writes (25 in the source)
  Length      \* the length of each process's text

Processes == {"parent", "child"}

ASSUME RoundsAssumption == Rounds \in Nat
ASSUME LengthAssumption == Length \in [Processes -> Nat]

VARIABLES
  pc,      \* where each process is
  j,       \* the lines each has begun and ended, in its loop
  i,       \* the characters each has written of its line
  lock,    \* the processes that hold the lock on the file
  f,       \* the file: who wrote each character, in which of its lines (history),
           \* and which one of the line it is
  locking  \* which program it is: fcntl.c locks the file for a line

vars == <<pc, j, i, lock, f, locking>>

Goto(p, from, to) == pc[p] = from /\ pc' = [pc EXCEPT ![p] = to]

char(p, k) == [by |-> p, line |-> j[p], no |-> k]
newline(p) == char(p, Length[p] + 1)

Init ==
  /\ pc = [p \in Processes |-> IF p = "parent" THEN "fork" ELSE "none"]
  /\ j = [p \in Processes |-> 0] /\ i = [p \in Processes |-> 0]
  /\ lock = {} /\ f = <<>>
  /\ locking \in BOOLEAN

Fork ==
  /\ pc["parent"] = "fork"
  /\ pc' = [p \in Processes |-> "for"]
  /\ UNCHANGED <<j, i, lock, f>>

\* exit(1)
ForkFails ==
  /\ Goto("parent", "fork", "exit")
  /\ UNCHANGED <<j, i, lock, f>>

\* for (j=0;j<25;j++)
For(p) ==
  /\ IF j[p] < Rounds THEN Goto(p, "for", "lock")
     ELSE Goto(p, "for", IF p = "parent" THEN "waitpid" ELSE "exit")
  /\ UNCHANGED <<j, i, lock, f>>

\* A slip: F_SETLK instead of F_SETLKW, and the result is not looked at.
LockNoWait(p) ==
  /\ Goto(p, "lock", "write")
  /\ i' = [i EXCEPT ![p] = 0]
  /\ lock' = IF lock = {} THEN {p} ELSE lock
  /\ UNCHANGED <<j, f>>

\* fcntl(F_SETLKW, F_WRLCK) waits; with one lock, no handler and a local file
\* it does not fail.
Lock(p) ==
  /\ Goto(p, "lock", "write")
  /\ i' = [i EXCEPT ![p] = 0]
  /\ IF locking THEN lock = {} /\ lock' = {p} ELSE UNCHANGED lock
  /\ UNCHANGED <<j, f>>

\* A slip: the child has its own offset, and its first character overwrites.
WriteOver(p) ==
  \/ /\ i[p] < Length[p]
     /\ pc[p] = "write" /\ UNCHANGED pc
     /\ i' = [i EXCEPT ![p] = @ + 1]
     /\ f' = IF p = "child" /\ f # <<>> /\ i[p] = 0
               THEN [f EXCEPT ![Len(f)] = char(p, 1)] ELSE Append(f, char(p, i[p] + 1))
     /\ UNCHANGED <<j, lock>>
  \/ /\ i[p] = Length[p]
     /\ Goto(p, "write", "unlock")
     /\ f' = Append(f, newline(p))
     /\ UNCHANGED <<j, i, lock>>

\* A slip: i<=length
WriteOneMore(p) ==
  \/ /\ i[p] <= Length[p]
     /\ pc[p] = "write" /\ UNCHANGED pc
     /\ i' = [i EXCEPT ![p] = @ + 1]
     /\ f' = Append(f, char(p, i[p] + 1))
     /\ UNCHANGED <<j, lock>>
  \/ /\ i[p] = Length[p] + 1
     /\ Goto(p, "write", "unlock")
     /\ f' = Append(f, newline(p))
     /\ UNCHANGED <<j, i, lock>>

\* for (i=0;i<length;i++) write(f,&text[i],1); and write(f,"\n",1)
Write(p) ==
  \/ /\ i[p] < Length[p]
     /\ pc[p] = "write" /\ UNCHANGED pc
     /\ i' = [i EXCEPT ![p] = @ + 1]
     /\ f' = Append(f, char(p, i[p] + 1))
     /\ UNCHANGED <<j, lock>>
  \/ /\ i[p] = Length[p]
     /\ Goto(p, "write", "unlock")
     /\ f' = Append(f, newline(p))
     /\ UNCHANGED <<j, i, lock>>

\* A slip: the lock is not given back.
UnlockNot(p) ==
  /\ Goto(p, "unlock", "for")
  /\ j' = [j EXCEPT ![p] = @ + 1]
  /\ UNCHANGED <<i, lock, f>>

\* fcntl(F_SETLKW, F_UNLCK)
Unlock(p) ==
  /\ Goto(p, "unlock", "for")
  /\ j' = [j EXCEPT ![p] = @ + 1]
  /\ lock' = lock \ {p}
  /\ UNCHANGED <<i, f>>

\* waitpid(child, ...)
WaitPid ==
  /\ pc["child"] = "exit"
  /\ Goto("parent", "waitpid", "exit")
  /\ UNCHANGED <<j, i, lock, f>>

Process(p) == (For(p) \/ Lock(p) \/ Write(p) \/ Unlock(p)) /\ UNCHANGED locking
Main == (Fork \/ ForkFails \/ WaitPid) /\ UNCHANGED locking

Next == Main \/ \E p \in Processes : Process(p)

\* Both processes are scheduled.  A lock request is served at last because
\* the other process asks Rounds times only.
Fairness == WF_vars(Main) /\ \A p \in Processes : WF_vars(Process(p))

Spec == Init /\ [][Next]_vars /\ Fairness

-----------------------------------------------------------------------------
(* Properties *)

TypeOK ==
  /\ pc \in [Processes -> {"none", "fork", "for", "lock", "write", "unlock", "waitpid", "exit"}]
  /\ j \in [Processes -> 0..Rounds] /\ i \in [Processes -> Nat]
  /\ \A p \in Processes : i[p] <= Length[p]
  /\ lock \subseteq Processes /\ locking \in BOOLEAN
  /\ f \in Seq([by : Processes, line : Nat, no : Nat])
  /\ \A k \in DOMAIN f : f[k].line < Rounds /\ f[k].no \in 1..(Length[f[k].by] + 1)

\* With the lock every line of the file is the whole text of one process: a
\* character other than the first one follows the character before it.
WholeLines ==
  locking => \A k \in DOMAIN f :
    f[k].no > 1 => k > 1 /\ f[k - 1] = [f[k] EXCEPT !.no = @ - 1]

\* Nothing that was written is lost or overwritten, and nothing is written
\* twice, with or without the lock: the file holds every character of the lines
\* each process has begun, up to where it is, and each one's in their order.
Written(p) == CASE pc[p] = "write" -> i[p] [] pc[p] = "unlock" -> Length[p] + 1 [] OTHER -> 0
Holds(p, l, k) == \E m \in DOMAIN f : f[m] = [by |-> p, line |-> l, no |-> k]
NothingLost ==
  \A p \in Processes :
    /\ \A l \in 0..(Rounds - 1) : \A k \in 1..(Length[p] + 1) :
         Holds(p, l, k) <=> l < j[p] \/ (l = j[p] /\ k <= Written(p))
    /\ \A m, n \in DOMAIN f :
         m < n /\ f[m].by = p /\ f[n].by = p =>
           \/ f[m].line < f[n].line
           \/ f[m].line = f[n].line /\ f[m].no < f[n].no

\* The file behaves as the log of module Naplo: the ended lines, each at the
\* place of its newline, only grow, one by one, at the end and in order.
LineEnds == {k \in DOMAIN f : f[k].no > Length[f[k].by]}
Log == INSTANCE Naplo WITH Writers <- Processes,
         lines <- [k \in LineEnds |-> [by |-> f[k].by, line |-> f[k].line]]
LogSpec == Log!Spec

\* Both processes write all their lines and end, in whatever order they get
\* the lock, or the fork has failed.
AllWritten ==
  (pc["parent"] = "fork")
     ~> (pc["parent"] = "exit" /\ pc["child"] \in {"exit", "none"} /\ lock = {}
           /\ \A p \in Processes : j[p] = IF pc["child"] = "exit" THEN Rounds ELSE 0)
=============================================================================
