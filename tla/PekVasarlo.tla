----------------------------- MODULE PekVasarlo -----------------------------
(***************************************************************************)
(* Anyag/gy6/pek_vasarlo.c: a baker and a customer, two children of one    *)
(* parent, share a shelf of N places through shared memory (s[0] loaves,   *)
(* s[1] the "go on" flag) and three named POSIX semaphores.  The parent    *)
(* waits for a key, clears s[1], waits for both children and unlinks the   *)
(* semaphores.  An interrupted run (Ctrl-C reaches the whole process       *)
(* group) leaves the named semaphores behind, with the values they had.    *)
(***************************************************************************)
EXTENDS Integers

CONSTANTS
  N,            \* the places on the shelf (10 in the source)
  MaxCrashes    \* bound on the interrupted runs

ASSUME NAssumption == N \in Nat \ {0}
ASSUME MaxCrashesAssumption == MaxCrashes \in Nat

VARIABLES
  pc,       \* where each process is
  s0,       \* s[0], the loaves on the shelf
  s1,       \* s[1], 1 while the children should go on
  reg,      \* the value each worker has loaded from s[0]
  sem,      \* the values of the semaphores
  named,    \* whether the semaphore names exist in the system
  clean,    \* history: this run created its semaphores itself
  crashes   \* how many runs were interrupted

vars == <<pc, s0, s1, reg, sem, named, clean, crashes>>

Workers == {"pek", "vasarlo"}
Sems == {"szabad", "ures", "tele"}

WorkerLabels == {"none", "test", "reserve", "lock", "load", "store",
                 "unlock", "publish", "done"}
ParentLabels == {"off", "fork1", "fork2", "scanf", "wait1", "wait2", "as worker"}

\* The semaphore a worker waits for before it may touch the shelf, the one
\* it posts afterwards, and what it adds to s[0].
Before(w) == IF w = "pek" THEN "ures" ELSE "tele"
After(w)  == IF w = "pek" THEN "tele" ELSE "ures"
Delta(w)  == IF w = "pek" THEN 1 ELSE -1

\* A slip in the set-up: the shelf starts with no free place.
InitialSemNoRoom == [x \in Sems |-> IF x = "szabad" THEN 1 ELSE 0]

InitialSem == [x \in Sems |-> CASE x = "szabad" -> 1
                                [] x = "ures"   -> N
                                [] x = "tele"   -> 0]

Init ==
  /\ pc = [p \in Workers \cup {"szulo"} |-> IF p = "szulo" THEN "off" ELSE "none"]
  /\ s0 = 0 /\ s1 = 0
  /\ reg = [w \in Workers |-> 0]
  /\ sem = InitialSem
  /\ named = FALSE /\ clean = FALSE /\ crashes = 0

Goto(p, from, to) == pc[p] = from /\ pc' = [pc EXCEPT ![p] = to]

-----------------------------------------------------------------------------
(* The parent *)

\* sem_open(name, O_CREAT, mode, value): without O_EXCL a semaphore that
\* exists keeps its value and the initial value is ignored.
Opened == IF named THEN sem ELSE InitialSem

\* A run starts: shared memory is set up, the semaphores are opened.
Start ==
  /\ Goto("szulo", "off", "fork1")
  /\ s0' = 0 /\ s1' = 1
  /\ sem' = Opened
  /\ clean' = ~named
  /\ named' = TRUE
  /\ UNCHANGED <<reg, crashes>>

\* fork() of a worker.  Its failure is not looked at: the parent then takes
\* the worker's branch itself and never comes back to scanf.
Fork(w, from, to) ==
  /\ \/ pc' = [pc EXCEPT !["szulo"] = to, ![w] = "test"]
     \/ pc' = [pc EXCEPT !["szulo"] = "as worker", ![w] = "test"]
  /\ pc["szulo"] = from
  /\ UNCHANGED <<s0, s1, reg, sem, named, clean, crashes>>

ForkVasarlo == Fork("vasarlo", "fork1", "fork2")
ForkPek == Fork("pek", "fork2", "scanf")

\* A key was pressed.
StopAll ==
  /\ Goto("szulo", "scanf", "wait1")
  /\ s1' = 0
  /\ UNCHANGED <<s0, reg, sem, named, clean, crashes>>

Ended(w) == pc[w] = "done"

\* The two wait(NULL): the first returns when one child has ended.
Wait1 ==
  /\ \E w \in Workers : Ended(w)
  /\ Goto("szulo", "wait1", "wait2")
  /\ UNCHANGED <<s0, s1, reg, sem, named, clean, crashes>>

\* The second returns when both have; then the names are unlinked.
Wait2 ==
  /\ \A w \in Workers : Ended(w)
  /\ pc["szulo"] = "wait2"
  /\ pc' = [p \in Workers \cup {"szulo"} |-> IF p = "szulo" THEN "off" ELSE "none"]
  /\ named' = FALSE
  /\ UNCHANGED <<s0, s1, reg, sem, clean, crashes>>

\* Ctrl-C ends the processes wherever they are; nothing is unlinked.
Interrupt ==
  /\ crashes < MaxCrashes
  /\ pc["szulo"] # "off"
  /\ pc' = [p \in Workers \cup {"szulo"} |-> IF p = "szulo" THEN "off" ELSE "none"]
  /\ crashes' = crashes + 1
  /\ clean' = FALSE
  /\ UNCHANGED <<s0, s1, reg, sem, named>>

-----------------------------------------------------------------------------
(* The workers: pek() and vasarlo() are one loop with two parameters *)

\* A slip: the wait does not block.
SemWaitUnblocking(x) == sem' = [sem EXCEPT ![x] = @ - 1]

SemWait(x) == sem[x] > 0 /\ sem' = [sem EXCEPT ![x] = @ - 1]
SemPost(x) == sem' = [sem EXCEPT ![x] = @ + 1]

\* A slip: while(1).
TestForever(w) ==
  /\ Goto(w, "test", "reserve")
  /\ UNCHANGED <<s0, s1, reg, sem, named, clean, crashes>>

\* while(s[1])
Test(w) ==
  /\ Goto(w, "test", IF s1 = 1 THEN "reserve" ELSE "done")
  /\ UNCHANGED <<s0, s1, reg, sem, named, clean, crashes>>

\* sem_wait(ures) in pek, sem_wait(tele) in vasarlo
Reserve(w) ==
  /\ Goto(w, "reserve", "lock")
  /\ SemWait(Before(w))
  /\ UNCHANGED <<s0, s1, reg, named, clean, crashes>>

\* A slip: the wait on szabad is left out.
LockFree(w) ==
  /\ Goto(w, "lock", "load")
  /\ UNCHANGED <<s0, s1, reg, sem, named, clean, crashes>>

\* sem_wait(szabad)
Lock(w) ==
  /\ Goto(w, "lock", "load")
  /\ SemWait("szabad")
  /\ UNCHANGED <<s0, s1, reg, named, clean, crashes>>

\* s[0] += 1 and s[0] -= 1 are a load and a store.
Load(w) ==
  /\ Goto(w, "load", "store")
  /\ reg' = [reg EXCEPT ![w] = s0]
  /\ UNCHANGED <<s0, s1, sem, named, clean, crashes>>

Store(w) ==
  /\ Goto(w, "store", "unlock")
  /\ s0' = reg[w] + Delta(w)
  /\ UNCHANGED <<s1, reg, sem, named, clean, crashes>>

\* sem_post(szabad)
Unlock(w) ==
  /\ Goto(w, "unlock", "publish")
  /\ SemPost("szabad")
  /\ UNCHANGED <<s0, s1, reg, named, clean, crashes>>

\* A slip: the semaphore waited for is posted again.
PublishBack(w) ==
  /\ Goto(w, "publish", "test")
  /\ SemPost(Before(w))
  /\ UNCHANGED <<s0, s1, reg, named, clean, crashes>>

\* sem_post(tele) in pek, sem_post(ures) in vasarlo; then usleep
Publish(w) ==
  /\ Goto(w, "publish", "test")
  /\ SemPost(After(w))
  /\ UNCHANGED <<s0, s1, reg, named, clean, crashes>>

Worker(w) ==
  \/ Test(w) \/ Reserve(w) \/ Lock(w) \/ Load(w)
  \/ Store(w) \/ Unlock(w) \/ Publish(w)

Parent == Start \/ ForkVasarlo \/ ForkPek \/ StopAll \/ Wait1 \/ Wait2

Next == Parent \/ (\E w \in Workers : Worker(w)) \/ Interrupt

\* The scheduler runs every runnable worker and the parent's forks and
\* waits; nobody has to start a run, to press the key or to interrupt.
Fairness ==
  /\ \A w \in Workers : WF_vars(Worker(w))
  /\ WF_vars(ForkVasarlo \/ ForkPek \/ Wait1 \/ Wait2)

Spec == Init /\ [][Next]_vars /\ Fairness

-----------------------------------------------------------------------------
(* Properties *)

Processes == Workers \cup {"szulo"}
Critical == {"load", "store", "unlock"}          \* between the szabad calls
Reserved == {"lock", "publish"} \cup Critical     \* between the two ures/tele calls

\* 1 if w is at one of the labels, 0 if it is not
At(w, labels) == IF pc[w] \in labels THEN 1 ELSE 0

TypeOK ==
  /\ pc \in [Processes -> WorkerLabels \cup ParentLabels]
  /\ \A w \in Workers : pc[w] \in WorkerLabels
  /\ pc["szulo"] \in ParentLabels
  /\ s0 \in Int /\ s1 \in {0, 1}
  /\ reg \in [Workers -> Int]
  /\ sem \in [Sems -> Nat]
  /\ named \in BOOLEAN /\ clean \in BOOLEAN
  /\ crashes \in 0..MaxCrashes

\* A loaf is added or taken (the load and store of s[0]) by one process at a
\* time, in a run that created its semaphores.
MutualExclusion == clean => ~(pc["pek"] \in Critical /\ pc["vasarlo"] \in Critical)

\* The semaphores and the loaves tell the same story at every step: free and
\* full places and the places workers hold add up to N, and s[0] is the number
\* of full places, corrected by what is stored but not yet published and what
\* is promised to the customer but not yet taken.
Accounting == clean =>
  /\ sem["szabad"] + At("pek", Critical) + At("vasarlo", Critical) = 1
  /\ sem["ures"] + sem["tele"] + At("pek", Reserved) + At("vasarlo", Reserved) = N
  /\ s0 = sem["tele"] + At("pek", {"unlock", "publish"})
                      + At("vasarlo", {"lock", "load", "store"})

\* The baker and the customer never wait for each other: not both are held up
\* at their first semaphore.
Blocked(w) == pc[w] = "reserve" /\ sem[Before(w)] = 0
NeverBothWait == clean => ~(Blocked("pek") /\ Blocked("vasarlo"))

\* s[0] behaves as the shelf of module Polc: it starts empty, changes by one
\* and stays within 0..N.  A run that found old semaphores is left out.
Shelf == INSTANCE Polc WITH keszlet <- IF clean THEN s0 ELSE 0
ShelfSpec == Shelf!Spec

\* After the key press the program ends, except when the worker still
\* running has been left alone on a full or an empty shelf.
EndsUnlessLeftAlone ==
  (clean /\ pc["szulo"] \in {"wait1", "wait2"})
     ~> \/ pc["szulo"] = "off"
        \/ \E w \in Workers : Blocked(w) /\ \A v \in Workers \ {w} : pc[v] = "done"

(***************************************************************************)
(* What the comments of the source say                                     *)
(***************************************************************************)

\* "gyerekek vege" (the end of the children), line 94: after s[1]=0 both
\* children end and with them the program.
GyerekekVege == (pc["szulo"] = "wait1") ~> (pc["szulo"] = "off")

\* "a polcon levo kenyerek szama" (the number of loaves on the shelf),
\* line 79: a number of loaves is not negative.
KenyerekSzama == s0 >= 0
=============================================================================
