-------------------------- MODULE TermeloFogyaszto --------------------------
(***************************************************************************)
(* Anyag/gy6/termelo_fogyaszto_systemv.c: the parent produces and its      *)
(* child consumes Rounds products through a store of Number places, kept   *)
(* in order by three System V semaphores.  The parent waits for the child  *)
(* and removes the semaphores one after the other.  SETVAL gives them      *)
(* their values at every start, whatever an interrupted run left behind.   *)
(***************************************************************************)
EXTENDS Integers

CONSTANTS
  Number,       \* the places of the store (number = 3 in the source)
  Rounds,       \* the products each process handles (10 in the source)
  MaxCrashes    \* bound on the interrupted runs

ASSUME NumberAssumption == Number \in Nat \ {0}
ASSUME RoundsAssumption == Rounds \in Nat
ASSUME MaxCrashesAssumption == MaxCrashes \in Nat

VARIABLES
  pc,       \* where each process is
  kor,      \* i and end: the rounds each process has begun
  sem,      \* the values of the semaphores
  exists,   \* the semaphores that exist in the system
  printed,  \* the number each process printed last
  crashes   \* how many runs were interrupted

vars == <<pc, kor, sem, exists, printed, crashes>>

Workers == {"termelo", "fogyaszto"}
Sems == {"free", "empty", "full"}
Labels == {"off", "fork", "test", "reserve", "lock", "use", "unlock",
           "publish", "waitpid", "rm free", "rm empty", "rm full", "end"}

\* semaphore_empty and semaphore_full in the order each side uses them
Before(p) == IF p = "termelo" THEN "empty" ELSE "full"
After(p)  == IF p = "termelo" THEN "full" ELSE "empty"

Init ==
  /\ pc = [p \in Workers |-> "off"]
  /\ kor = [p \in Workers |-> 0]
  /\ sem = [x \in Sems |-> 0] /\ exists = {}
  /\ printed = [p \in Workers |-> 0]
  /\ crashes = 0

Goto(p, from, to) == pc[p] = from /\ pc' = [pc EXCEPT ![p] = to]

-----------------------------------------------------------------------------
(* The life of the processes *)

\* A slip: the store is opened with one place too many.
InitialSemOneMore == [x \in Sems |-> CASE x = "free"  -> 1
                                       [] x = "empty" -> Number + 1
                                       [] x = "full"  -> 0]

InitialSem == [x \in Sems |-> CASE x = "free"  -> 1
                                [] x = "empty" -> Number
                                [] x = "full"  -> 0]

\* sem_create and sem_inic of the three semaphores
Start ==
  /\ Goto("termelo", "off", "fork")
  /\ sem' = InitialSem
  /\ exists' = Sems
  /\ kor' = [p \in Workers |-> 0]
  /\ printed' = [p \in Workers |-> 0]
  /\ UNCHANGED crashes

Fork ==
  /\ pc["termelo"] = "fork"
  /\ pc' = [p \in Workers |-> "test"]
  /\ UNCHANGED <<kor, sem, exists, printed, crashes>>

\* fork() fails: exit(0), and the semaphores stay.
ForkFails ==
  /\ Goto("termelo", "fork", "off")
  /\ UNCHANGED <<kor, sem, exists, printed, crashes>>

\* A slip: the parent goes on to the removal without waiting.
WaitPidNot ==
  /\ Goto("termelo", "waitpid", "rm free")
  /\ UNCHANGED <<kor, sem, exists, printed, crashes>>

\* waitpid(child, ...)
WaitPid ==
  /\ pc["fogyaszto"] = "end"
  /\ Goto("termelo", "waitpid", "rm free")
  /\ UNCHANGED <<kor, sem, exists, printed, crashes>>

\* semctl(semaphore_x, 0, IPC_RMID, ...)
Remove(x, from, to) ==
  /\ Goto("termelo", from, to)
  /\ exists' = exists \ {x}
  /\ UNCHANGED <<kor, sem, printed, crashes>>

RemoveFree == Remove("free", "rm free", "rm empty")
RemoveEmpty == Remove("empty", "rm empty", "rm full")

\* The last removal, after which the program has ended.
RemoveFull ==
  /\ pc["termelo"] = "rm full"
  /\ pc' = [p \in Workers |-> "off"]
  /\ exists' = exists \ {"full"}
  /\ UNCHANGED <<kor, sem, printed, crashes>>

\* Ctrl-C ends both processes wherever they are.
Interrupt ==
  /\ crashes < MaxCrashes
  /\ pc["termelo"] # "off"
  /\ pc' = [p \in Workers |-> "off"]
  /\ crashes' = crashes + 1
  /\ UNCHANGED <<kor, sem, exists, printed>>

-----------------------------------------------------------------------------
(* The two loops: they differ in the semaphores and in the number printed *)

\* A slip: the semaphore is lowered without waiting.
SemCloseUnblocking(x) == sem' = [sem EXCEPT ![x] = @ - 1]

\* semop on a semaphore that was removed fails, and nobody looks at it.
SemClose(x) ==
  IF x \in exists THEN sem[x] > 0 /\ sem' = [sem EXCEPT ![x] = @ - 1]
                  ELSE UNCHANGED sem
SemOpen(x) ==
  sem' = IF x \in exists THEN [sem EXCEPT ![x] = @ + 1] ELSE sem

\* while (i++ != 10) in the parent, while (end++ != 10) in the child
Test(p) ==
  \/ /\ kor[p] # Rounds
     /\ Goto(p, "test", "reserve")
     /\ kor' = [kor EXCEPT ![p] = @ + 1]
     /\ UNCHANGED <<sem, exists, printed, crashes>>
  \/ /\ kor[p] = Rounds
     /\ Goto(p, "test", IF p = "termelo" THEN "waitpid" ELSE "end")
     /\ UNCHANGED <<kor, sem, exists, printed, crashes>>

\* sem_close(semaphore_empty) in the parent, of semaphore_full in the child
Reserve(p) ==
  /\ Goto(p, "reserve", "lock")
  /\ SemClose(Before(p))
  /\ UNCHANGED <<kor, exists, printed, crashes>>

\* A slip: semaphore_free is not taken.
LockNot(p) ==
  /\ Goto(p, "lock", "use")
  /\ UNCHANGED <<kor, sem, exists, printed, crashes>>

\* sem_close(semaphore_free)
Lock(p) ==
  /\ Goto(p, "lock", "use")
  /\ SemClose("free")
  /\ UNCHANGED <<kor, exists, printed, crashes>>

\* A slip: the producer forgets the place it has itself reserved.
NumberOfNotMinus1(p) == IF p = "termelo" THEN Number - sem["empty"] ELSE sem["full"]

\* GETVAL of the semaphore waited for, and the number printed from it
NumberOf(p) == IF p = "termelo" THEN Number - sem["empty"] - 1 ELSE sem["full"]

\* The product is put to, or taken from, a place; the number is printed.
Use(p) ==
  /\ Goto(p, "use", "unlock")
  /\ printed' = [printed EXCEPT ![p] = NumberOf(p)]
  /\ UNCHANGED <<kor, sem, exists, crashes>>

\* sem_open(semaphore_free)
Unlock(p) ==
  /\ Goto(p, "unlock", "publish")
  /\ SemOpen("free")
  /\ UNCHANGED <<kor, exists, printed, crashes>>

\* A slip: the consumer's loop ends without giving its place back.
PublishNot(p) ==
  /\ Goto(p, "publish", "test")
  /\ IF p = "termelo" THEN SemOpen("full") ELSE UNCHANGED sem
  /\ UNCHANGED <<kor, exists, printed, crashes>>

\* sem_open(semaphore_full) in the parent, of semaphore_empty in the child
Publish(p) ==
  /\ Goto(p, "publish", "test")
  /\ SemOpen(After(p))
  /\ UNCHANGED <<kor, exists, printed, crashes>>

Worker(p) ==
  Test(p) \/ Reserve(p) \/ Lock(p) \/ Use(p) \/ Unlock(p) \/ Publish(p)

Ending == WaitPid \/ RemoveFree \/ RemoveEmpty \/ RemoveFull

Next ==
  \/ Start \/ Fork \/ ForkFails \/ Interrupt \/ Ending
  \/ \E p \in Workers : Worker(p)

\* Once started the program is scheduled; nobody has to start or stop it.
Fairness ==
  /\ \A p \in Workers : WF_vars(Worker(p))
  /\ WF_vars(Fork \/ ForkFails \/ Ending)

Spec == Init /\ [][Next]_vars /\ Fairness

-----------------------------------------------------------------------------
(* Properties *)

Critical == {"use", "unlock"}                    \* semaphore_free is held
Reserved == {"lock", "publish"} \cup Critical     \* a place or product is held
Loop == {"test", "reserve"} \cup Reserved
Removal == {"rm free", "rm empty", "rm full"}

At(p, labels) == IF pc[p] \in labels THEN 1 ELSE 0

\* The products p has put or taken since the program was started
Used(p) == kor[p] - At(p, {"reserve", "lock", "use"})
Running == pc["termelo"] # "off"

TypeOK ==
  /\ pc \in [Workers -> Labels]
  /\ kor \in [Workers -> 0..Rounds]
  /\ sem \in [Sems -> Nat]
  /\ exists \in SUBSET Sems
  /\ printed \in [Workers -> Int]
  /\ crashes \in 0..MaxCrashes

\* One process at a time is between sem_close and sem_open of semaphore_free,
\* also after an interrupted run: SETVAL opens the semaphore again.
MutualExclusion == ~(\A p \in Workers : pc[p] \in Critical)

\* The three semaphores and the two loop counters agree at every step of a
\* run: nothing is produced twice, lost, or consumed twice.
Accounting == Running =>
  /\ sem["free"] + At("termelo", Critical) + At("fogyaszto", Critical) = 1
  /\ sem["empty"] + sem["full"] + At("termelo", Reserved) + At("fogyaszto", Reserved)
       = Number
  /\ sem["full"] + At("termelo", {"unlock", "publish"}) + At("fogyaszto", {"lock", "use"})
       = Used("termelo") - Used("fogyaszto")

\* No process uses a semaphore that has been removed: the parent removes them
\* only when the child has ended and its own loop is over.
NoUseAfterRemoval == \A p \in Workers : pc[p] \in Loop => exists = Sems

\* The numbers in the messages are numbers of places, 0..Number-1, although
\* GETVAL reads a semaphore that the other process may be changing.
NumbersArePlaces == \A p \in Workers : printed[p] \in 0..(Number - 1)

\* When the semaphores are removed everything produced has been consumed.
NothingLeftOver ==
  pc["termelo"] \in Removal =>
    /\ \A p \in Workers : kor[p] = Rounds
    /\ sem = InitialSem

\* Put and taken products behave as the shelf of module Polc.
Store == INSTANCE Polc WITH
           N <- Number, keszlet <- IF Running THEN Used("termelo") - Used("fogyaszto") ELSE 0
StoreSpec == Store!Spec

\* Once forked the two processes finish all their rounds, whatever the order
\* they are scheduled in, and the program ends.
Terminates == (pc["termelo"] = "fork") ~> (pc["termelo"] = "off")
=============================================================================
