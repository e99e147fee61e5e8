-------------------------- MODULE PekVasarloProofs --------------------------
(***************************************************************************)
(* Proofs about PekVasarlo for every number of places and every number of  *)
(* interrupted runs.  The inductive invariant is IInv: the types, the      *)
(* accounting of the semaphores, the register of a worker that is about to *)
(* store, what has to hold for clean to mean what it says, and that nobody *)
(* runs before the fork that makes it.                                     *)
(***************************************************************************)
EXTENDS PekVasarlo, TLAPS

\* The value a worker in a clean run is about to store is still up to date:
\* nobody has written s[0] since it was loaded.
FreshRegister == clean => \A w \in Workers : pc[w] = "store" => reg[w] = s0

Inv == TypeOK /\ Accounting /\ FreshRegister

\* A worker does not exist before it is forked: a run starts with nobody in
\* the loops, and the baker starts last.
NotYetForked ==
  /\ pc["szulo"] \in {"off", "fork1"} => pc["vasarlo"] = "none"
  /\ pc["szulo"] \in {"off", "fork1", "fork2"} => pc["pek"] = "none"

IInv == Inv /\ NotYetForked

-----------------------------------------------------------------------------
\* The names of the workers and of the semaphores are what the records say.
LEMMA Names ==
  /\ Workers = {"pek", "vasarlo"}
  /\ Processes = {"pek", "vasarlo", "szulo"}
  /\ Sems = {"szabad", "ures", "tele"}
  /\ \A w \in Workers : /\ Before(w) \in Sems /\ After(w) \in Sems
                        /\ Before(w) # "szabad" /\ After(w) # "szabad"
                        /\ Before(w) # After(w)
                        /\ Delta(w) \in {1, -1}
  /\ InitialSem \in [Sems -> Nat]
  /\ InitialSem["szabad"] = 1 /\ InitialSem["ures"] = N /\ InitialSem["tele"] = 0
BY NAssumption DEF Workers, Processes, Sems, Before, After, Delta, InitialSem

\* The initial state satisfies the inductive invariant.
LEMMA InitIInv == Init => IInv
<1> SUFFICES ASSUME Init PROVE IInv
  OBVIOUS
<1> USE DEF Init
<1>1. pc \in [Processes -> WorkerLabels \cup ParentLabels]
  BY DEF Processes, Workers, WorkerLabels, ParentLabels
<1>2. (\A w \in Workers : pc[w] = "none") /\ pc["szulo"] = "off"
  BY DEF Workers
<1>3. sem \in [Sems -> Nat] /\ crashes \in 0..MaxCrashes
  BY Names, MaxCrashesAssumption
<1>4. TypeOK
  <2>1. named \in BOOLEAN /\ clean \in BOOLEAN
    BY Zenon
  <2>2. reg \in [Workers -> Int]
    OBVIOUS
  <2>3. s0 \in Int /\ s1 \in {0, 1}
    OBVIOUS
  <2>4. (\A w \in Workers : pc[w] \in WorkerLabels) /\ pc["szulo"] \in ParentLabels
    BY <1>2 DEF WorkerLabels, ParentLabels
  <2> QED BY <1>1, <1>3, <2>1, <2>2, <2>3, <2>4 DEF TypeOK
<1>5. Accounting /\ FreshRegister /\ NotYetForked
  BY <1>2 DEF Accounting, FreshRegister, NotYetForked, Workers
<1> QED BY <1>4, <1>5 DEF IInv, Inv

-----------------------------------------------------------------------------
(* The steps of the parent *)

\* A step of the parent that leaves the workers, s[0], their registers and the
\* semaphores alone preserves what the invariant says of them.
LEMMA QuietStep ==
  ASSUME IInv, TypeOK', NotYetForked',
         \A w \in Workers : pc'[w] = pc[w], UNCHANGED <<s0, reg, sem, clean>>
  PROVE  IInv'
BY DEF IInv, Inv, Accounting, FreshRegister, At, Workers

LEMMA StartIInv == IInv /\ Start => IInv'
<1> SUFFICES ASSUME IInv, Start PROVE IInv'
  OBVIOUS
<1> USE DEF IInv, Inv, Start, Goto
<1>1. TypeOK'
  <2>1. sem' \in [Sems -> Nat]
    BY Names DEF TypeOK, Opened
  <2>2. named' \in BOOLEAN /\ clean' \in BOOLEAN
    BY Zenon
  <2>3. /\ pc' \in [Processes -> WorkerLabels \cup ParentLabels]
        /\ (\A w \in Workers : pc'[w] \in WorkerLabels) /\ pc'["szulo"] \in ParentLabels
    BY DEF TypeOK, Processes, Workers, ParentLabels
  <2> QED BY <2>1, <2>2, <2>3 DEF TypeOK
<1>2. \A w \in Workers : pc'[w] = "none"
  BY DEF NotYetForked, TypeOK, Processes, Workers
<1>3. clean' => sem' = InitialSem
  BY DEF Opened
<1>4. Accounting'
  BY <1>2, <1>3, Names, NAssumption DEF Accounting, At, Workers, Critical, Reserved
<1>5. FreshRegister' /\ NotYetForked'
  BY <1>2 DEF FreshRegister, NotYetForked, Workers
<1> QED BY <1>1, <1>4, <1>5

\* A worker that has just been forked holds nothing.
LEMMA ForkIInv ==
  ASSUME NEW w \in Workers, NEW from, NEW to \in ParentLabels,
         pc[w] = "none", IInv, Fork(w, from, to), NotYetForked'
  PROVE  IInv'
<1> USE DEF IInv, Inv, Fork
<1>1. TypeOK'
  <2>1. CASE pc' = [pc EXCEPT !["szulo"] = to, ![w] = "test"]
    BY <2>1 DEF TypeOK, Processes, Workers, WorkerLabels, ParentLabels
  <2>2. CASE pc' = [pc EXCEPT !["szulo"] = "as worker", ![w] = "test"]
    BY <2>2 DEF TypeOK, Processes, Workers, WorkerLabels, ParentLabels
  <2> QED BY <2>1, <2>2
<1>2. \A v \in Workers : pc'[v] = IF v = w THEN "test" ELSE pc[v]
  BY DEF TypeOK, Processes, Workers
<1>3. /\ \A v \in Workers : At(v, Critical)' = At(v, Critical)
      /\ \A v \in Workers : At(v, Reserved)' = At(v, Reserved)
      /\ At("pek", {"unlock", "publish"})' = At("pek", {"unlock", "publish"})
      /\ At("vasarlo", {"lock", "load", "store"})'
           = At("vasarlo", {"lock", "load", "store"})
  BY <1>2 DEF At, Critical, Reserved, Workers
<1>4. Accounting'
  BY <1>3 DEF Accounting, Workers
<1>5. FreshRegister'
  BY <1>2 DEF FreshRegister
<1> QED BY <1>1, <1>4, <1>5

LEMMA ForkVasarloIInv == IInv /\ ForkVasarlo => IInv'
<1> SUFFICES ASSUME IInv, ForkVasarlo PROVE IInv'
  OBVIOUS
<1>1. NotYetForked' /\ pc["vasarlo"] = "none"
  BY DEF ForkVasarlo, Fork, NotYetForked, IInv, Inv, TypeOK, Processes, Workers
<1> QED BY <1>1, ForkIInv DEF ForkVasarlo, Workers, ParentLabels

LEMMA ForkPekIInv == IInv /\ ForkPek => IInv'
<1> SUFFICES ASSUME IInv, ForkPek PROVE IInv'
  OBVIOUS
<1>1. NotYetForked' /\ pc["pek"] = "none"
  BY DEF ForkPek, Fork, NotYetForked, IInv, Inv, TypeOK, Processes, Workers
<1> QED BY <1>1, ForkIInv DEF ForkPek, Workers, ParentLabels

LEMMA StopAllIInv == IInv /\ StopAll => IInv'
<1> SUFFICES ASSUME IInv, StopAll PROVE IInv'
  OBVIOUS
<1>1. TypeOK' /\ NotYetForked' /\ \A w \in Workers : pc'[w] = pc[w]
  BY DEF IInv, Inv, TypeOK, NotYetForked, StopAll, Goto, Processes, Workers, ParentLabels
<1> QED BY <1>1, QuietStep DEF StopAll

LEMMA Wait1IInv == IInv /\ Wait1 => IInv'
<1> SUFFICES ASSUME IInv, Wait1 PROVE IInv'
  OBVIOUS
<1>1. TypeOK' /\ NotYetForked' /\ \A w \in Workers : pc'[w] = pc[w]
  BY DEF IInv, Inv, TypeOK, NotYetForked, Wait1, Goto, Processes, Workers, ParentLabels
<1> QED BY <1>1, QuietStep DEF Wait1

\* A worker that has ended holds nothing, so nothing is lost with it.
LEMMA Wait2IInv == IInv /\ Wait2 => IInv'
<1> SUFFICES ASSUME IInv, Wait2 PROVE IInv'
  OBVIOUS
<1> USE DEF IInv, Inv, Wait2, Ended
<1>1. /\ pc' \in [Processes -> WorkerLabels \cup ParentLabels]
      /\ pc'["szulo"] = "off" /\ \A w \in Workers : pc'[w] = "none"
  BY DEF Processes, Workers, WorkerLabels, ParentLabels
<1>2. TypeOK' /\ NotYetForked'
  BY <1>1 DEF TypeOK, NotYetForked, Workers, WorkerLabels, ParentLabels
<1>3. Accounting'
  BY <1>1 DEF Accounting, At, Critical, Reserved, Workers
<1> QED BY <1>1, <1>2, <1>3 DEF FreshRegister

LEMMA InterruptIInv == IInv /\ Interrupt => IInv'
<1> SUFFICES ASSUME IInv, Interrupt PROVE IInv'
  OBVIOUS
<1> USE DEF IInv, Inv, Interrupt
<1>1. /\ pc' \in [Processes -> WorkerLabels \cup ParentLabels]
      /\ pc'["szulo"] = "off" /\ \A w \in Workers : pc'[w] = "none"
  BY DEF Processes, Workers, WorkerLabels, ParentLabels
<1>2. crashes' \in 0..MaxCrashes
  BY MaxCrashesAssumption DEF TypeOK
<1>3. TypeOK' /\ NotYetForked'
  BY <1>1, <1>2 DEF TypeOK, NotYetForked, Workers, WorkerLabels, ParentLabels
<1> QED BY <1>3 DEF Accounting, FreshRegister

-----------------------------------------------------------------------------
(* The steps of the workers *)

\* A worker that moves along its loop leaves the parent and the other worker
\* where they are.
LEMMA Moves ==
  ASSUME TypeOK, NEW w \in Workers, NEW from, NEW to \in WorkerLabels, Goto(w, from, to)
  PROVE  /\ pc[w] = from /\ pc'[w] = to
         /\ pc'["szulo"] = pc["szulo"]
         /\ \A v \in Workers : v # w => pc'[v] = pc[v]
         /\ \A v \in Workers : pc'[v] \in WorkerLabels
         /\ pc' \in [Processes -> WorkerLabels \cup ParentLabels]
BY DEF TypeOK, Goto, Processes, Workers

\* A worker in its loop was forked, so moving along it keeps NotYetForked.
LEMMA StaysForked ==
  ASSUME TypeOK, NotYetForked, NEW w \in Workers, NEW from, from # "none",
         NEW to \in WorkerLabels, Goto(w, from, to)
  PROVE  NotYetForked'
BY Moves DEF NotYetForked, Workers

LEMMA TestIInv == ASSUME IInv, NEW w \in Workers, Test(w) PROVE IInv'
<1> USE DEF IInv, Inv
<1> DEFINE to == IF s1 = 1 THEN "reserve" ELSE "done"
<1>1. Goto(w, "test", to) /\ to \in WorkerLabels
  BY DEF Test, WorkerLabels
<1> HIDE DEF to
<1>2. TypeOK' /\ NotYetForked'
  BY <1>1, Moves, StaysForked DEF Test, TypeOK
<1>3. to \in {"reserve", "done"}
  BY DEF to
<1>4. Accounting' /\ FreshRegister'
  BY <1>1, <1>3, Moves DEF Test, Accounting, FreshRegister, At, Critical, Reserved, Workers
<1> QED BY <1>2, <1>4

LEMMA ReserveIInv == ASSUME IInv, NEW w \in Workers, Reserve(w) PROVE IInv'
<1> USE DEF IInv, Inv, Reserve
<1>1. Goto(w, "reserve", "lock") /\ "lock" \in WorkerLabels
  BY DEF WorkerLabels
<1>2. sem' \in [Sems -> Nat]
  BY Names DEF SemWait, TypeOK
<1>3. TypeOK' /\ NotYetForked'
  BY <1>1, <1>2, Moves, StaysForked DEF TypeOK
<1>4. Accounting'
  <2>1. CASE w = "pek"
    BY <2>1, <1>1, Moves DEF Accounting, At, Critical, Reserved, Workers, SemWait, Before, TypeOK, Sems
  <2>2. CASE w = "vasarlo"
    BY <2>2, <1>1, Moves DEF Accounting, At, Critical, Reserved, Workers, SemWait, Before, TypeOK, Sems
  <2> QED BY <2>1, <2>2 DEF Workers
<1>5. FreshRegister'
  BY <1>1, Moves DEF FreshRegister
<1> QED BY <1>3, <1>4, <1>5

LEMMA LockIInv == ASSUME IInv, NEW w \in Workers, Lock(w) PROVE IInv'
<1> USE DEF IInv, Inv, Lock
<1>1. Goto(w, "lock", "load") /\ "load" \in WorkerLabels
  BY DEF WorkerLabels
<1>2. sem' \in [Sems -> Nat]
  BY Names DEF SemWait, TypeOK
<1>3. TypeOK' /\ NotYetForked'
  BY <1>1, <1>2, Moves, StaysForked DEF TypeOK
<1>4. Accounting'
  <2>1. CASE w = "pek"
    BY <2>1, <1>1, Moves DEF Accounting, At, Critical, Reserved, Workers, SemWait, TypeOK, Sems
  <2>2. CASE w = "vasarlo"
    BY <2>2, <1>1, Moves DEF Accounting, At, Critical, Reserved, Workers, SemWait, TypeOK, Sems
  <2> QED BY <2>1, <2>2 DEF Workers
<1>5. FreshRegister'
  BY <1>1, Moves DEF FreshRegister
<1> QED BY <1>3, <1>4, <1>5

\* Mutual exclusion follows from the accounting: szabad would be negative.
LEMMA Exclusion == TypeOK /\ Accounting => MutualExclusion
BY DEF TypeOK, Accounting, MutualExclusion, At, Sems

LEMMA LoadIInv == ASSUME IInv, NEW w \in Workers, Load(w) PROVE IInv'
<1> USE DEF IInv, Inv, Load
<1>1. Goto(w, "load", "store") /\ "store" \in WorkerLabels
  BY DEF WorkerLabels
<1>2. reg' \in [Workers -> Int] /\ \A v \in Workers : reg'[v] = IF v = w THEN s0 ELSE reg[v]
  BY DEF TypeOK
<1>3. TypeOK' /\ NotYetForked'
  BY <1>1, <1>2, Moves, StaysForked DEF TypeOK
<1>4. Accounting'
  BY <1>1, Moves DEF Accounting, At, Critical, Reserved, Workers
<1>5. FreshRegister'
  BY <1>1, <1>2, Moves DEF FreshRegister
<1> QED BY <1>3, <1>4, <1>5

\* The store adds to the current s[0], because the other worker is not in its
\* own load and store.
LEMMA StoreIInv == ASSUME IInv, NEW w \in Workers, Store(w) PROVE IInv'
<1> USE DEF IInv, Inv, Store
<1>1. Goto(w, "store", "unlock") /\ "unlock" \in WorkerLabels
  BY DEF WorkerLabels
<1>2. s0' \in Int
  BY Names DEF TypeOK
<1>3. TypeOK' /\ NotYetForked'
  BY <1>1, <1>2, Moves, StaysForked DEF TypeOK
<1>4. clean => s0' = s0 + Delta(w)
  BY <1>1, Moves DEF FreshRegister
<1>5. Accounting'
  <2>1. CASE w = "pek"
    BY <2>1, <1>1, <1>4, Moves DEF Accounting, At, Critical, Reserved, Workers, Delta, TypeOK, Sems
  <2>2. CASE w = "vasarlo"
    BY <2>2, <1>1, <1>4, Moves DEF Accounting, At, Critical, Reserved, Workers, Delta, TypeOK, Sems
  <2> QED BY <2>1, <2>2 DEF Workers
<1>6. FreshRegister'
  BY <1>1, Moves, Exclusion DEF FreshRegister, MutualExclusion, Critical, Workers
<1> QED BY <1>3, <1>5, <1>6

LEMMA UnlockIInv == ASSUME IInv, NEW w \in Workers, Unlock(w) PROVE IInv'
<1> USE DEF IInv, Inv, Unlock
<1>1. Goto(w, "unlock", "publish") /\ "publish" \in WorkerLabels
  BY DEF WorkerLabels
<1>2. sem' \in [Sems -> Nat]
  BY Names DEF SemPost, TypeOK
<1>3. TypeOK' /\ NotYetForked'
  BY <1>1, <1>2, Moves, StaysForked DEF TypeOK
<1>4. Accounting'
  <2>1. CASE w = "pek"
    BY <2>1, <1>1, Moves DEF Accounting, At, Critical, Reserved, Workers, SemPost, TypeOK, Sems
  <2>2. CASE w = "vasarlo"
    BY <2>2, <1>1, Moves DEF Accounting, At, Critical, Reserved, Workers, SemPost, TypeOK, Sems
  <2> QED BY <2>1, <2>2 DEF Workers
<1>5. FreshRegister'
  BY <1>1, Moves DEF FreshRegister
<1> QED BY <1>3, <1>4, <1>5

LEMMA PublishIInv == ASSUME IInv, NEW w \in Workers, Publish(w) PROVE IInv'
<1> USE DEF IInv, Inv, Publish
<1>1. Goto(w, "publish", "test") /\ "test" \in WorkerLabels
  BY DEF WorkerLabels
<1>2. sem' \in [Sems -> Nat]
  BY Names DEF SemPost, TypeOK
<1>3. TypeOK' /\ NotYetForked'
  BY <1>1, <1>2, Moves, StaysForked DEF TypeOK
<1>4. Accounting'
  <2>1. CASE w = "pek"
    BY <2>1, <1>1, Moves DEF Accounting, At, Critical, Reserved, Workers, SemPost, After, TypeOK, Sems
  <2>2. CASE w = "vasarlo"
    BY <2>2, <1>1, Moves DEF Accounting, At, Critical, Reserved, Workers, SemPost, After, TypeOK, Sems
  <2> QED BY <2>1, <2>2 DEF Workers
<1>5. FreshRegister'
  BY <1>1, Moves DEF FreshRegister
<1> QED BY <1>3, <1>4, <1>5

LEMMA WorkerIInv == ASSUME IInv, NEW w \in Workers, Worker(w) PROVE IInv'
BY TestIInv, ReserveIInv, LockIInv, LoadIInv, StoreIInv, UnlockIInv, PublishIInv DEF Worker

-----------------------------------------------------------------------------
(* The theorems *)

LEMMA NextIInv == IInv /\ [Next]_vars => IInv'
<1> SUFFICES ASSUME IInv, [Next]_vars PROVE IInv'
  OBVIOUS
<1>1. CASE Parent
  BY <1>1, StartIInv, ForkVasarloIInv, ForkPekIInv, StopAllIInv, Wait1IInv, Wait2IInv DEF Parent
<1>2. CASE \E w \in Workers : Worker(w)
  BY <1>2, WorkerIInv
<1>3. CASE Interrupt
  BY <1>3, InterruptIInv
<1>4. CASE UNCHANGED vars
  BY <1>4 DEF vars, IInv, Inv, TypeOK, Accounting, FreshRegister, NotYetForked, At
<1> QED BY <1>1, <1>2, <1>3, <1>4 DEF Next

\* The invariant the other theorems rest on holds in every state of the
\* program: pek_vasarlo.c with any number of places and interrupted runs.
THEOREM Invariance == Spec => []IInv
<1>1. Init => IInv
  BY InitIInv
<1>2. IInv /\ [Next]_vars => IInv'
  BY NextIInv
<1> QED BY <1>1, <1>2, PTL DEF Spec

\* Every variable of the program keeps its type: in particular no semaphore
\* becomes negative.
THEOREM TypeCorrect == Spec => []TypeOK
<1>1. IInv => TypeOK
  BY DEF IInv, Inv
<1> QED BY <1>1, Invariance, PTL

\* The semaphores and s[0] agree at every step of a run that created them
\* (the sem_wait, sem_post and s[0] lines of pek and vasarlo).
THEOREM AccountingHolds == Spec => []Accounting
<1>1. IInv => Accounting
  BY DEF IInv, Inv
<1> QED BY <1>1, Invariance, PTL

\* The baker and the customer are never both between sem_wait(szabad) and
\* sem_post(szabad).
THEOREM MutualExclusionHolds == Spec => []MutualExclusion
<1>1. IInv => MutualExclusion
  BY Exclusion DEF IInv, Inv
<1> QED BY <1>1, Invariance, PTL

\* The baker and the customer are never both held up at their first semaphore.
THEOREM NeverBothWaitHolds == Spec => []NeverBothWait
<1>1. IInv => NeverBothWait
  BY NAssumption DEF IInv, Inv, TypeOK, Accounting, NeverBothWait, Blocked, At,
     Reserved, Critical, Before, Sems
<1> QED BY <1>1, Invariance, PTL

-----------------------------------------------------------------------------
(* Refinement: the program implements the shelf of module Polc *)

\* s[0] never leaves 0..N in a clean run.
LEMMA Stock == TypeOK /\ Accounting /\ clean => s0 \in 0..N
BY NAssumption DEF TypeOK, Accounting, At, Sems, Critical, Reserved

\* A store in a clean run is the abstract producer's or consumer's step.
LEMMA StoreRefines == ASSUME IInv, IInv', NEW w \in Workers, Store(w), clean
                      PROVE  Shelf!Next
<1>1. clean' = clean
  BY DEF Store
<1>2. s0 \in 0..N
  BY Stock DEF IInv, Inv
<1>3. s0' \in 0..N
  BY <1>1, NAssumption DEF IInv, Inv, TypeOK, Accounting, At, Sems, Critical, Reserved
<1>4. s0' = s0 + Delta(w)
  BY DEF IInv, Inv, FreshRegister, Store, Goto
<1>5. CASE w = "pek"
  <2>1. s0 < N /\ s0' = s0 + 1
    BY <1>2, <1>3, <1>4, <1>5, NAssumption DEF Delta
  <2> QED BY <1>1, <2>1 DEF Shelf!Next, Shelf!Be
<1>6. CASE w = "vasarlo"
  <2>1. s0 > 0 /\ s0' = s0 - 1
    BY <1>2, <1>3, <1>4, <1>6, NAssumption DEF Delta
  <2> QED BY <1>1, <2>1 DEF Shelf!Next, Shelf!Ki
<1> QED BY <1>5, <1>6 DEF Workers

\* Every step of the program is a step of the shelf or leaves it alone.
LEMMA StepRefines ==
  ASSUME IInv, IInv', [Next]_vars
  PROVE  [Shelf!Next]_(IF clean THEN s0 ELSE 0)
<1> DEFINE shelf == IF clean THEN s0 ELSE 0
<1>1. CASE UNCHANGED <<s0, clean>>
  BY <1>1
<1>2. CASE Start \/ Interrupt
  <2>1. shelf' = 0
    BY <1>2 DEF Start, Interrupt
  <2> QED BY <2>1 DEF Shelf!Next, Shelf!Kiurul
<1>3. ASSUME NEW w \in Workers, Store(w) PROVE [Shelf!Next]_(shelf)
  <2>1. CASE clean
    BY <1>3, <2>1, StoreRefines
  <2>2. CASE ~clean
    BY <1>3, <2>2 DEF Store
  <2> QED BY <2>1, <2>2
<1>4. ASSUME NEW w \in Workers, Worker(w), ~Store(w) PROVE UNCHANGED <<s0, clean>>
  BY <1>4 DEF Worker, Test, Reserve, Lock, Load, Unlock, Publish
<1>5. ForkVasarlo \/ ForkPek \/ StopAll \/ Wait1 \/ Wait2 => UNCHANGED <<s0, clean>>
  BY DEF ForkVasarlo, ForkPek, Fork, StopAll, Wait1, Wait2
<1> QED BY <1>1, <1>2, <1>3, <1>4, <1>5 DEF Next, Parent, Worker, vars

\* The program implements the abstract shelf: s[0] starts at 0, changes by one
\* at a time and stays within 0..N, whatever the interleaving of the workers.
THEOREM ImplementsShelf == Spec => ShelfSpec
<1>1. Init => Shelf!Init
  BY DEF Init, Shelf!Init
<1>2. IInv /\ IInv' /\ [Next]_vars => [Shelf!Next]_(IF clean THEN s0 ELSE 0)
  BY StepRefines
<1> QED BY <1>1, <1>2, Invariance, PTL DEF Spec, ShelfSpec, Shelf!Spec
=============================================================================
