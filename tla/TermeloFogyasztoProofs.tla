----------------------- MODULE TermeloFogyasztoProofs -----------------------
(***************************************************************************)
(* Proofs about TermeloFogyaszto for every number of places, every number  *)
(* of rounds and every number of interrupted runs.  The inductive          *)
(* invariant adds to the types and the accounting where the two processes  *)
(* may be relative to each other (Phases) and what that says about the     *)
(* semaphores that exist and the rounds that are over.                     *)
(***************************************************************************)
EXTENDS TermeloFogyaszto, TLAPS

\* Parent and child are forked together, and the parent gets past waitpid only
\* when the child has ended.
Phases ==
  /\ pc["termelo"] # "end"
  /\ pc["fogyaszto"] \in Loop \cup {"off", "end"}
  /\ pc["termelo"] \in {"off", "fork"} => pc["fogyaszto"] = "off"
  /\ pc["termelo"] \in Removal => pc["fogyaszto"] = "end"

\* The semaphores exist until the parent removes them.
Existing == pc["termelo"] \in Loop \cup {"fork", "waitpid"} => exists = Sems

\* A process that has left its loop has done all its rounds.
RoundsOver ==
  /\ pc["termelo"] \in Removal \cup {"waitpid"} => kor["termelo"] = Rounds
  /\ pc["fogyaszto"] = "end" => kor["fogyaszto"] = Rounds

IInv == TypeOK /\ Accounting /\ Phases /\ Existing /\ RoundsOver

-----------------------------------------------------------------------------
LEMMA Names ==
  /\ \A p \in Workers : Before(p) \in Sems /\ After(p) \in Sems
  /\ InitialSem \in [Sems -> Nat]
  /\ InitialSem["free"] = 1 /\ InitialSem["empty"] = Number /\ InitialSem["full"] = 0
BY NumberAssumption DEF Workers, Sems, Before, After, InitialSem

LEMMA InitIInv == Init => IInv
<1> SUFFICES ASSUME Init PROVE IInv
  OBVIOUS
<1> USE DEF Init
<1>1. TypeOK
  BY RoundsAssumption, MaxCrashesAssumption DEF TypeOK, Workers, Sems, Labels
<1>2. \A p \in Workers : pc[p] = "off"
  OBVIOUS
<1>3. Phases /\ Existing /\ RoundsOver
  BY <1>2 DEF Phases, Existing, RoundsOver, Workers, Loop, Reserved, Critical, Removal
<1> QED BY <1>1, <1>2, <1>3 DEF IInv, Accounting, Running, Workers

-----------------------------------------------------------------------------
(* The life of the processes *)

LEMMA StartIInv == IInv /\ Start => IInv'
<1> SUFFICES ASSUME IInv, Start PROVE IInv'
  OBVIOUS
<1> USE DEF IInv, Start, Goto
<1>1. pc' \in [Workers -> Labels] /\ pc'["termelo"] = "fork" /\ pc'["fogyaszto"] = "off"
  BY DEF TypeOK, Phases, Workers, Labels
<1>2. TypeOK'
  BY <1>1, Names, RoundsAssumption DEF TypeOK
<1>3. Phases' /\ Existing' /\ RoundsOver'
  BY <1>1 DEF Phases, Existing, RoundsOver, Removal
<1>4. Accounting'
  BY <1>1, Names, NumberAssumption DEF Accounting, At, Used, Critical, Reserved, Workers
<1> QED BY <1>2, <1>3, <1>4

LEMMA ForkIInv == IInv /\ Fork => IInv'
<1> SUFFICES ASSUME IInv, Fork PROVE IInv'
  OBVIOUS
<1> USE DEF IInv, Fork
<1>1. pc' \in [Workers -> Labels] /\ \A p \in Workers : pc'[p] = "test"
  BY DEF Labels
<1>2. TypeOK'
  BY <1>1 DEF TypeOK
<1>3. Phases' /\ Existing' /\ RoundsOver'
  BY <1>1 DEF Phases, Existing, RoundsOver, Removal, Workers, Loop
<1>4. Accounting'
  BY <1>1 DEF Accounting, Phases, At, Used, Critical, Reserved, Workers, Running
<1> QED BY <1>2, <1>3, <1>4

\* Whatever ends the program leaves nobody running.
LEMMA OffIInv ==
  ASSUME IInv, pc' = [p \in Workers |-> "off"], UNCHANGED <<kor, sem, printed>>,
         exists' \in SUBSET Sems, crashes' \in 0..MaxCrashes
  PROVE  IInv'
<1> USE DEF IInv
<1>1. pc' \in [Workers -> Labels] /\ pc'["termelo"] = "off" /\ pc'["fogyaszto"] = "off"
  BY DEF Labels, Workers
<1>2. TypeOK'
  BY <1>1 DEF TypeOK
<1>3. Phases' /\ Existing' /\ RoundsOver'
  BY <1>1 DEF Phases, Existing, RoundsOver, Removal, Loop, Reserved, Critical
<1> QED BY <1>1, <1>2, <1>3 DEF Accounting, Running

LEMMA InterruptIInv == IInv /\ Interrupt => IInv'
<1> SUFFICES ASSUME IInv, Interrupt PROVE IInv'
  OBVIOUS
<1>1. crashes' \in 0..MaxCrashes /\ exists' \in SUBSET Sems
  BY MaxCrashesAssumption DEF Interrupt, IInv, TypeOK
<1> QED BY <1>1, OffIInv DEF Interrupt

LEMMA ForkFailsIInv == IInv /\ ForkFails => IInv'
<1> SUFFICES ASSUME IInv, ForkFails PROVE IInv'
  OBVIOUS
<1>1. pc' = [p \in Workers |-> "off"]
  BY DEF IInv, TypeOK, Phases, ForkFails, Goto, Workers
<1> QED BY <1>1, OffIInv DEF ForkFails, IInv, TypeOK

LEMMA WaitPidIInv == IInv /\ WaitPid => IInv'
<1> SUFFICES ASSUME IInv, WaitPid PROVE IInv'
  OBVIOUS
<1> USE DEF IInv, WaitPid, Goto
<1>1. /\ pc' \in [Workers -> Labels] /\ pc'["termelo"] = "rm free"
      /\ pc["fogyaszto"] = "end" /\ pc'["fogyaszto"] = "end"
  BY DEF TypeOK, Workers, Labels
<1>2. TypeOK'
  BY <1>1 DEF TypeOK
<1>3. Phases' /\ Existing' /\ RoundsOver'
  BY <1>1 DEF Phases, Existing, RoundsOver, Removal, Loop, Reserved, Critical
<1>4. Accounting'
  BY <1>1 DEF Accounting, Running, At, Used, Critical, Reserved
<1> QED BY <1>2, <1>3, <1>4

\* The first two removals only change which semaphores exist.
LEMMA RemoveIInv ==
  ASSUME IInv, NEW x, NEW from \in Removal, NEW to \in Removal, Remove(x, from, to)
  PROVE  IInv'
<1> USE DEF IInv, Remove, Goto
<1>1. /\ pc' \in [Workers -> Labels] /\ pc["termelo"] \in Removal /\ pc'["termelo"] \in Removal
      /\ pc["fogyaszto"] = "end" /\ pc'["fogyaszto"] = "end"
  BY DEF TypeOK, Phases, Workers, Labels, Removal
<1>2. TypeOK'
  BY <1>1 DEF TypeOK
<1>3. Phases' /\ Existing' /\ RoundsOver'
  BY <1>1 DEF Phases, Existing, RoundsOver, Removal, Loop, Reserved, Critical
<1>4. Accounting'
  BY <1>1 DEF Accounting, Running, At, Used, Critical, Reserved, Removal
<1> QED BY <1>2, <1>3, <1>4

LEMMA EndingIInv == IInv /\ Ending => IInv'
<1> SUFFICES ASSUME IInv, Ending PROVE IInv'
  OBVIOUS
<1>1. CASE WaitPid
  BY <1>1, WaitPidIInv
<1>2. CASE RemoveFree \/ RemoveEmpty
  BY <1>2, RemoveIInv DEF RemoveFree, RemoveEmpty, Removal
<1>3. CASE RemoveFull
  <2>1. exists' \in SUBSET Sems /\ crashes' \in 0..MaxCrashes
    BY <1>3 DEF RemoveFull, IInv, TypeOK
  <2> QED BY <1>3, <2>1, OffIInv DEF RemoveFull
<1> QED BY <1>1, <1>2, <1>3 DEF Ending

-----------------------------------------------------------------------------
(* The steps of the two loops *)

LEMMA Moves ==
  ASSUME TypeOK, NEW p \in Workers, NEW from, NEW to \in Labels, Goto(p, from, to)
  PROVE  /\ pc[p] = from /\ pc'[p] = to
         /\ \A q \in Workers : q # p => pc'[q] = pc[q]
         /\ pc' \in [Workers -> Labels]
BY DEF TypeOK, Goto, Workers

\* A step from one label of the loop to another changes neither the phase of
\* the program nor what follows from it.
LEMMA LoopStep ==
  ASSUME TypeOK, Phases, Existing, RoundsOver, NEW p \in Workers,
         NEW from \in Loop, NEW to \in Loop, Goto(p, from, to),
         exists' = exists, \A q \in Workers : q # p => kor'[q] = kor[q]
  PROVE  Phases' /\ Existing' /\ RoundsOver' /\ exists = Sems /\ "free" \in exists
<1>1. Loop \subseteq Labels
  BY DEF Loop, Reserved, Critical, Labels
<1>2. /\ pc[p] = from /\ pc'[p] = to /\ \A q \in Workers : q # p => pc'[q] = pc[q]
  BY <1>1, Moves
<1>3. Phases'
  BY <1>2 DEF Phases, Workers, Loop, Reserved, Critical, Removal
<1>4. pc["termelo"] \in Loop \cup {"waitpid"}
  BY <1>2 DEF Phases, TypeOK, Labels, Workers, Loop, Reserved, Critical, Removal
<1>5. exists = Sems
  BY <1>4 DEF Existing
<1>6. RoundsOver'
  BY <1>2 DEF RoundsOver, Workers, Loop, Reserved, Critical, Removal
<1> QED BY <1>3, <1>5, <1>6 DEF Existing, Sems

LEMMA TestIInv == ASSUME IInv, NEW p \in Workers, Test(p) PROVE IInv'
<1> USE DEF IInv
<1>1. CASE kor[p] # Rounds
  <2>1. Goto(p, "test", "reserve") /\ kor' = [kor EXCEPT ![p] = @ + 1]
        /\ UNCHANGED <<sem, exists, printed, crashes>>
    BY <1>1 DEF Test
  <2>2. /\ pc[p] = "test" /\ pc'[p] = "reserve" /\ pc' \in [Workers -> Labels]
        /\ \A q \in Workers : q # p => pc'[q] = pc[q]
    BY <2>1, Moves DEF Labels
  <2>3. kor' \in [Workers -> 0..Rounds] /\ kor'[p] = kor[p] + 1
        /\ \A q \in Workers : q # p => kor'[q] = kor[q]
    BY <1>1, <2>1, RoundsAssumption DEF TypeOK
  <2>4. TypeOK'
    BY <2>1, <2>2, <2>3 DEF TypeOK
  <2>5. Phases' /\ Existing' /\ RoundsOver'
    BY <2>1, <2>3, LoopStep DEF Loop
  <2>6. Accounting'
    BY <2>1, <2>2, <2>3, RoundsAssumption DEF Accounting, Running, At, Used, Critical,
       Reserved, Workers, TypeOK
  <2> QED BY <2>4, <2>5, <2>6
<1>2. CASE kor[p] = Rounds
  <2> DEFINE to == IF p = "termelo" THEN "waitpid" ELSE "end"
  <2>1. Goto(p, "test", to) /\ UNCHANGED <<kor, sem, exists, printed, crashes>>
        /\ to \in Labels
    BY <1>2 DEF Test, Labels
  <2>2. /\ pc[p] = "test" /\ pc'[p] = to /\ pc' \in [Workers -> Labels]
        /\ \A q \in Workers : q # p => pc'[q] = pc[q]
    BY <2>1, Moves
  <2>3. TypeOK'
    BY <2>1, <2>2 DEF TypeOK
  <2>4. Phases' /\ Existing' /\ RoundsOver'
    BY <1>2, <2>1, <2>2 DEF Phases, Existing, RoundsOver, Workers, Loop, Reserved, Critical,
       Removal
  <2>5. Accounting'
    BY <2>1, <2>2 DEF Accounting, Running, At, Used, Critical, Reserved, Workers
  <2> QED BY <2>3, <2>4, <2>5
<1> QED BY <1>1, <1>2

LEMMA ReserveIInv == ASSUME IInv, NEW p \in Workers, Reserve(p) PROVE IInv'
<1> USE DEF IInv, Reserve
<1>1. /\ pc[p] = "reserve" /\ pc'[p] = "lock" /\ pc' \in [Workers -> Labels]
      /\ \A q \in Workers : q # p => pc'[q] = pc[q]
  BY Moves DEF Labels
<1>2. Phases' /\ Existing' /\ RoundsOver' /\ exists = Sems
  BY LoopStep DEF Loop, Reserved
<1>3. sem[Before(p)] > 0 /\ sem' = [sem EXCEPT ![Before(p)] = @ - 1]
  BY <1>2, Names DEF SemClose
<1>4. TypeOK'
  BY <1>1, <1>3, Names DEF TypeOK
<1>5. Accounting'
  <2>1. CASE p = "termelo"
    BY <2>1, <1>1, <1>3 DEF Accounting, Running, At, Used, Critical, Reserved, Workers,
       Before, TypeOK, Sems
  <2>2. CASE p = "fogyaszto"
    BY <2>2, <1>1, <1>3 DEF Accounting, Running, At, Used, Critical, Reserved, Workers,
       Before, TypeOK, Sems
  <2> QED BY <2>1, <2>2 DEF Workers
<1> QED BY <1>2, <1>4, <1>5

LEMMA LockIInv == ASSUME IInv, NEW p \in Workers, Lock(p) PROVE IInv'
<1> USE DEF IInv, Lock
<1>1. /\ pc[p] = "lock" /\ pc'[p] = "use" /\ pc' \in [Workers -> Labels]
      /\ \A q \in Workers : q # p => pc'[q] = pc[q]
  BY Moves DEF Labels
<1>2. Phases' /\ Existing' /\ RoundsOver' /\ exists = Sems
  BY LoopStep DEF Loop, Reserved, Critical
<1>3. sem["free"] > 0 /\ sem' = [sem EXCEPT !["free"] = @ - 1]
  BY <1>2 DEF SemClose, Sems
<1>4. TypeOK'
  BY <1>1, <1>3 DEF TypeOK, Sems
<1>5. Accounting'
  BY <1>1, <1>3 DEF Accounting, Running, At, Used, Critical, Reserved, Workers, TypeOK, Sems
<1> QED BY <1>2, <1>4, <1>5

LEMMA UseIInv == ASSUME IInv, NEW p \in Workers, Use(p) PROVE IInv'
<1> USE DEF IInv, Use
<1>1. /\ pc[p] = "use" /\ pc'[p] = "unlock" /\ pc' \in [Workers -> Labels]
      /\ \A q \in Workers : q # p => pc'[q] = pc[q]
  BY Moves DEF Labels
<1>2. Phases' /\ Existing' /\ RoundsOver' /\ exists = Sems
  BY LoopStep DEF Loop, Reserved, Critical
<1>3. NumberOf(p) \in Int
  BY NumberAssumption DEF NumberOf, TypeOK, Sems
<1>4. TypeOK'
  BY <1>1, <1>3 DEF TypeOK
<1>5. Accounting'
  BY <1>1 DEF Accounting, Running, At, Used, Critical, Reserved, Workers, TypeOK, Sems
<1> QED BY <1>2, <1>4, <1>5

LEMMA UnlockIInv == ASSUME IInv, NEW p \in Workers, Unlock(p) PROVE IInv'
<1> USE DEF IInv, Unlock
<1>1. /\ pc[p] = "unlock" /\ pc'[p] = "publish" /\ pc' \in [Workers -> Labels]
      /\ \A q \in Workers : q # p => pc'[q] = pc[q]
  BY Moves DEF Labels
<1>2. Phases' /\ Existing' /\ RoundsOver' /\ exists = Sems
  BY LoopStep DEF Loop, Reserved, Critical
<1>3. sem' = [sem EXCEPT !["free"] = @ + 1]
  BY <1>2 DEF SemOpen, Sems
<1>4. TypeOK'
  BY <1>1, <1>3 DEF TypeOK, Sems
<1>5. Accounting'
  BY <1>1, <1>3 DEF Accounting, Running, At, Used, Critical, Reserved, Workers, TypeOK, Sems
<1> QED BY <1>2, <1>4, <1>5

LEMMA PublishIInv == ASSUME IInv, NEW p \in Workers, Publish(p) PROVE IInv'
<1> USE DEF IInv, Publish
<1>1. /\ pc[p] = "publish" /\ pc'[p] = "test" /\ pc' \in [Workers -> Labels]
      /\ \A q \in Workers : q # p => pc'[q] = pc[q]
  BY Moves DEF Labels
<1>2. Phases' /\ Existing' /\ RoundsOver' /\ exists = Sems
  BY LoopStep DEF Loop, Reserved
<1>3. sem' = [sem EXCEPT ![After(p)] = @ + 1]
  BY <1>2, Names DEF SemOpen
<1>4. TypeOK'
  BY <1>1, <1>3, Names DEF TypeOK
<1>5. Accounting'
  <2>1. CASE p = "termelo"
    BY <2>1, <1>1, <1>3 DEF Accounting, Running, At, Used, Critical, Reserved, Workers,
       After, TypeOK, Sems
  <2>2. CASE p = "fogyaszto"
    BY <2>2, <1>1, <1>3 DEF Accounting, Running, At, Used, Critical, Reserved, Workers,
       After, TypeOK, Sems
  <2> QED BY <2>1, <2>2 DEF Workers
<1> QED BY <1>2, <1>4, <1>5

LEMMA WorkerIInv == ASSUME IInv, NEW p \in Workers, Worker(p) PROVE IInv'
BY TestIInv, ReserveIInv, LockIInv, UseIInv, UnlockIInv, PublishIInv DEF Worker

-----------------------------------------------------------------------------
(* The theorems *)

LEMMA NextIInv == IInv /\ [Next]_vars => IInv'
<1> SUFFICES ASSUME IInv, [Next]_vars PROVE IInv'
  OBVIOUS
<1>1. CASE UNCHANGED vars
  BY <1>1 DEF vars, IInv, TypeOK, Accounting, Running, Used, At, Phases, Existing, RoundsOver
<1> QED BY <1>1, StartIInv, ForkIInv, ForkFailsIInv, InterruptIInv, EndingIInv, WorkerIInv
        DEF Next

\* The invariant the other theorems rest on holds in every state of
\* termelo_fogyaszto_systemv.c, for any number of places and rounds.
THEOREM Invariance == Spec => []IInv
<1>1. Init => IInv
  BY InitIInv
<1>2. IInv /\ [Next]_vars => IInv'
  BY NextIInv
<1> QED BY <1>1, <1>2, PTL DEF Spec

\* Every variable keeps its type: no semaphore and no loop counter leaves its range.
THEOREM TypeCorrect == Spec => []TypeOK
<1>1. IInv => TypeOK
  BY DEF IInv
<1> QED BY <1>1, Invariance, PTL

\* The three semaphores agree with the loop counters of parent and child.
THEOREM AccountingHolds == Spec => []Accounting
<1>1. IInv => Accounting
  BY DEF IInv
<1> QED BY <1>1, Invariance, PTL

\* semaphore_free keeps the two processes apart, in every run.
THEOREM MutualExclusionHolds == Spec => []MutualExclusion
<1>1. IInv => MutualExclusion
  <2> SUFFICES ASSUME IInv, \A p \in Workers : pc[p] \in Critical PROVE FALSE
    BY DEF MutualExclusion
  <2>1. pc["termelo"] \in Critical /\ pc["fogyaszto"] \in Critical
    BY DEF Workers
  <2>2. sem["free"] \in Nat /\ sem["free"] + 1 + 1 = 1
    BY <2>1 DEF IInv, TypeOK, Sems, Accounting, Running, At, Critical
  <2> QED BY <2>2
<1> QED BY <1>1, Invariance, PTL

\* No semaphore is removed under a process that may still use it: the parent
\* gets to semctl(IPC_RMID) only after waitpid.
THEOREM NoUseAfterRemovalHolds == Spec => []NoUseAfterRemoval
<1>1. IInv => NoUseAfterRemoval
  <2> SUFFICES ASSUME IInv, NEW p \in Workers, pc[p] \in Loop PROVE exists = Sems
    BY DEF NoUseAfterRemoval
  <2>1. pc["termelo"] \in Loop \cup {"waitpid"}
    BY DEF IInv, TypeOK, Phases, Labels, Workers, Loop, Reserved, Critical, Removal
  <2> QED BY <2>1 DEF IInv, Existing
<1> QED BY <1>1, Invariance, PTL

\* The removed semaphores are back at their initial values: all that was
\* produced has been consumed.
THEOREM NothingLeftOverHolds == Spec => []NothingLeftOver
<1>1. IInv => NothingLeftOver
  <2> SUFFICES ASSUME IInv, pc["termelo"] \in Removal
               PROVE  (\A p \in Workers : kor[p] = Rounds) /\ sem = InitialSem
    BY DEF NothingLeftOver
  <2>1. pc["fogyaszto"] = "end"
    BY DEF IInv, Phases
  <2>2. kor["termelo"] = Rounds /\ kor["fogyaszto"] = Rounds
    BY <2>1 DEF IInv, RoundsOver
  <2>3. sem["free"] = 1 /\ sem["full"] = 0 /\ sem["empty"] = Number
    <3>1. Running /\ \A p \in Workers : At(p, Critical) = 0 /\ At(p, Reserved) = 0
      BY <2>1 DEF Running, At, Critical, Reserved, Removal, Workers
    <3>2. At("termelo", {"unlock", "publish"}) = 0 /\ At("fogyaszto", {"lock", "use"}) = 0
      <4>1. At("termelo", {"unlock", "publish"}) = 0
        BY DEF At, Removal
      <4>2. At("fogyaszto", {"lock", "use"}) = 0
        BY <2>1 DEF At
      <4> QED BY <4>1, <4>2
    <3>3. Used("termelo") = Rounds /\ Used("fogyaszto") = Rounds
      <4>1. At("termelo", {"reserve", "lock", "use"}) = 0
        BY DEF At, Removal
      <4>2. At("fogyaszto", {"reserve", "lock", "use"}) = 0
        BY <2>1 DEF At
      <4> QED BY <2>2, <4>1, <4>2, RoundsAssumption DEF Used
    <3>4. sem["free"] \in Nat /\ sem["full"] \in Nat /\ sem["empty"] \in Nat
      BY DEF IInv, TypeOK, Sems
    <3> QED BY <3>1, <3>2, <3>3, <3>4, NumberAssumption, RoundsAssumption DEF IInv, Accounting, Workers
  <2>4. sem = InitialSem
    BY <2>3, Names DEF IInv, TypeOK, Sems
  <2> QED BY <2>2, <2>4 DEF Workers
<1> QED BY <1>1, Invariance, PTL

\* At the moment of GETVAL the number computed from it is that of a place.
LEMMA NumberInRange ==
  ASSUME IInv, NEW p \in Workers, pc[p] = "use"
  PROVE  NumberOf(p) \in 0..(Number - 1)
<1>1. pc["termelo"] # "off"
  BY DEF IInv, Phases, Workers
<1>2. /\ sem["empty"] \in Nat /\ sem["full"] \in Nat
      /\ sem["empty"] + sem["full"] + At("termelo", Reserved) + At("fogyaszto", Reserved)
           = Number
  BY <1>1 DEF IInv, TypeOK, Sems, Accounting, Running
<1>3. sem["empty"] =< Number - 1 /\ sem["full"] =< Number - 1
  BY <1>2, NumberAssumption DEF At, Workers, Reserved, Critical
<1> QED BY <1>2, <1>3, NumberAssumption DEF NumberOf

\* The numbers in the messages of both processes are numbers of places.
THEOREM NumbersArePlacesHolds == Spec => []NumbersArePlaces
<1>1. Init => NumbersArePlaces
  BY NumberAssumption DEF Init, NumbersArePlaces
<1>2. IInv /\ NumbersArePlaces /\ [Next]_vars => NumbersArePlaces'
  <2> SUFFICES ASSUME IInv, NumbersArePlaces, [Next]_vars PROVE NumbersArePlaces'
    OBVIOUS
  <2>1. CASE UNCHANGED printed
    BY <2>1 DEF NumbersArePlaces
  <2>2. CASE Start
    BY <2>2, NumberAssumption DEF Start, NumbersArePlaces
  <2>3. ASSUME NEW p \in Workers, Use(p) PROVE NumbersArePlaces'
    <3>1. NumberOf(p) \in 0..(Number - 1)
      BY <2>3, NumberInRange DEF Use, Goto
    <3> QED BY <2>3, <3>1 DEF Use, NumbersArePlaces, IInv, TypeOK
  <2>4. ASSUME NEW p \in Workers, Worker(p), ~Use(p) PROVE UNCHANGED printed
    BY <2>4 DEF Worker, Test, Reserve, Lock, Unlock, Publish
  <2>5. Fork \/ ForkFails \/ Interrupt \/ Ending => UNCHANGED printed
    BY DEF Fork, ForkFails, Interrupt, Ending, WaitPid, RemoveFree, RemoveEmpty, RemoveFull,
       Remove
  <2> QED BY <2>1, <2>2, <2>3, <2>4, <2>5 DEF Next, Worker, vars
<1> QED BY <1>1, <1>2, Invariance, PTL DEF Spec

-----------------------------------------------------------------------------
(* Refinement: the program implements the shelf of module Polc *)

stored == IF Running THEN Used("termelo") - Used("fogyaszto") ELSE 0

\* What the messages say was put and not taken fits on the shelf.
LEMMA StoredInRange == IInv => stored \in 0..Number
BY NumberAssumption DEF IInv, TypeOK, Accounting, stored, Running, At, Sems, Critical, Reserved

LEMMA StoredInRangePrimed == IInv' => stored' \in 0..Number
BY NumberAssumption DEF IInv, TypeOK, Accounting, stored, Running, At, Sems, Critical, Reserved

\* Printing "Produced" or "Consumer get" is the abstract step.
LEMMA UseRefines == ASSUME IInv, IInv', NEW p \in Workers, Use(p) PROVE Store!Next
<1>1. /\ pc[p] = "use" /\ pc'[p] = "unlock" /\ kor' = kor
      /\ \A q \in Workers : q # p => pc'[q] = pc[q]
  BY Moves DEF Use, IInv, Labels
<1>2. pc["termelo"] # "off" /\ pc'["termelo"] # "off"
  BY <1>1 DEF IInv, Phases, Workers
<1>3. stored \in 0..Number /\ stored' \in 0..Number
  BY StoredInRange, StoredInRangePrimed
<1>4. kor["termelo"] \in Int /\ kor["fogyaszto"] \in Int
  BY RoundsAssumption DEF IInv, TypeOK, Workers
<1>5. CASE p = "termelo"
  <2>1. stored' = stored + 1
    BY <1>1, <1>2, <1>4, <1>5 DEF stored, Running, Used, At, Workers
  <2>2. stored < Number
    BY <1>3, <2>1, NumberAssumption
  <2> QED BY <2>1, <2>2 DEF Store!Next, Store!Be, stored
<1>6. CASE p = "fogyaszto"
  <2>1. stored' = stored - 1
    BY <1>1, <1>2, <1>4, <1>6 DEF stored, Running, Used, At, Workers
  <2>2. stored > 0
    BY <1>3, <2>1, NumberAssumption
  <2> QED BY <2>1, <2>2 DEF Store!Next, Store!Ki, stored
<1> QED BY <1>5, <1>6 DEF Workers

\* Beginning a round counts the round and moves past the loop test: what has
\* been put and taken stays the same.
LEMMA OtherStepsStutter ==
  ASSUME IInv, NEW p \in Workers, Worker(p), ~Use(p)
  PROVE  stored' = stored
<1>1. kor["termelo"] \in Int /\ kor["fogyaszto"] \in Int /\ kor \in [Workers -> Int]
  BY RoundsAssumption DEF IInv, TypeOK, Workers
<1>2. TypeOK
  BY DEF IInv
<1>3. CASE Test(p)
  BY <1>1, <1>2, <1>3 DEF Test, Goto, TypeOK, stored, Running, Used, At, Workers
<1>4. CASE Reserve(p) \/ Lock(p) \/ Unlock(p) \/ Publish(p)
  BY <1>1, <1>2, <1>4 DEF Reserve, Lock, Unlock, Publish, Goto, TypeOK, stored, Running, Used,
     At, Workers
<1> QED BY <1>3, <1>4 DEF Worker

\* Starting, forking and ending the program empties the shelf or leaves it alone.
LEMMA LifeRefines ==
  ASSUME IInv, Start \/ Fork \/ ForkFails \/ Interrupt \/ Ending
  PROVE  stored' \in {stored, 0}
<1> USE DEF IInv, TypeOK, stored, Running
<1>1. CASE Start
  BY <1>1 DEF Start, Goto, Phases, Used, At, Workers
<1>2. CASE Fork
  BY <1>2 DEF Fork, Phases, Used, At, Workers
<1>3. CASE ForkFails \/ Interrupt \/ RemoveFull
  <2>1. pc'["termelo"] = "off"
    BY <1>3 DEF ForkFails, Goto, Interrupt, RemoveFull, Workers
  <2> QED BY <2>1
<1>4. CASE WaitPid \/ RemoveFree \/ RemoveEmpty
  BY <1>4 DEF WaitPid, RemoveFree, RemoveEmpty, Remove, Goto, Used, At, Workers
<1> QED BY <1>1, <1>2, <1>3, <1>4 DEF Ending

LEMMA StepRefines == ASSUME IInv, IInv', [Next]_vars PROVE [Store!Next]_stored
<1>1. CASE UNCHANGED vars
  BY <1>1 DEF vars, stored, Running, Used, At
<1>2. CASE Start \/ Fork \/ ForkFails \/ Interrupt \/ Ending
  <2>1. stored' = stored \/ stored' = 0
    BY <1>2, LifeRefines
  <2> QED BY <2>1 DEF Store!Next, Store!Kiurul, stored
<1>3. ASSUME NEW p \in Workers, Worker(p) PROVE [Store!Next]_stored
  BY <1>3, UseRefines, OtherStepsStutter
<1> QED BY <1>1, <1>2, <1>3 DEF Next

\* The program implements the abstract shelf: at most Number products are put
\* and not yet taken, and none is taken before it was put.
THEOREM ImplementsStore == Spec => StoreSpec
<1>1. Init => Store!Init
  BY DEF Init, Store!Init, Running, Workers
<1>2. IInv /\ IInv' /\ [Next]_vars
        => [Store!Next]_(IF Running THEN Used("termelo") - Used("fogyaszto") ELSE 0)
  BY StepRefines DEF stored
<1> QED BY <1>1, <1>2, Invariance, PTL DEF Spec, StoreSpec, Store!Spec
=============================================================================
