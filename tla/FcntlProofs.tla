----------------------------- MODULE FcntlProofs ----------------------------
(***************************************************************************)
(* Proofs about Fcntl for every number of lines and every length of the two *)
(* texts, with and without the lock.  The inductive invariant adds to what   *)
(* the file holds who has the lock, and that the end of the file is the      *)
(* character its holder has written last.                                    *)
(***************************************************************************)
EXTENDS Fcntl, SequenceTheorems, TLAPS

\* Who has got the lock has not given it back, and with the lock that is one.
Inside(p) == pc[p] \in {"write", "unlock"}
LockHeld ==
  IF locking THEN \A p \in Processes : Inside(p) <=> lock = {p} ELSE lock = {}

\* A process in a line has not written all its lines before.
LinesLeft == \A p \in Processes : pc[p] \in {"lock", "write", "unlock"} => j[p] < Rounds

\* The last character of the file is the one the holder of the lock wrote last.
EndOfFile ==
  locking => \A p \in Processes :
    pc[p] = "write" /\ i[p] > 0 => f # <<>> /\ f[Len(f)] = char(p, i[p])

\* The child has no label before the fork.
NotYetForked == pc["parent"] = "fork" => pc["child"] = "none"

IInv == TypeOK /\ NotYetForked /\ LockHeld /\ LinesLeft /\ EndOfFile /\ WholeLines /\ NothingLost

Chars == [by : Processes, line : Nat, no : Nat]
Labels == {"none", "fork", "for", "lock", "write", "unlock", "waitpid", "exit"}
Outside == Labels \ {"lock", "write", "unlock"}

-----------------------------------------------------------------------------
LEMMA InitIInv == Init => IInv
<1> SUFFICES ASSUME Init PROVE IInv
  OBVIOUS
<1> USE RoundsAssumption, LengthAssumption DEF Init, Processes
<1>1. TypeOK
  BY DEF TypeOK
<1>2. NotYetForked /\ LockHeld /\ LinesLeft /\ EndOfFile
  BY DEF NotYetForked, LockHeld, Inside, LinesLeft, EndOfFile
<1>3. WholeLines
  BY DEF WholeLines
<1>4. NothingLost
  <2>1. \A p \in Processes : Written(p) = 0 /\ j[p] = 0
    BY DEF Written
  <2> QED BY <2>1 DEF NothingLost, Holds
<1> QED BY <1>1, <1>2, <1>3, <1>4 DEF IInv

\* A step that leaves the file and the lines alone, and what of its line each
\* process has written.
LEMMA SameFile ==
  ASSUME IInv, UNCHANGED <<f, locking>>, j' \in [Processes -> Nat],
         \A p \in Processes : \/ j'[p] = j[p] /\ Written(p)' = Written(p)
                              \/ /\ j'[p] = j[p] + 1 /\ Written(p)' = 0
                                 /\ Written(p) = Length[p] + 1
  PROVE  WholeLines' /\ NothingLost'
<1>1. WholeLines'
  BY DEF IInv, WholeLines
<1>2. ASSUME NEW p \in Processes, NEW l \in 0..(Rounds - 1), NEW k \in 1..(Length[p] + 1)
      PROVE  (l < j[p] \/ (l = j[p] /\ k <= Written(p)))
               <=> (l < j'[p] \/ (l = j'[p] /\ k <= Written(p)'))
  <2>1. j[p] \in Nat /\ Length[p] \in Nat /\ l \in Int /\ k \in Int
    BY RoundsAssumption, LengthAssumption DEF IInv, TypeOK
  <2>2. CASE j'[p] = j[p] /\ Written(p)' = Written(p)
    BY <2>2
  <2>3. CASE j'[p] = j[p] + 1 /\ Written(p)' = 0 /\ Written(p) = Length[p] + 1
    BY <2>1, <2>3, RoundsAssumption
  <2> QED BY <2>2, <2>3
<1>3. NothingLost'
  BY <1>2 DEF IInv, NothingLost, Holds
<1> QED BY <1>1, <1>3

-----------------------------------------------------------------------------
(* One lemma for each step *)

LEMMA Moves ==
  ASSUME TypeOK, NEW p \in Processes, NEW from, NEW to \in Labels, Goto(p, from, to)
  PROVE  /\ pc[p] = from /\ pc'[p] = to
         /\ \A q \in Processes : q # p => pc'[q] = pc[q]
         /\ pc' \in [Processes -> Labels]
BY DEF TypeOK, Goto, Labels

\* Processes that stay outside their lines change nothing that is counted.
LEMMA OutsideIInv ==
  ASSUME IInv, UNCHANGED <<j, i, lock, f, locking>>, pc' \in [Processes -> Labels],
         NotYetForked',
         \A p \in Processes : pc'[p] = pc[p] \/ (pc[p] \in Outside /\ pc'[p] \in Outside)
  PROVE  IInv'
<1>1. TypeOK'
  BY DEF IInv, TypeOK, Labels
<1>2. LockHeld' /\ LinesLeft' /\ EndOfFile'
  BY DEF IInv, LockHeld, Inside, LinesLeft, EndOfFile, Outside, char
<1>3. \A p \in Processes : j'[p] = j[p] /\ Written(p)' = Written(p)
  BY DEF Written, Outside
<1>4. j' \in [Processes -> Nat]
  BY RoundsAssumption DEF IInv, TypeOK
<1>5. WholeLines' /\ NothingLost'
  BY <1>3, <1>4, SameFile
<1> QED BY <1>1, <1>2, <1>5 DEF IInv

LEMMA MainIInv == IInv /\ Main => IInv'
<1> SUFFICES ASSUME IInv, Main PROVE IInv'
  OBVIOUS
<1>1. CASE Fork
  BY <1>1, OutsideIInv DEF Fork, Main, IInv, TypeOK, NotYetForked, Labels, Outside, Processes
<1>2. CASE ForkFails \/ WaitPid
  <2>1. PICK from \in {"fork", "waitpid"} : Goto("parent", from, "exit")
    BY <1>2 DEF ForkFails, WaitPid
  <2>2. /\ pc["parent"] = from /\ pc'["parent"] = "exit" /\ pc'["child"] = pc["child"]
        /\ pc' \in [Processes -> Labels]
    BY <2>1, Moves DEF IInv, Labels, Processes
  <2> QED BY <1>2, <2>2, OutsideIInv
          DEF ForkFails, WaitPid, Main, NotYetForked, Labels, Outside, Processes
<1> QED BY <1>1, <1>2 DEF Main

LEMMA ForIInv == ASSUME IInv, NEW p \in Processes, For(p), UNCHANGED locking PROVE IInv'
<1>1. CASE j[p] < Rounds
  <2>1. /\ pc[p] = "for" /\ pc'[p] = "lock" /\ pc' \in [Processes -> Labels]
        /\ \A q \in Processes : q # p => pc'[q] = pc[q]
        /\ UNCHANGED <<j, i, lock, f>>
    BY <1>1, Moves DEF For, IInv, Labels
  <2>2. TypeOK' /\ NotYetForked'
    BY <2>1 DEF IInv, TypeOK, NotYetForked, Labels, Processes
  <2>3. LockHeld' /\ LinesLeft' /\ EndOfFile'
    BY <1>1, <2>1 DEF IInv, LockHeld, Inside, LinesLeft, EndOfFile, char
  <2>4. \A q \in Processes : j'[q] = j[q] /\ Written(q)' = Written(q)
    BY <2>1 DEF Written
  <2>5. j' \in [Processes -> Nat]
    BY <2>1, RoundsAssumption DEF IInv, TypeOK
  <2>6. WholeLines' /\ NothingLost'
    BY <2>1, <2>4, <2>5, SameFile
  <2> QED BY <2>2, <2>3, <2>6 DEF IInv
<1>2. CASE ~(j[p] < Rounds)
  <2>1. PICK to \in {"waitpid", "exit"} : Goto(p, "for", to)
    BY <1>2 DEF For
  <2>2. /\ pc[p] = "for" /\ pc'[p] = to /\ pc' \in [Processes -> Labels]
        /\ \A q \in Processes : q # p => pc'[q] = pc[q]
    BY <2>1, Moves DEF IInv, Labels
  <2>3. NotYetForked'
    BY <2>2 DEF IInv, NotYetForked, Processes
  <2> QED BY <2>2, <2>3, OutsideIInv DEF For, Outside, Labels
<1> QED BY <1>1, <1>2

LEMMA LockIInv == ASSUME IInv, NEW p \in Processes, Lock(p), UNCHANGED locking PROVE IInv'
<1>1. /\ pc[p] = "lock" /\ pc'[p] = "write" /\ pc' \in [Processes -> Labels]
      /\ \A q \in Processes : q # p => pc'[q] = pc[q]
      /\ i' = [i EXCEPT ![p] = 0] /\ UNCHANGED <<j, f>>
      /\ IF locking THEN lock = {} /\ lock' = {p} ELSE UNCHANGED lock
  BY Moves DEF Lock, IInv, Labels
<1>2. /\ i' \in [Processes -> Nat] /\ i'[p] = 0
      /\ \A q \in Processes : q # p => i'[q] = i[q]
  BY <1>1 DEF IInv, TypeOK
<1>3. TypeOK' /\ NotYetForked'
  BY <1>1, <1>2, LengthAssumption DEF IInv, TypeOK, NotYetForked, Labels, Processes
<1>4. LockHeld' /\ LinesLeft'
  BY <1>1 DEF IInv, LockHeld, Inside, LinesLeft
<1>5. EndOfFile'
  BY <1>1, <1>2 DEF IInv, EndOfFile, char
<1>6. \A q \in Processes : j'[q] = j[q] /\ Written(q)' = Written(q)
  BY <1>1, <1>2 DEF Written
<1>7. j' \in [Processes -> Nat]
  BY <1>1, RoundsAssumption DEF IInv, TypeOK
<1>8. WholeLines' /\ NothingLost'
  BY <1>1, <1>6, <1>7, SameFile
<1> QED BY <1>3, <1>4, <1>5, <1>8 DEF IInv

LEMMA UnlockIInv == ASSUME IInv, NEW p \in Processes, Unlock(p), UNCHANGED locking PROVE IInv'
<1>1. /\ pc[p] = "unlock" /\ pc'[p] = "for" /\ pc' \in [Processes -> Labels]
      /\ \A q \in Processes : q # p => pc'[q] = pc[q]
      /\ j' = [j EXCEPT ![p] = @ + 1] /\ lock' = lock \ {p} /\ UNCHANGED <<i, f>>
  BY Moves DEF Unlock, IInv, Labels
<1>2. /\ j' \in [Processes -> 0..Rounds] /\ j'[p] = j[p] + 1
      /\ \A q \in Processes : q # p => j'[q] = j[q]
  BY <1>1, RoundsAssumption DEF IInv, TypeOK, LinesLeft
<1>3. TypeOK' /\ NotYetForked'
  BY <1>1, <1>2 DEF IInv, TypeOK, NotYetForked, Labels, Processes
<1>4. LockHeld' /\ LinesLeft'
  BY <1>1, <1>2 DEF IInv, TypeOK, LockHeld, Inside, LinesLeft, Processes
<1>5. EndOfFile'
  BY <1>1, <1>2 DEF IInv, EndOfFile, char
<1>6. \A q \in Processes : \/ j'[q] = j[q] /\ Written(q)' = Written(q)
                           \/ /\ j'[q] = j[q] + 1 /\ Written(q)' = 0
                              /\ Written(q) = Length[q] + 1
  BY <1>1, <1>2 DEF Written
<1>7. j' \in [Processes -> Nat]
  BY <1>2, RoundsAssumption
<1>8. WholeLines' /\ NothingLost'
  BY <1>1, <1>6, <1>7, SameFile
<1> QED BY <1>3, <1>4, <1>5, <1>8 DEF IInv

-----------------------------------------------------------------------------
(* write(): one more character at the end of the file *)

LEMMA Appended ==
  ASSUME IInv, NEW p \in Processes, pc[p] = "write", f' = Append(f, char(p, i[p] + 1))
  PROVE  /\ f \in Seq(Chars) /\ char(p, i[p] + 1) \in Chars
         /\ f' \in Seq(Chars) /\ Len(f') = Len(f) + 1 /\ Len(f) \in Nat
         /\ DOMAIN f = 1..Len(f) /\ DOMAIN f' = 1..(Len(f) + 1)
         /\ \A k \in DOMAIN f : f'[k] = f[k]
         /\ f'[Len(f) + 1] = char(p, i[p] + 1)
<1>1. f \in Seq(Chars) /\ char(p, i[p] + 1) \in Chars
  BY RoundsAssumption DEF IInv, TypeOK, Chars, char
<1> QED BY <1>1, AppendProperties, LenProperties

LEMMA WriteTypes ==
  ASSUME IInv, NEW p \in Processes, pc[p] = "write", f' = Append(f, char(p, i[p] + 1))
  PROVE  \A k \in DOMAIN f' : f'[k].line < Rounds /\ f'[k].no \in 1..(Length[f'[k].by] + 1)
<1> SUFFICES ASSUME NEW k \in DOMAIN f'
             PROVE  f'[k].line < Rounds /\ f'[k].no \in 1..(Length[f'[k].by] + 1)
  OBVIOUS
<1>1. CASE k \in DOMAIN f
  BY <1>1, Appended DEF IInv, TypeOK
<1>2. CASE k = Len(f) + 1
  <2>1. f'[k] = [by |-> p, line |-> j[p], no |-> i[p] + 1]
    BY <1>2, Appended DEF char
  <2>2. j[p] < Rounds /\ i[p] \in Nat /\ i[p] <= Length[p] /\ Length[p] \in Nat
    BY LengthAssumption DEF IInv, TypeOK, LinesLeft
  <2> QED BY <2>1, <2>2
<1> QED BY <1>1, <1>2, Appended

LEMMA WriteWholeLines ==
  ASSUME IInv, NEW p \in Processes, pc[p] = "write", f' = Append(f, char(p, i[p] + 1)),
         UNCHANGED locking
  PROVE  WholeLines'
<1> SUFFICES ASSUME locking, NEW k \in DOMAIN f', f'[k].no > 1
             PROVE  k > 1 /\ f'[k - 1] = [f'[k] EXCEPT !.no = @ - 1]
  BY DEF WholeLines
<1>1. CASE k \in DOMAIN f
  BY <1>1, Appended DEF IInv, WholeLines
<1>2. CASE k = Len(f) + 1
  <2>1. i[p] > 0
    BY <1>2, Appended DEF char, IInv, TypeOK
  <2>2. f # <<>> /\ f[Len(f)] = char(p, i[p]) /\ Len(f) > 0
    BY <2>1, Appended DEF IInv, EndOfFile
  <2>3. Len(f) \in DOMAIN f
    BY <2>2, Appended
  <2>4. [char(p, i[p] + 1) EXCEPT !.no = @ - 1] = char(p, i[p])
    <3>1. i[p] \in Nat
      BY DEF IInv, TypeOK
    <3> QED BY <3>1 DEF char
  <2> QED BY <1>2, <2>2, <2>3, <2>4, Appended
<1> QED BY <1>1, <1>2, Appended

\* The new character is the next one of its process, and no other one's.
LEMMA WriteNothingLost ==
  ASSUME IInv, NEW p \in Processes, pc[p] = "write", f' = Append(f, char(p, i[p] + 1)),
         UNCHANGED j, Written(p)' = i[p] + 1,
         \A q \in Processes : q # p => Written(q)' = Written(q)
  PROVE  NothingLost'
<1>1. i[p] \in Nat /\ j[p] \in 0..(Rounds - 1) /\ Written(p) = i[p] /\ i[p] <= Length[p]
  BY RoundsAssumption DEF IInv, TypeOK, LinesLeft, Written
<1>2. ASSUME NEW q \in Processes, NEW l \in 0..(Rounds - 1), NEW k \in 1..(Length[q] + 1)
      PROVE  Holds(q, l, k)' <=> l < j'[q] \/ (l = j'[q] /\ k <= Written(q)')
  <2>1. Holds(q, l, k)' <=> Holds(q, l, k) \/ (q = p /\ l = j[p] /\ k = i[p] + 1)
    BY Appended DEF Holds, char
  <2>2. Holds(q, l, k) <=> l < j[q] \/ (l = j[q] /\ k <= Written(q))
    BY DEF IInv, NothingLost
  <2> QED BY <1>1, <2>1, <2>2, LengthAssumption
<1>3. ASSUME NEW q \in Processes, NEW m \in DOMAIN f', NEW n \in DOMAIN f',
             m < n, f'[m].by = q, f'[n].by = q
      PROVE  f'[m].line < f'[n].line \/ (f'[m].line = f'[n].line /\ f'[m].no < f'[n].no)
  <2>1. m \in DOMAIN f /\ f'[m] = f[m]
    BY <1>3, Appended
  <2>2. CASE n \in DOMAIN f
    BY <1>3, <2>1, <2>2, Appended DEF IInv, NothingLost
  <2>3. CASE n = Len(f) + 1
    <3>1. q = p /\ f'[n].line = j[p] /\ f'[n].no = i[p] + 1
      BY <1>3, <2>3, Appended DEF char
    <3>2. /\ f[m] = [by |-> p, line |-> f[m].line, no |-> f[m].no]
          /\ f[m].line \in 0..(Rounds - 1) /\ f[m].no \in 1..(Length[p] + 1)
      <4>1. f[m] \in Chars /\ f[m].by = p
        BY <1>3, <2>1, <3>1, Appended
      <4>2. f[m].line < Rounds /\ f[m].no \in 1..(Length[f[m].by] + 1)
        BY <2>1 DEF IInv, TypeOK
      <4> QED BY <4>1, <4>2, RoundsAssumption DEF Chars
    <3>3. Holds(p, f[m].line, f[m].no)
      BY <2>1, <3>2 DEF Holds
    <3>4. f[m].line < j[p] \/ (f[m].line = j[p] /\ f[m].no <= i[p])
      BY <1>1, <3>2, <3>3 DEF IInv, NothingLost
    <3> QED BY <1>1, <2>1, <3>1, <3>2, <3>4
  <2> QED BY <2>2, <2>3, Appended
<1> QED BY <1>2, <1>3 DEF NothingLost

LEMMA WriteIInv == ASSUME IInv, NEW p \in Processes, Write(p), UNCHANGED locking PROVE IInv'
<1>0. i \in [Processes -> Nat] /\ i[p] \in Nat /\ Length[p] \in Nat
  BY LengthAssumption DEF IInv, TypeOK
<1>1. CASE i[p] < Length[p]
  <2>1. /\ pc[p] = "write" /\ UNCHANGED <<pc, j, lock>> /\ f' = Append(f, char(p, i[p] + 1))
        /\ i' = [i EXCEPT ![p] = @ + 1]
    BY <1>0, <1>1 DEF Write
  <2>2. /\ i' \in [Processes -> Nat] /\ i'[p] = i[p] + 1
        /\ \A q \in Processes : q # p => i'[q] = i[q]
    BY <1>0, <2>1
  <2>3. f'[Len(f')] = char(p, i[p] + 1) /\ f' # <<>>
    BY <2>1, Appended
  <2>4. TypeOK'
    <3>1. \A q \in Processes : i'[q] <= Length[q]
      BY <1>0, <1>1, <2>2 DEF IInv, TypeOK
    <3>2. \A k \in DOMAIN f' : f'[k].line < Rounds /\ f'[k].no \in 1..(Length[f'[k].by] + 1)
      BY <2>1, WriteTypes
    <3> QED BY <2>1, <2>2, <3>1, <3>2, Appended DEF IInv, TypeOK, Chars
  <2>5. NotYetForked' /\ LockHeld' /\ LinesLeft'
    BY <2>1 DEF IInv, NotYetForked, LockHeld, Inside, LinesLeft
  <2>6. EndOfFile'
    <3> SUFFICES ASSUME locking', NEW q \in Processes, pc'[q] = "write", i'[q] > 0
                 PROVE  f' # <<>> /\ f'[Len(f')] = char(q, i[q])'
      BY DEF EndOfFile
    <3>1. q = p
      BY <2>1 DEF IInv, LockHeld, Inside
    <3> QED BY <2>1, <2>2, <2>3, <3>1 DEF char
  <2>7. Written(p)' = i[p] + 1 /\ \A q \in Processes : q # p => Written(q)' = Written(q)
    BY <2>1, <2>2 DEF Written
  <2>8. WholeLines' /\ NothingLost'
    BY <2>1, <2>7, WriteWholeLines, WriteNothingLost
  <2> QED BY <2>4, <2>5, <2>6, <2>8 DEF IInv
<1>2. CASE i[p] = Length[p]
  <2>1. /\ pc[p] = "write" /\ pc'[p] = "unlock" /\ pc' \in [Processes -> Labels]
        /\ \A q \in Processes : q # p => pc'[q] = pc[q]
        /\ UNCHANGED <<j, i, lock>> /\ f' = Append(f, char(p, i[p] + 1))
    <3>1. Goto(p, "write", "unlock") /\ UNCHANGED <<j, i, lock>>
          /\ f' = Append(f, char(p, i[p] + 1))
      BY <1>2, LengthAssumption DEF Write, newline
    <3> QED BY <3>1, Moves DEF IInv, Labels
  <2>2. TypeOK'
    <3>1. \A k \in DOMAIN f' : f'[k].line < Rounds /\ f'[k].no \in 1..(Length[f'[k].by] + 1)
      BY <2>1, WriteTypes
    <3> QED BY <2>1, <3>1, Appended DEF IInv, TypeOK, Chars, Labels
  <2>3. NotYetForked' /\ LockHeld' /\ LinesLeft'
    BY <2>1 DEF IInv, NotYetForked, LockHeld, Inside, LinesLeft, Processes
  <2>4. EndOfFile'
    BY <2>1 DEF IInv, EndOfFile, LockHeld, Inside
  <2>5. Written(p)' = i[p] + 1 /\ \A q \in Processes : q # p => Written(q)' = Written(q)
    BY <1>2, <2>1 DEF Written
  <2>6. WholeLines' /\ NothingLost'
    BY <2>1, <2>5, WriteWholeLines, WriteNothingLost
  <2> QED BY <2>2, <2>3, <2>4, <2>6 DEF IInv
<1> QED BY <1>1, <1>2 DEF Write

-----------------------------------------------------------------------------
LEMMA StutterIInv == IInv /\ UNCHANGED vars => IInv'
BY DEF IInv, TypeOK, NotYetForked, LockHeld, Inside, LinesLeft, EndOfFile, char, WholeLines,
   NothingLost, Holds, Written, vars

LEMMA NextIInv == IInv /\ [Next]_vars => IInv'
BY MainIInv, ForIInv, LockIInv, WriteIInv, UnlockIInv, StutterIInv DEF Next, Process

LEMMA Invariance == Spec => []IInv
BY InitIInv, NextIInv, PTL DEF Spec

\* The variables keep their types: no process writes more lines or characters
\* than it has.
THEOREM TypeCorrect == Spec => []TypeOK
<1>1. IInv => TypeOK
  BY DEF IInv
<1> QED BY <1>1, Invariance, PTL

\* With the lock the two texts never mix in a line, however long they are.
THEOREM WholeLinesHolds == Spec => []WholeLines
<1>1. IInv => WholeLines
  BY DEF IInv
<1> QED BY <1>1, Invariance, PTL

\* With and without the lock every character that was written is in the file,
\* once and in its process's order.
THEOREM NothingLostHolds == Spec => []NothingLost
<1>1. IInv => NothingLost
  BY DEF IInv
<1> QED BY <1>1, Invariance, PTL

-----------------------------------------------------------------------------
(* Refinement: the file implements the log of module Naplo *)

lines == [k \in LineEnds |-> [by |-> f[k].by, line |-> f[k].line]]

\* A process in the middle of a line has ended those before it, and no other.
LEMMA EndedBefore ==
  ASSUME IInv, NEW p \in Processes, pc[p] = "write"
  PROVE  Log!LinesOf(p) = 0..(j[p] - 1)
<1>1. f \in Seq(Chars) /\ \A k \in DOMAIN f : f[k] \in Chars
  <2>1. f \in Seq(Chars)
    BY DEF IInv, TypeOK, Chars
  <2> QED BY <2>1, LenProperties
<1>2. /\ j[p] \in 0..(Rounds - 1) /\ i[p] \in Nat /\ i[p] <= Length[p] /\ Length[p] \in Nat
      /\ Written(p) = i[p]
  BY RoundsAssumption, LengthAssumption DEF IInv, TypeOK, LinesLeft, Written
<1>3. \A l : l \in Log!LinesOf(p) <=> \E k \in LineEnds : f[k].by = p /\ f[k].line = l
  BY DEF Log!LinesOf
<1>4. ASSUME NEW k \in LineEnds, f[k].by = p PROVE f[k].line \in 0..(j[p] - 1)
  <2>1. /\ k \in DOMAIN f /\ f[k] \in Chars
        /\ f[k].no > Length[p] /\ f[k].no \in 1..(Length[p] + 1) /\ f[k].line < Rounds
    BY <1>1, <1>4 DEF LineEnds, IInv, TypeOK
  <2>2. f[k].no = Length[p] + 1 /\ f[k].line \in 0..(Rounds - 1)
    BY <1>2, <2>1, RoundsAssumption DEF Chars
  <2>3. Holds(p, f[k].line, f[k].no)
    BY <1>4, <2>1 DEF Holds, Chars
  <2>4. f[k].line < j[p] \/ (f[k].line = j[p] /\ f[k].no <= i[p])
    BY <1>2, <2>1, <2>2, <2>3 DEF IInv, NothingLost
  <2> QED BY <1>2, <2>1, <2>2, <2>4
<1>5. ASSUME NEW l \in 0..(j[p] - 1)
      PROVE  \E k \in LineEnds : f[k].by = p /\ f[k].line = l
  <2>1. l \in 0..(Rounds - 1) /\ l < j[p] /\ Length[p] + 1 \in 1..(Length[p] + 1)
    BY <1>2, RoundsAssumption
  <2>2. Holds(p, l, Length[p] + 1)
    BY <2>1 DEF IInv, NothingLost
  <2>3. PICK k \in DOMAIN f : f[k] = [by |-> p, line |-> l, no |-> Length[p] + 1]
    BY <2>2 DEF Holds
  <2> QED BY <1>2, <2>3 DEF LineEnds
<1> QED BY <1>3, <1>4, <1>5

\* A character that does not end the line changes no line, a newline adds one.
LEMMA WriteRefines ==
  ASSUME IInv, NEW p \in Processes, Write(p)
  PROVE  lines' = lines \/ Log!Add(p)
<1>1. /\ i[p] \in Nat /\ Length[p] \in Nat /\ Length \in [Processes -> Nat]
      /\ pc[p] = "write" /\ f' = Append(f, char(p, i[p] + 1)) /\ i[p] <= Length[p]
  BY LengthAssumption DEF IInv, TypeOK, Write, Goto, newline
<1>2. f'[Len(f) + 1] = [by |-> p, line |-> j[p], no |-> i[p] + 1]
  BY <1>1, Appended DEF char
<1>3. CASE i[p] < Length[p]
  <2>1. LineEnds' = LineEnds
    BY <1>1, <1>2, <1>3, Appended DEF LineEnds
  <2>2. \A k \in LineEnds : f'[k] = f[k]
    BY <1>1, Appended DEF LineEnds
  <2> QED BY <2>1, <2>2 DEF lines
<1>4. CASE i[p] = Length[p]
  <2> DEFINE end == Len(f) + 1
  <2> DEFINE line == [by |-> p, line |-> j[p]]
  <2>1. LineEnds' = LineEnds \cup {end}
    BY <1>1, <1>2, <1>4, Appended DEF LineEnds
  <2>2. \A k \in LineEnds : f'[k] = f[k] /\ k < end
    BY <1>1, Appended DEF LineEnds
  <2>3. [by |-> f'[end].by, line |-> f'[end].line] = line
    BY <1>2
  <2>4. lines' = [k \in DOMAIN lines \cup {end} |-> IF k = end THEN line ELSE lines[k]]
    BY <2>1, <2>2, <2>3 DEF lines
  <2>5. end \in DOMAIN lines' /\ \A k \in DOMAIN lines : k < end
    BY <2>1, <2>2 DEF lines
  <2>6. Log!LinesOf(p) = 0..(j[p] - 1) /\ j[p] \in 0..(Rounds - 1)
    BY <1>1, EndedBefore, RoundsAssumption DEF IInv, TypeOK, LinesLeft
  <2> HIDE DEF end
  <2> QED BY <2>4, <2>5, <2>6 DEF Log!Add, lines
<1> QED BY <1>1, <1>3, <1>4

LEMMA StepRefines == ASSUME IInv, [Next]_vars PROVE [Log!Next]_lines
<1>1. CASE UNCHANGED f
  BY <1>1 DEF lines, LineEnds
<1>2. ASSUME NEW p \in Processes, Write(p) PROVE [Log!Next]_lines
  BY <1>2, WriteRefines DEF Log!Next
<1> QED BY <1>1, <1>2 DEF Next, Main, Fork, ForkFails, WaitPid, Process, For, Lock, Unlock, vars

\* The file is an append-only log: whole lines are added at its end, those of
\* each process in their order, and none is taken back or changed.
THEOREM ImplementsLog == Spec => LogSpec
<1>1. Init => Log!Init
  BY DEF Init, Log!Init, LineEnds
<1>2. IInv /\ [Next]_vars
        => [Log!Next]_([k \in LineEnds |-> [by |-> f[k].by, line |-> f[k].line]])
  BY StepRefines DEF lines
<1> QED BY <1>1, <1>2, Invariance, PTL DEF Spec, LogSpec, Log!Spec
=============================================================================
