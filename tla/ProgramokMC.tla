---------------------------- MODULE ProgramokMC -----------------------------
(***************************************************************************)
(* The programs that use System V IPC, for TLC.  Each makes its keys from   *)
(* its own path, so that programs do not meet: a behaviour is that of one   *)
(* program, run MaxRuns times, and a property of the same name in several  *)
(* modules is one property here.                                            *)
(***************************************************************************)
EXTENDS ZhIpc

CONSTANTS Programs, Answers, Points, Lines, MaxLines, Numbers

ASSUME MaxLinesAssumption == MaxLines \in Nat
ASSUME NumbersAssumption == "unset" \notin Numbers    \* a variable without a value

VARIABLE program

allVars == <<vars, program>>

V == INSTANCE Vetelkedo
E == INSTANCE Ejtoernyo WITH MaxRuns <- MaxRuns + 1
T == INSTANCE Teams
TK == INSTANCE Tajekoztato
TK19 == INSTANCE Tajekoztato19
U == INSTANCE Uzenet2 WITH MaxRuns <- MaxRuns + 1
S == INSTANCE Szemafor WITH Named <- FALSE, MaxRuns <- MaxRuns + 1
PS == INSTANCE Szemafor WITH Named <- TRUE, MaxRuns <- MaxRuns + 1
S2 == INSTANCE Szemafor2
U1 == INSTANCE Uzenet WITH MaxRuns <- MaxRuns + 1
MQ == INSTANCE MqUzenet
O == INSTANCE Osztmem
PO == INSTANCE PollCso

Is(p) == program = p
IsPoll == program \in {"poll_cso", "sel_cso", "ppoll"}

Init ==
  /\ program \in Programs
  /\ Is("vetelkedo") => V!Init
  /\ Is("ejtoernyo") => E!Init
  /\ Is("teams") => T!Init
  /\ Is("tajekoztato") => TK!Init
  /\ Is("tajekoztato19") => TK19!Init
  /\ Is("uzenet2") => U!Init
  /\ Is("szemafor") => S!Init
  /\ Is("pos_szemafor") => PS!Init
  /\ Is("szemafor2") => S2!Init
  /\ Is("uzenet") => U1!Init
  /\ Is("mq_uzenet") => MQ!Init
  /\ Is("osztmem") => O!Init
  /\ IsPoll => PO!Init

Next ==
  /\ \/ Is("vetelkedo") /\ V!Next
     \/ Is("ejtoernyo") /\ E!Next
     \/ Is("teams") /\ T!Next
     \/ Is("tajekoztato") /\ TK!Next
     \/ Is("tajekoztato19") /\ TK19!Next
     \/ Is("uzenet2") /\ U!Next
     \/ Is("szemafor") /\ S!Next
     \/ Is("pos_szemafor") /\ PS!Next
     \/ Is("szemafor2") /\ S2!Next
     \/ Is("uzenet") /\ U1!Next
     \/ Is("mq_uzenet") /\ MQ!Next
     \/ Is("osztmem") /\ O!Next
     \/ IsPoll /\ PO!Next
  /\ UNCHANGED program

-----------------------------------------------------------------------------
(* Fairness: every process and the delivery of signals go on; nobody has to *)
(* start a run.  program never changes, so each formula is about one program.  *)
(* A waiting semop is served before a later one, so the parent of szemafor2   *)
(* gets the semaphore although its child asks for it again and again.          *)

Main ==
  \/ Is("vetelkedo") /\ V!Main
  \/ Is("ejtoernyo") /\ E!Main
  \/ Is("teams") /\ T!Main
  \/ Is("tajekoztato") /\ TK!Main
  \/ Is("tajekoztato19") /\ TK19!Main
  \/ Is("uzenet2") /\ U!Main
  \/ Is("szemafor") /\ S!Main
  \/ Is("pos_szemafor") /\ PS!Main
  \/ Is("szemafor2") /\ S2!Main
  \/ Is("uzenet") /\ U1!Main
  \/ Is("mq_uzenet") /\ MQ!Main
  \/ Is("osztmem") /\ O!Main
  \/ IsPoll /\ PO!Main

FirstChild ==
  \/ Is("vetelkedo") /\ V!firstPlayer
  \/ Is("ejtoernyo") /\ E!student
  \/ Is("teams") /\ T!teacher
  \/ Is("tajekoztato") /\ TK!policeOfficer
  \/ Is("tajekoztato19") /\ TK19!policeOfficer
  \/ Is("uzenet2") /\ U!gyerek
  \/ Is("szemafor") /\ S!child
  \/ Is("pos_szemafor") /\ PS!child
  \/ Is("szemafor2") /\ S2!child
  \/ Is("uzenet") /\ U1!gyerek
  \/ Is("mq_uzenet") /\ MQ!mq_send
  \/ Is("osztmem") /\ O!child1
  \/ IsPoll /\ PO!child

SecondChild ==
  \/ Is("vetelkedo") /\ V!secPlayer
  \/ Is("teams") /\ T!student
  \/ Is("tajekoztato") /\ TK!chiefMedicalOfficer
  \/ Is("tajekoztato19") /\ TK19!chiefMedicalOfficer

Fairness ==
  /\ WF_allVars(Main /\ UNCHANGED program)
  /\ WF_allVars(FirstChild /\ UNCHANGED program)
  /\ WF_allVars(SecondChild /\ UNCHANGED program)
  /\ WF_allVars(Deliver /\ UNCHANGED ipc /\ UNCHANGED program)
  /\ SF_allVars(Is("szemafor2") /\ S2!parent /\ UNCHANGED program)

Spec == Init /\ [][Next]_allVars /\ Fairness

-----------------------------------------------------------------------------
(* Properties *)

TypeOK ==
  /\ Is("vetelkedo") => V!TypeOK
  /\ Is("ejtoernyo") => E!TypeOK
  /\ Is("teams") => T!TypeOK
  /\ Is("tajekoztato") => TK!TypeOK
  /\ Is("tajekoztato19") => TK19!TypeOK
  /\ Is("uzenet2") => U!TypeOK
  /\ Is("szemafor") => S!TypeOK
  /\ Is("pos_szemafor") => PS!TypeOK
  /\ Is("szemafor2") => S2!TypeOK
  /\ Is("uzenet") => U1!TypeOK
  /\ Is("mq_uzenet") => MQ!TypeOK
  /\ Is("osztmem") => O!TypeOK
  /\ IsPoll => PO!TypeOK

\* What is in shared memory is used by one process at a time, also by a
\* process that finds its semaphore removed.
Exclusion ==
  /\ Is("vetelkedo") => V!Exclusion
  /\ Is("ejtoernyo") => E!Exclusion
  /\ Is("teams") => T!Exclusion
  /\ Is("tajekoztato") => TK!Exclusion
  /\ Is("szemafor2") => S2!Exclusion

\* Nobody uses a semaphore, a queue or a memory after main has removed it,
\* except in the programs whose main waits for one of two children; and a FIFO
\* with a name is removed in the end, whoever comes first.
NoUseAfterRemoval ==
  /\ Is("ejtoernyo") => E!NoUseAfterRemoval
  /\ Is("teams") => T!NoUseAfterRemoval
  /\ Is("tajekoztato19") => TK19!NoUseAfterRemoval
  /\ Is("uzenet2") => U!NoUseAfterRemoval
  /\ Is("szemafor") => S!NoUseAfterRemoval
  /\ Is("pos_szemafor") => PS!NoUseAfterRemoval
  /\ Is("szemafor2") => S2!NoUseAfterRemoval
  /\ Is("uzenet") => U1!NoUseAfterRemoval
  /\ Is("mq_uzenet") => MQ!NoUseAfterRemoval
  /\ Is("osztmem") => O!NoUseAfterRemoval
  /\ IsPoll => PO!NameRemoved

\* Nothing is answered before it was asked, by whatever way the question went,
\* and no number is repeated before it was said.
InOrder ==
  /\ Is("ejtoernyo") => E!NeverAhead
  /\ Is("teams") => T!InOrder
  /\ Is("tajekoztato") => TK!InOrder
  /\ Is("tajekoztato19") => TK19!InOrder

\* What the children had to write is in shared memory at the end.
KeptAtTheEnd ==
  /\ Is("vetelkedo") => V!KeptAtTheEnd
  /\ Is("tajekoztato") => TK!KeptAtTheEnd

\* The quiz: this game's answers are judged, each as that player's.
VerdictDeserved == Is("vetelkedo") => V!VerdictDeserved

\* What a process takes from the queue, the memory or the FIFO was meant for it:
\* two message types keep the directions of one queue apart, a notification
\* comes with the message, and the child prints what the parent has written.
ReadsWhatWasMeant ==
  /\ Is("uzenet2") => U!FromTheOther
  /\ Is("uzenet") => U1!FromTheParent
  /\ Is("mq_uzenet") => MQ!FromTheChild
  /\ Is("szemafor") => S!ReadsTheText
  /\ Is("pos_szemafor") => PS!ReadsTheText
  /\ IsPoll => PO!ReadsTheNumber

\* Every run ends, with all processes, or it is interrupted.  What else can
\* happen: the signals are merged into one, a process of the parachute jump has
\* taken its own message, or a fork has failed and one process is left alone.
Stuck ==
  \/ Is("vetelkedo") /\ V!Stuck
  \/ Is("ejtoernyo") /\ E!Stuck
  \/ Is("teams") /\ T!Stuck
  \/ Is("tajekoztato") /\ TK!Stuck
  \/ Is("tajekoztato19") /\ TK19!Stuck
LeftAlone ==
  \/ Is("vetelkedo") /\ LeftBehind("firstPlayer", "question")
  \/ Is("teams") /\ LeftBehind("teacher", "msgrcv")
  \/ Is("tajekoztato") /\ LeftBehind("policeOfficer", "read")
  \/ Is("tajekoztato19") /\ LeftBehind("policeOfficer", "read")
  \/ IsPoll /\ PO!LeftAlone
Ends == []<>(AllOver \/ Stuck \/ LeftAlone)

(***************************************************************************)
(* What messages of the source say; see the modules of the programs.       *)
(***************************************************************************)
MessageFromInstructor == E!MessageFromInstructor
BothJoin == T!BothJoin
=============================================================================
