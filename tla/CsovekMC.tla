------------------------------ MODULE CsovekMC ------------------------------
(***************************************************************************)
(* The programs that use pipes and no System V IPC, for TLC.  A behaviour  *)
(* is one run of one program, and a property of the same name in several   *)
(* modules is one property here.                                            *)
(***************************************************************************)
EXTENDS Zh, FiniteSets

CONSTANTS Programs, Counts, Numbers, Parties, MaxNumbers, MaxTyped

ASSUME CountsAssumption == Counts \subseteq Int       \* what atoi() gives
ASSUME NumbersAssumption == Numbers \subseteq Nat     \* what rand() gives
ASSUME PartiesAssumption == IsFiniteSet(Parties)
ASSUME BoundsAssumption == MaxNumbers \in Nat /\ MaxTyped \in Nat

VARIABLE program

\* atoi() may give none and a negative number as well.
UpToTwo == {-1, 0, 1, 2}

\* Typed into nevcso2.c: a number, and something that ends with "over"
Messages == {<<"1">>, <<"1", "over">>}

allVars == <<zhVars, program>>

SZ == INSTANCE Szavazas WITH Ids <- Numbers
CC == INSTANCE ChildCommunications
KSZ == INSTANCE KozosSzamlalas
PS == INSTANCE PipeStruct
P == INSTANCE Pipe
P2M == INSTANCE Pipe2Mashogy
N == INSTANCE Nevcso

Is(p) == program = p
IsPipe == program \in {"pipe", "pipe2", "pipe3"}
IsFifo == program \in {"nevcso", "nevcso_mashogy", "nevcso2"}

Init ==
  /\ program \in Programs
  /\ Is("szavazas") => SZ!Init
  /\ Is("child_communications") => CC!Init
  /\ Is("kozos_szamlalas") => KSZ!Init
  /\ Is("pipe_struct") => PS!Init
  /\ IsPipe => P!Init
  /\ Is("pipe2_mashogy") => P2M!Init
  /\ IsFifo => N!Init

Next ==
  /\ \/ Is("szavazas") /\ SZ!Next
     \/ Is("child_communications") /\ CC!Next
     \/ Is("kozos_szamlalas") /\ KSZ!Next
     \/ Is("pipe_struct") /\ PS!Next
     \/ IsPipe /\ P!Next
     \/ Is("pipe2_mashogy") /\ P2M!Next
     \/ IsFifo /\ N!Next
  /\ UNCHANGED program

\* Every process and the delivery of signals go on.  program never changes, so
\* each formula is about one program.
Main ==
  \/ Is("szavazas") /\ (SZ!Setup \/ SZ!elnok)
  \/ Is("child_communications") /\ CC!Main
  \/ Is("kozos_szamlalas") /\ KSZ!Main
  \/ Is("pipe_struct") /\ PS!Main
  \/ IsPipe /\ P!Main
  \/ Is("pipe2_mashogy") /\ P2M!Main
  \/ IsFifo /\ N!Main

FirstChild ==
  \/ Is("szavazas") /\ SZ!ellenorzo_tag
  \/ Is("child_communications") /\ CC!child_1
  \/ Is("kozos_szamlalas") /\ KSZ!child
  \/ Is("pipe_struct") /\ PS!child
  \/ IsPipe /\ P!child
  \/ Is("pipe2_mashogy") /\ P2M!child
  \/ IsFifo /\ N!child

SecondChild ==
  \/ Is("szavazas") /\ SZ!pecsetelo_tag
  \/ Is("child_communications") /\ CC!child_2

Fairness ==
  /\ WF_allVars(Main /\ UNCHANGED program)
  /\ WF_allVars(FirstChild /\ UNCHANGED program)
  /\ WF_allVars(SecondChild /\ UNCHANGED program)
  /\ WF_allVars(Deliver /\ UNCHANGED program)

Spec == Init /\ [][Next]_allVars /\ Fairness

-----------------------------------------------------------------------------
(* Properties *)

TypeOK ==
  /\ Is("szavazas") => SZ!TypeOK
  /\ Is("child_communications") => CC!TypeOK
  /\ Is("kozos_szamlalas") => KSZ!TypeOK
  /\ Is("pipe_struct") => PS!TypeOK
  /\ IsPipe => P!TypeOK
  /\ Is("pipe2_mashogy") => P2M!TypeOK
  /\ IsFifo => N!TypeOK

\* Every read() from a pipe meets an item of the size it asks for and never the
\* end of the file; from a FIFO, where items run together, what it gives ends
\* in the buffer.
Framed ==
  /\ Is("szavazas") => SZ!Framed
  /\ Is("pipe_struct") => PS!Framed
  /\ IsPipe => P!Framed
  /\ IsFifo => N!Framed

\* What goes through the pipes arrives complete and in order.
InOrder ==
  /\ Is("szavazas") => SZ!InOrder
  /\ Is("child_communications") => CC!InOrder
  /\ Is("kozos_szamlalas") => KSZ!InOrder
  /\ IsPipe => P!InOrder
  /\ Is("pipe2_mashogy") => P2M!InOrder
  /\ IsFifo => N!InOrder

\* The election: every voter is counted, and every vote.
EveryoneCounted == Is("szavazas") => SZ!EveryVoterCounted /\ SZ!EveryVoteCounted

\* Every program ends with all its processes, however few writes a pipe holds.
\* What else can happen: an election gets stuck, an "over" is lost in a FIFO, or
\* a fork has failed and one process is left alone.
Stuck ==
  \/ Is("szavazas") /\ SZ!Stuck
  \/ IsFifo /\ N!Stuck
LeftAlone ==
  \/ Is("szavazas") /\ LeftBehind("ellenorzo_tag", "read_count")
  \/ Is("child_communications") /\ LeftBehind("child_1", "start")
  \/ IsFifo /\ N!LeftAlone
Ends == []<>(AllOver \/ Stuck \/ LeftAlone)
=============================================================================
