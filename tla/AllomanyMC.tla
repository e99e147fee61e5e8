----------------------------- MODULE AllomanyMC -----------------------------
(***************************************************************************)
(* The programs of one process that work on a file, for TLC: struktura.c   *)
(* and the four programs of Masolas.  A behaviour is that of one program.  *)
(***************************************************************************)
EXTENDS Integers, SequencesExt

CONSTANTS Programs, Buffer, Disk, Exps, MaxRecords, MaxRuns, MaxFailed

\* The experience of a driver is read with %u.
ASSUME ExpsAssumption == Exps \subseteq Nat

ASSUME BoundsAssumption == MaxRecords \in Nat /\ MaxRuns \in Nat /\ MaxFailed \in Nat

\* A line buffer holds a character and the 0 after it (100 and 160 in the code).
ASSUME BufferAssumption == Buffer \in Nat /\ Buffer >= 2

ASSUME DiskAssumption == Disk \in Nat

VARIABLES
  program, pc, file, pos,                  \* of all programs
  kind, feof, c, out,                      \* of Masolas
  run, id, a, recs, seen, plain, intact, failed    \* of Struktura

masolasVars == <<kind, feof, c, out>>
strukturaVars == <<run, id, a, recs, seen, plain, intact, failed>>
allVars == <<program, pc, file, pos, masolasVars, strukturaVars>>

\* All texts of up to four characters
Texts == SeqOf({"x", "over", "newline", "0xFF"}, 4)

\* What is typed: a word, as -4, with a blank, as -3, or a phone number of one
\* or two numbers
Names == {<<-4>>, <<-4, -3, -4>>}
Emails == {<<-4>>, <<-4, -3, -4>>}
Phones == {<<6>>, <<6, -3, 30>>}

ST == INSTANCE Struktura
M == INSTANCE Masolas

Is(p) == program = p

Init ==
  \/ /\ "struktura" \in Programs /\ program = "struktura" /\ ST!Init
     /\ kind = "file" /\ feof = FALSE /\ c = <<>> /\ out = <<>>
  \/ /\ M!Init /\ ~Is("struktura")
     /\ run = 0 /\ id = 1 /\ a = ST!NoRecord /\ recs = <<>> /\ seen = <<>>
     /\ plain = TRUE /\ intact = 0 /\ failed = 0

Next ==
  /\ \/ Is("struktura") /\ ST!Next /\ UNCHANGED masolasVars
     \/ ~Is("struktura") /\ M!Next /\ UNCHANGED strukturaVars
  /\ UNCHANGED program

\* A program goes on when it waits for nobody to type: id_setup() of struktura.c,
\* and the programs of Masolas, whose text is all there.
GoesOn ==
  /\ \/ Is("struktura") /\ ST!id_setup /\ UNCHANGED masolasVars
     \/ ~Is("struktura") /\ M!Next /\ UNCHANGED strukturaVars
  /\ UNCHANGED program

Spec == Init /\ [][Next]_allVars /\ WF_allVars(GoesOn)

-----------------------------------------------------------------------------
(* Properties *)

TypeOK == IF Is("struktura") THEN ST!TypeOK ELSE M!TypeOK

\* The ids in the records of the drivers increase, over all runs.
IdsIncrease == Is("struktura") => ST!IdsIncrease

\* What is read is what was written, complete and no more: the records by
\* id_setup(), a file by the loops that copy or print it.
ReadAsWritten == IF Is("struktura") THEN ST!ReadsBack ELSE M!WrittenAsRead

\* Every loop that reads a file ends.
Ends == []<>(IF Is("struktura") THEN ST!SetupOver ELSE M!LoopOver)

(***************************************************************************)
(* What a comment of the source says; see Struktura.                       *)
(***************************************************************************)
UniqueIds == ST!UniqueIds
=============================================================================
