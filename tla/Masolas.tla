------------------------------- MODULE Masolas ------------------------------
(***************************************************************************)
(* The programs of 1.Gyak that read a file to its end and write what they   *)
(* read: file.c (a copy by read and write), fopen_readwrite.c (a copy by     *)
(* fgetc and fputc), feladat.c (lines from the keyboard into a file) and     *)
(* open_fopen.c (a file printed in three ways).  Each tests the end of its   *)
(* input in another way.                                                     *)
(***************************************************************************)
EXTENDS Integers, SequencesExt, FiniteSetsExt

CONSTANTS
  Programs,    \* the programs to run
  Texts,       \* what is in the file, or typed
  Buffer,      \* the size of a line buffer
  Disk         \* the characters that fit on the disk

\* Characters: "x" and "y" for any two, and those a program looks at
Characters == {"x", "y", "over", "newline", "0xFF"}

VARIABLES
  program,    \* which of the programs it is
  kind,       \* file.c: the first argument is a file, the second one, or a directory
  pc,
  file,       \* what is read
  pos,        \* the position in it
  feof,       \* the end of file indicator
  c,          \* the character or line read last
  out         \* what has been written or, in open_fopen.c, printed by one function

vars == <<program, kind, pc, file, pos, feof, c, out>>

Is(p) == program = p

\* What an uninitialised character or line may hold
Garbage == {<<"y">>}
GarbageLine == {<<>>, <<"y">>}

Init ==
  /\ program \in Programs /\ kind \in {"file", "same", "directory"}
  /\ kind # "file" => Is("file")
  /\ pc = "open" /\ file \in Texts /\ pos = 1 /\ feof = FALSE
  /\ c \in (IF Is("feladat") \/ Is("open_fopen") THEN GarbageLine ELSE Garbage)
  /\ out = <<>>

AtEnd == pos > Len(file)

Goto(from, to) == pc = from /\ pc' = to

\* One character from the file into c
Next1 == c' = <<file[pos]>> /\ pos' = pos + 1

-----------------------------------------------------------------------------
(* Output *)

\* write(): when not everything fits, what does is written and the program ends.
Write(from, to) ==
  /\ IF Len(out) + Len(c) <= Disk
       THEN Goto(from, to) /\ out' = out \o c
       ELSE Goto(from, "failed") /\ out' = out \o SubSeq(c, 1, Disk - Len(out))
  /\ UNCHANGED <<program, kind, file, pos, feof, c>>

\* fputc(), whose failure nobody looks at
fputc(from, to) ==
  /\ Goto(from, to)
  /\ out' = IF Len(out) < Disk THEN out \o c ELSE out
  /\ UNCHANGED <<program, kind, file, pos, feof, c>>

\* printf() of what is in c by then
Printed == out' = out \o c'

-----------------------------------------------------------------------------
(* file.c and fopen_readwrite.c *)

\* open(O_TRUNC) of the second argument empties the first one if it is the same.
Open(p, to) ==
  /\ Is(p) /\ Goto("open", to)
  /\ file' = IF kind = "same" THEN <<>> ELSE file
  /\ UNCHANGED <<program, kind, pos, feof, c, out>>

\* A slip: the last character is left out.
ReadHasty(from, to, end) ==
  /\ IF pos >= Len(file) THEN Goto(from, end) /\ UNCHANGED <<c, pos>> ELSE Goto(from, to) /\ Next1
  /\ UNCHANGED <<program, kind, file, feof, out>>

\* while (read(f, &c, 1)): an error, which is what a directory gives, is not 0
\* and leaves c as it is.
Read(from, to, end) ==
  /\ CASE kind = "directory" -> Goto(from, to) /\ UNCHANGED <<c, pos>>
       [] kind # "directory" /\ AtEnd -> Goto(from, end) /\ UNCHANGED <<c, pos>>
       [] OTHER -> Goto(from, to) /\ Next1
  /\ UNCHANGED <<program, kind, file, feof, out>>

\* while ((c = fgetc(f)) != EOF) with a char c: 0xFF is EOF as well.
fgetc ==
  /\ IF AtEnd \/ file[pos] = "0xFF"
       THEN Goto("fgetc", "done") /\ UNCHANGED <<c, pos>>
       ELSE Goto("fgetc", "fputc") /\ Next1
  /\ UNCHANGED <<program, kind, file, feof, out>>

copy == Open("file", "read") \/ Read("read", "write", "done") \/ Write("write", "read")

copy_stdio == Open("fopen_readwrite", "fgetc") \/ fgetc \/ fputc("fputc", "fgetc")

-----------------------------------------------------------------------------
(* feladat.c and open_fopen.c *)

\* fgets(): up to a newline, the end of the file or a full buffer; at the end
\* of the file the buffer keeps what it holds.  feof is set when the end was met.
fgets ==
  LET last == Min({k \in pos..Len(file) : file[k] = "newline"}
                  \cup {Len(file), pos + Buffer - 2})
  IN  IF AtEnd THEN feof' = TRUE /\ UNCHANGED <<c, pos>>
      ELSE /\ c' = SubSeq(file, pos, last) /\ pos' = last + 1
           /\ feof' = (Len(c') < Buffer - 1 /\ Last(c') # "newline")

Fgets(from, to) == Goto(from, to) /\ fgets /\ UNCHANGED <<program, kind, file, out>>

OverLine == <<"over", "newline">>

\* do { fgets; write } while (strcmp(s, "over\n") != 0)
feladat ==
  \/ Open("feladat", "fgets")
  \/ Fgets("fgets", "write_line")
  \/ Write("write_line", "while")
  \/ /\ Goto("while", IF c = OverLine THEN "done" ELSE "fgets")
     /\ UNCHANGED <<program, kind, file, pos, feof, c, out>>

\* The next function of open_fopen.c opens the file again.
Reopen(from, to) ==
  /\ Goto(from, to)
  /\ pos' = 1 /\ feof' = FALSE /\ out' = <<>> /\ c' \in Garbage
  /\ UNCHANGED <<program, kind, file>>

\* while (!feof(f)) { fgets; printf }
use_fopen_text ==
  /\ IF feof THEN Goto("text", "text_end") /\ UNCHANGED <<c, pos, feof, out>>
             ELSE Goto("text", "text") /\ fgets /\ Printed
  /\ UNCHANGED <<program, kind, file>>

\* while (read(f, &c, 1)) printf
use_open_bin ==
  /\ IF AtEnd THEN Goto("open_bin", "open_bin_end") /\ UNCHANGED <<c, pos, out>>
              ELSE Goto("open_bin", "open_bin") /\ Next1 /\ Printed
  /\ UNCHANGED <<program, kind, file, feof>>

\* while (!feof(f)) { fread; printf }
use_fopen_bin ==
  /\ CASE feof -> Goto("fopen_bin", "fopen_bin_end") /\ UNCHANGED <<c, pos, feof, out>>
       [] ~feof /\ AtEnd -> Goto("fopen_bin", "fopen_bin") /\ feof' = TRUE /\ UNCHANGED <<c, pos>> /\ Printed
       [] ~feof /\ ~AtEnd -> Goto("fopen_bin", "fopen_bin") /\ Next1 /\ Printed /\ UNCHANGED feof
  /\ UNCHANGED <<program, kind, file>>

open_fopen ==
  \/ Open("open_fopen", "text")
  \/ use_fopen_text \/ Reopen("text_end", "open_bin")
  \/ use_open_bin \/ Reopen("open_bin_end", "fopen_bin")
  \/ use_fopen_bin \/ Reopen("fopen_bin_end", "done")

Next == copy \/ copy_stdio \/ feladat \/ open_fopen

Spec == Init /\ [][Next]_vars /\ WF_vars(Next)

-----------------------------------------------------------------------------
(* Properties *)

Labels == {"open", "read", "write", "fgetc", "fputc", "fgets", "write_line", "while", "text",
           "text_end", "open_bin", "open_bin_end", "fopen_bin", "fopen_bin_end", "done", "failed"}

TypeOK ==
  /\ pc \in Labels /\ pos \in 1..Len(file) + 1
  /\ Len(c) < Buffer /\ ToSet(c) \cup ToSet(out) \subseteq Characters
  /\ program # "open_fopen" => Len(out) <= Disk

Consumed == SubSeq(file, 1, pos - 1)

\* What is written is what was read, to the last character and no more.  The
\* exceptions are those of the loops: a full disk, which keeps the beginning, in
\* the middle of a line too, a byte 0xFF, a file copied to itself or a directory
\* (which is never done), "over" at the end of a line that is longer than the
\* buffer, and the last line or character, which feladat.c writes and open_fopen.c
\* prints again when it finds the end of the file one step late.
WrittenAsRead ==
  /\ Is("file") /\ pc = "done" =>
       kind # "directory" /\ out = file
  /\ Is("file") /\ pc = "failed" /\ kind = "file" => Len(out) = Disk /\ IsPrefix(out, file)
  /\ Is("fopen_readwrite") =>
       /\ IsPrefix(out, file) /\ "0xFF" \notin ToSet(out)
       /\ pc = "done" => out = Consumed \/ Len(out) = Disk
       /\ pc = "done" => AtEnd \/ file[pos] = "0xFF"
  /\ Is("feladat") /\ pc = "done" => IsSuffix(OverLine, out) /\ out = Consumed
  /\ Is("feladat") /\ pc = "failed" =>
       Len(out) = Disk /\ (IsPrefix(out, file) \/ IsPrefix(file, out))
  /\ pc = "text_end" =>
       /\ out \in {file, file \o c}
       /\ file = <<>> \/ Last(file) = "newline" => out = file \o c
  /\ pc = "open_bin_end" => out = file
  /\ pc = "fopen_bin_end" => out = file \o c

\* The loops are over, if only because the disk is full: a read error or the end
\* of the keyboard input does not end it.  Nothing typed at all is written for
\* ever if s happens to be empty.
LoopOver == pc \in {"done", "failed"} \/ (Is("feladat") /\ file = <<>> /\ c = <<>>)
=============================================================================
