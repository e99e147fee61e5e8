------------------------------ MODULE Struktura -----------------------------
(***************************************************************************)
(* Beadando Segitseg/1. Beadando/struktura.c: drivers are recorded one by  *)
(* one at the end of a text file, each with the next id.  Only the file     *)
(* outlives a run: every start reads it with fscanf() and goes on after the *)
(* id of its last record.                                                    *)
(*                                                                         *)
(* A text is the sequence of its lexemes: numbers, words (all alike) and    *)
(* the blanks between them.  A full disk may tear a line anywhere, within a *)
(* lexeme too, and what is written next continues the torn one.              *)
(***************************************************************************)
EXTENDS Integers, SequencesExt, FiniteSetsExt

CONSTANTS
  Names, Emails, Phones,    \* the texts that may be typed
  Exps,                     \* the numbers that may be typed
  MaxRecords,               \* bound on the records
  MaxRuns,                  \* bound on the runs
  MaxFailed                 \* bound on the writes that fail

TAB == -1
NEWLINE == -2
SPACE == -3
WORD == -4

IsBlank(x) == x \in {TAB, NEWLINE, SPACE}
IsNumber(x) == x >= 0

VARIABLES
  pc,       \* where the program is; "off": it does not run
  run,      \* the number of runs so far
  file,     \* adatbazis.txt
  pos,      \* the position of id_setup() in the file
  id,       \* the id of the next record
  a,        \* the record that is being made
  recs,     \* history: the records that were written as a whole
  seen,     \* history: the fields of the records this run has read or written
  plain,    \* history: no line of the file is torn, and no email or phone in it
            \*   has a blank
  intact,   \* history: the records that were written while it was plain
  failed    \* the number of writes that have failed

histories == <<recs, seen, plain, intact, failed>>
vars == <<pc, run, file, pos, id, a, histories>>

NoRecord == [id |-> 0, name |-> <<>>, email |-> <<>>, phone |-> <<>>, exp |-> 0]

Init ==
  /\ pc = "off" /\ run = 0
  /\ file = <<>> /\ pos = 1 /\ id = 1 /\ a = NoRecord
  /\ recs = <<>> /\ seen = <<>> /\ plain = TRUE /\ intact = 0 /\ failed = 0

-----------------------------------------------------------------------------
(* fscanf(): a scan is at position p and has got some fields; ok until a      *)
(* directive has failed, eof once it has met the end of the file.  A failed   *)
(* scan reads no further.  Each directive takes the possible scans to the     *)
(* possible scans after it (there is always one).                              *)

AfterBlanks(p) ==
  Min({q \in p..Len(file) + 1 : q > Len(file) \/ ~IsBlank(file[q])})

Blanks(scans) ==
  {IF scan.ok THEN [scan EXCEPT !.p = AfterBlanks(scan.p)] ELSE scan : scan \in scans}

\* A field whose first lexeme Fits, up to End
Field(scan, Fits(_), End(_)) ==
  LET end == End(scan.p)
  IN  CASE ~scan.ok -> scan
        [] scan.ok /\ scan.p > Len(file) -> [scan EXCEPT !.ok = FALSE, !.eof = TRUE]
        [] scan.ok /\ scan.p <= Len(file) ->
             IF Fits(file[scan.p])
               THEN [p |-> end, ok |-> TRUE, eof |-> end > Len(file),
                     got |-> Append(scan.got, SubSeq(file, scan.p, end - 1))]
               ELSE [scan EXCEPT !.ok = FALSE]

AnyLexeme(x) == TRUE
OneLexeme(q) == q + 1

\* The next tab, over newlines too
NextTab(q) == Min({r \in q..Len(file) + 1 : r > Len(file) \/ file[r] = TAB})

Number(scans) == {Field(scan, IsNumber, OneLexeme) : scan \in Blanks(scans)}      \* %u
String(scans) == {Field(scan, AnyLexeme, OneLexeme) : scan \in Blanks(scans)}     \* %s
UpToTab(scans) == {Field(scan, AnyLexeme, NextTab) : scan \in Blanks(scans)}      \* \t%[^\t]

Scan(p) == [p |-> p, ok |-> TRUE, eof |-> FALSE, got |-> <<>>]

\* A slip: one string too many
file_readOneMore(p) == Number(String(String(String(UpToTab(Number({Scan(p)}))))))

\* "%u\t%[^\t]\t%s\t%s\t%u"
file_read(p) == Number(String(String(UpToTab(Number({Scan(p)})))))

-----------------------------------------------------------------------------
(* The start of the program *)

\* main: the file is made if it is not there, and opened for reading.
Start ==
  /\ pc = "off" /\ run < MaxRuns
  /\ pc' = "id_setup" /\ run' = run + 1
  /\ id' = 0
  /\ UNCHANGED <<file, pos, a, histories>>

\* A slip: the id of the last record is given once more.
NextIdAgain == id

\* id++ after the loop
NextId == id + 1

\* One file_read() and the test of feof() after it.  When the first %u has
\* failed, aktual->id is what malloc() has left there.
id_setup ==
  /\ pc = "id_setup"
  /\ LET first == AfterBlanks(pos)
     IN  \E scan \in file_read(pos) :
           /\ pos' = scan.p
           /\ IF scan.eof
                THEN pc' = "menu" /\ id' = NextId /\ UNCHANGED seen
                ELSE /\ IF IsNumber(file[first])
                          THEN id' = file[first] /\ seen' = Append(seen, scan.got)
                          ELSE id' = 0 /\ UNCHANGED seen
                     /\ UNCHANGED pc
  /\ UNCHANGED <<run, file, a, recs, plain, intact, failed>>

-----------------------------------------------------------------------------
(* The menu and driver_creation *)

\* '1': the record gets its id before anything is typed.  command is not
\* initialised, so the first choice may be made by nobody.
Choose1 ==
  /\ pc = "menu" /\ Len(recs) < MaxRecords
  /\ pc' = "name" /\ a' = [NoRecord EXCEPT !.id = id] /\ id' = id + 1
  /\ UNCHANGED <<run, file, pos, histories>>

\* read_in_console_messages, for one of the texts
ReadIn(field, texts, to) ==
  /\ pc = field
  /\ pc' = to
  /\ \E t \in texts : a' = [a EXCEPT ![field] = t]
  /\ UNCHANGED <<run, file, pos, id, histories>>

\* scanf("%u"): 0 stands for the experience of createdriver, which is NULL.
ReadExp ==
  /\ pc = "exp"
  /\ \E e \in Exps \ {0} : a' = [a EXCEPT !.exp = e]
  /\ pc' = "append"
  /\ UNCHANGED <<run, file, pos, id, histories>>

\* A slip: the record has no newline at its end.
LineOpen(r) ==
  <<r.id, TAB>> \o r.name \o <<TAB>> \o r.email \o <<TAB>> \o r.phone \o <<TAB, r.exp>>

\* A slip: the email and the phone change places.
LineSwapped(r) ==
  <<r.id, TAB>> \o r.name \o <<TAB>> \o r.phone \o <<TAB>> \o r.email \o <<TAB, r.exp, NEWLINE>>

Line(r) ==
  <<r.id, TAB>> \o r.name \o <<TAB>> \o r.email \o <<TAB>> \o r.phone \o <<TAB, r.exp, NEWLINE>>

Fields(r) == <<<<r.id>>, r.name, r.email, r.phone, <<r.exp>>>>

\* Numbers have up to five digits here.
Shift(n) == Min({t \in {10, 100, 1000, 10000, 100000} : n < t \/ t = 100000})

\* A number right behind a number makes one number of both; behind a word it
\* belongs to the word.
Glued(x, n) == IF IsNumber(x) THEN x * Shift(n) + n ELSE x

\* What the file is when the text l, which begins with a number, is written at
\* its end
Written(l) ==
  IF file = <<>> \/ l = <<>> \/ IsBlank(Last(file))
    THEN file \o l
    ELSE Front(file) \o <<Glued(Last(file), Head(l))>> \o Tail(l)

\* fopen("a"), fprintf and fclose
Append1 ==
  /\ pc = "append"
  /\ file' = Written(Line(a))
  /\ recs' = Append(recs, a) /\ seen' = Append(seen, Fields(a))
  /\ plain' = (plain /\ Len(a.email) = 1 /\ Len(a.phone) = 1)
  /\ intact' = IF plain' THEN Len(recs') ELSE intact
  /\ pc' = "menu" /\ a' = NoRecord
  /\ UNCHANGED <<run, pos, id, failed>>

\* The beginnings of a number
Cuts(n) == {m \in 1..n - 1 : \E t \in {10, 100, 1000, 10000} : m = n \div t}

\* The beginnings of a line: it is cut between two lexemes or within one, and the
\* beginning of a word is a word.
Torn(l) ==
  {SubSeq(l, 1, n) : n \in 0..Len(l) - 1}
  \cup UNION {{Append(SubSeq(l, 1, n - 1), m) : m \in Cuts(l[n])} : n \in DOMAIN l}

\* A full disk: the beginning that fits, or nothing, stays in the file, and the
\* test of fprintf (the function, not its result) still says that the record was
\* written; the id is spent.
AppendFails ==
  /\ pc = "append" /\ failed < MaxFailed
  /\ \E part \in Torn(Line(a)) :
       /\ file' = Written(part)
       /\ plain' = (plain /\ part = <<>>)
  /\ failed' = failed + 1
  /\ pc' = "menu" /\ a' = NoRecord
  /\ UNCHANGED <<run, pos, id, recs, seen, intact>>

\* '2', the end of the input, a text "-" or the experience 0 (both read through
\* the null pointer), a file that cannot be opened, or Ctrl-C
Ends ==
  /\ pc # "off"
  /\ pc' = "off" /\ id' = 1 /\ pos' = 1 /\ a' = NoRecord /\ seen' = <<>>
  /\ UNCHANGED <<run, file, recs, plain, intact, failed>>

driver_creation ==
  \/ Choose1
  \/ ReadIn("name", Names, "email")
  \/ ReadIn("email", Emails, "phone")
  \/ ReadIn("phone", Phones, "exp")
  \/ ReadExp
  \/ Append1
  \/ AppendFails

Next == Start \/ id_setup \/ driver_creation \/ Ends

Spec == Init /\ [][Next]_vars

-----------------------------------------------------------------------------
(* Properties *)

\* As long as no line is torn, the file ends with the end of a line.
TypeOK ==
  /\ pc \in {"off", "id_setup", "menu", "name", "email", "phone", "exp", "append"}
  /\ run \in 0..MaxRuns /\ Len(recs) <= MaxRecords /\ failed \in 0..MaxFailed
  /\ pos \in 1..Len(file) + 1 /\ id >= 0
  /\ intact \in 0..Len(recs) /\ (plain => intact = Len(recs))
  /\ plain /\ file # <<>> => Last(file) = NEWLINE

\* id_setup() meets a word where it needs a number, and reads no further.
Stalled ==
  /\ pc = "id_setup"
  /\ LET q == AfterBlanks(pos) IN q <= Len(file) /\ ~IsNumber(file[q])

\* Until the first torn line, or the first email or phone with a blank in it, the
\* ids of the records increase, over all the runs and whatever ends them, and the
\* next id has not been used.
IdsIncrease ==
  /\ \A j, k \in 1..intact : j < k => recs[j].id < recs[k].id
  /\ plain =>
       /\ pc \notin {"off", "id_setup"} => \A k \in DOMAIN recs : recs[k].id < id
       /\ pc = "append" => \A k \in DOMAIN recs : recs[k].id < a.id

\* The records before that are read back by every later id_setup(), each once, in
\* order and with all its fields, whatever is written or torn after them; and as
\* long as all is plain nothing else is read.
ReadsBack ==
  /\ \A k \in DOMAIN seen : k <= intact => seen[k] = Fields(recs[k])
  /\ pc \notin {"off", "id_setup"} => Len(seen) >= intact
  /\ plain => Len(seen) <= Len(recs)

\* id_setup() is over, unless it stalls behind the records that are intact; it
\* does not stall while all is plain.
SetupOver == pc # "id_setup" \/ (Stalled /\ ~plain /\ Len(seen) >= intact)

(***************************************************************************)
(* What a comment of the source says                                       *)
(***************************************************************************)

\* "mindig megfelelo kovetkezzen a fileban" (the right id shall always come
\* next in the file), line 14: no two records have the same id.
UniqueIds == \A j, k \in DOMAIN recs : recs[j].id = recs[k].id => j = k
=============================================================================
