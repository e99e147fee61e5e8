-------------------------------- MODULE Pipe --------------------------------
(***************************************************************************)
(* 5.Gyak/pipe.c, pipe2.c and pipe3.c: the parent writes to a pipe and the  *)
(* child reads what there is: a text, a number of one or two digits, or      *)
(* numbers up to the first 0, in pieces of three bytes.                      *)
(***************************************************************************)
EXTENDS Folyam

CONSTANT MaxNumbers    \* bound: the numbers other than 0 that rand() gives

VARIABLE program       \* "pipe", "pipe2" or "pipe3"

pipeVars == <<zhVars, program>>

Processes == {"child", "main"}

\* The bytes of one write(), and how many a read() asks for
Written == CASE program = "pipe" -> 2 [] program = "pipe2" -> 2 [] program = "pipe3" -> 3
Asked == CASE program = "pipe" -> 4 [] OTHER -> Written

\* "Hajra Fradi!" stands for one letter; rand() % 100 has one or two digits.
Zero == <<"0">>
Texts == IF program = "pipe" THEN {<<"H">>} ELSE {Zero, <<"1">>, <<"1", "2">>}

\* sz[100], after the fork one for each process
NoBuffer == <<Garbage, Garbage, Garbage, Garbage>>
sz == IF program = "pipe3" THEN <<"a", "s", "d", NUL>> ELSE NoBuffer

\* elkuldott and olvasott: what has been sent, and what the child has printed
Init ==
  /\ pc = [p \in Processes |-> IF p = "main" THEN "fork1" ELSE "off"]
  /\ pending = FALSE /\ ready = 0 /\ reaped = {}
  /\ pipe = [d \in {"pipefd"} |-> <<>>]
  /\ mem = [ends |-> {<<"main", "pipefd", e>> : e \in {"r", "w"}}, opened |-> {}, merged |-> FALSE,
            sz |-> sz, mainSz |-> sz, elkuldott |-> <<>>, olvasott |-> <<>>]

\* fork(): the child gets both ends as well.
ForkEnds ==
  /\ pc["main"] = "fork1"
  /\ \/ /\ pc' = [pc EXCEPT !["main"] = "close_r", !["child"] = "close_w"]
        /\ mem' = [mem EXCEPT !["ends"] = {<<p, "pipefd", e>> : p \in Processes, e \in {"r", "w"}}]
     \/ pc' = [pc EXCEPT !["main"] = "exited"] /\ UNCHANGED mem
  /\ UNCHANGED <<pending, ready, reaped, pipe>>

\* rand(): after MaxNumbers others it gives 0.
RandomNumber ==
  /\ Step("main", "rand", "write")
  /\ \E t \in Texts :
       /\ program = "pipe3" /\ Len(mem["elkuldott"]) >= MaxNumbers => t = Zero
       /\ mem' = [mem EXCEPT !["mainSz"] = Overlay(Append(t, NUL), @),
                             !["elkuldott"] = Append(@, t)]
  /\ UNCHANGED <<pending, ready, reaped, pipe>>

IsLast(t) == program # "pipe3" \/ t = Zero

Main ==
  \/ ForkEnds
  \/ Close("main", "close_r", "rand", "pipefd", "r")
  \/ RandomNumber
  \/ WriteBytes("main", "write", "while", "pipefd", SubSeq(mem["mainSz"], 1, Written))
  \/ Jump("main", "while", IF IsLast(Last(mem["elkuldott"])) THEN "close_w" ELSE "rand")
  \/ Close("main", "close_w", "wait", "pipefd", "w")
  \/ Wait({"child"}, "wait", "done")

child ==
  \/ Close("child", "close_w", "read", "pipefd", "w")
  \/ ReadBytes("child", "read", "printf", "pipefd", Asked, "sz")
  \/ Assign("child", "printf", "while", "olvasott", Append(mem["olvasott"], CString(mem["sz"])))
  \/ Jump("child", "while", IF IsLast(Last(mem["olvasott"])) THEN "close_r" ELSE "read")
  \/ Close("child", "close_r", "exited", "pipefd", "r")

Next == (Main \/ child) /\ UNCHANGED program

Spec == Init /\ [][Next]_pipeVars

-----------------------------------------------------------------------------
(* Properties *)

TypeOK ==
  /\ DOMAIN pc = Processes /\ reaped \subseteq {"child"}
  /\ Len(pipe["pipefd"]) \in 0..PipeBytes
  /\ Len(mem["sz"]) = 4 /\ Len(mem["mainSz"]) = 4

\* Every read finds whole pieces; nobody writes without a reader and, so that
\* the child never takes an old number for a new one, nobody reads at the end
\* of the file.
Framed ==
  /\ Len(pipe["pipefd"]) % Written = 0
  /\ pc["child"] = "read" => pipe["pipefd"] # <<>> \/ Holds("main", "pipefd", "w")
  /\ pc["main"] = "write" => Holds("child", "pipefd", "r")

\* The child prints what was sent, in order, and all of it when it ends.  Only
\* the two digits of pipe2.c are followed by what the buffer held before.
InOrder ==
  LET Same(printed, sent) ==
        printed = sent \/ (program = "pipe2" /\ Len(sent) = 2 /\ IsPrefix(sent, printed))
  IN  /\ Len(mem["olvasott"]) <= Len(mem["elkuldott"])
      /\ \A k \in DOMAIN mem["olvasott"] : Same(mem["olvasott"][k], mem["elkuldott"][k])
      /\ pc["child"] = "exited" =>
           Len(mem["olvasott"]) = Len(mem["elkuldott"]) /\ pipe["pipefd"] = <<>>
=============================================================================
