------------------------------- MODULE Nevcso -------------------------------
(***************************************************************************)
(* 5.Gyak/nevcso.c, nevcso_mashogy.c and nevcso2.c: the child writes to a   *)
(* FIFO and the parent reads it, one text or, in nevcso2.c, what is typed up *)
(* to "over", to add it up.                                                    *)
(***************************************************************************)
EXTENDS Folyam

CONSTANTS
  Messages,     \* what is typed before "over"
  MaxTyped      \* bound: after so many messages "over" is typed

VARIABLE program    \* "nevcso", "nevcso_mashogy" or "nevcso2"

nevcsoVars == <<zhVars, program>>

Processes == {"child", "main"}

\* The texts that are looked at or not: "over" is one letter here.
Over == <<"over">>
Fradi == <<"H">>

\* s and sz: so large that "Hajra Fradi!" is a part; nothing on the new stack
\* spells "over".
s == CASE program = "nevcso" -> <<"S", NUL, NUL>>
       [] program = "nevcso_mashogy" -> <<Garbage, Garbage, Garbage>>
       [] program = "nevcso2" -> <<NUL, Garbage, Garbage>>

Init ==
  /\ pc = [p \in Processes |-> IF p = "main" THEN "mkfifo" ELSE "off"]
  /\ pending = FALSE /\ ready = 0 /\ reaped = {}
  /\ pipe = [d \in {"fifo"} |-> <<>>]
  /\ mem = [ends |-> {}, opened |-> {}, merged |-> FALSE,
            s |-> s, msg |-> <<>>, elkuldott |-> <<>>, olvasott |-> <<>>]

\* mkfifo() fails when an interrupted run with this pid has left the name.
mkfifo == Jump("main", "mkfifo", "fork1") \/ Jump("main", "mkfifo", "exited")

\* The other two programs take fork()'s failure for the child: who would have
\* been the parent opens the FIFO for writing, and nobody opens it for reading.
ForkFifo ==
  IF program = "nevcso_mashogy" THEN Fork("child", "fork1", "open_r")
  ELSE /\ pc["main"] = "fork1"
       /\ \/ pc' = [pc EXCEPT !["main"] = "open_r", !["child"] = "start"]
          \/ pc' = [pc EXCEPT !["main"] = "open_alone"]
       /\ UNCHANGED <<pending, ready, reaped, pipe, mem>>

\* scanf(), or the text of the other two programs
TypeMessage ==
  /\ Step("child", "scanf", "write")
  /\ \E m \in (CASE program # "nevcso2" -> {Fradi}
                 [] program = "nevcso2" /\ Len(mem["elkuldott"]) < MaxTyped -> Messages \cup {Over}
                 [] OTHER -> {Over}) :
       mem' = [mem EXCEPT !["msg"] = m, !["elkuldott"] = Append(@, m)]
  /\ UNCHANGED <<pending, ready, reaped, pipe>>

\* strlen(msg) + 1 bytes; the text of the other two programs has no NUL.
Sent == IF program = "nevcso2" THEN Append(mem["msg"], NUL) ELSE mem["msg"]

child ==
  \/ OpenEnd("child", "start", "opening", "fifo", "w")
  \/ AwaitEnd("child", "opening", "scanf", "r")
  \/ TypeMessage
  \/ WriteBytes("child", "write", "while", "fifo", Sent)
  \/ Jump("child", "while", IF program = "nevcso2" /\ mem["msg"] # Over THEN "scanf" ELSE "close")
  \/ Close("child", "close", "exited", "fifo", "w")

\* while (strcmp("over", sz) != 0), or one read
TestOver ==
  Jump("main", "while",
       CASE program = "nevcso2" /\ CString(mem["s"]) # Over -> "read"
         [] program # "nevcso2" /\ mem["olvasott"] = <<>> -> "read"
         [] OTHER -> "close")

\* At the end of the file the sum grows by the same number once more, for ever.
ReadFifo ==
  ReadBytes("main", "read", IF pipe["fifo"] = <<>> THEN "while" ELSE "atoi", "fifo", Len(s), "s")

Main ==
  \/ mkfifo
  \/ ForkFifo
  \/ OpenEnd("main", "open_r", "opening", "fifo", "r")
  \/ AwaitEnd("main", "opening", "while", "w")
  \/ TestOver
  \/ ReadFifo
  \/ Assign("main", "atoi", "while", "olvasott", Append(mem["olvasott"], CString(mem["s"])))
  \/ Close("main", "close", IF program = "nevcso_mashogy" THEN "wait" ELSE "done", "fifo", "r")
  \/ Wait({"child"}, "wait", "done")

Next == (Main \/ child) /\ UNCHANGED program

Spec == Init /\ [][Next]_nevcsoVars

-----------------------------------------------------------------------------
(* Properties *)

TypeOK ==
  /\ DOMAIN pc = Processes /\ reaped \subseteq {"child"}
  /\ Len(pipe["fifo"]) \in 0..PipeBytes /\ Len(mem["s"]) = Len(s)
  /\ Len(mem["elkuldott"]) <= MaxTyped + 1

\* However writes run together, and wherever a read cuts them, the parent looks
\* at a string that ends inside its buffer; and the child never writes without
\* a reader unless writes ran together and looked like an "over".
Framed ==
  /\ pc["main"] = "atoi" /\ program # "nevcso_mashogy" => Terminated(mem["s"])
  /\ pc["child"] = "write" /\ ~Somebody("fifo", "r") => mem["merged"]

\* The parent adds up what the child sent, complete and in order, as long as no
\* write found another one still in the pipe.  Otherwise it still only ever
\* looks at a message or the end of one, and never at more than were sent.
InOrder ==
  LET Same(printed, sent) ==
        printed = sent \/ (program = "nevcso_mashogy" /\ IsPrefix(sent, printed))
  IN  /\ Len(mem["olvasott"]) <= Len(mem["elkuldott"])
      /\ \A t \in ToSet(mem["olvasott"]) : \E m \in ToSet(mem["elkuldott"]) :
           Same(t, m) \/ IsSuffix(t, m)
      /\ ~mem["merged"] =>
           /\ \A k \in DOMAIN mem["olvasott"] : Same(mem["olvasott"][k], mem["elkuldott"][k])
           /\ pc["main"] = "done" => Len(mem["olvasott"]) = Len(mem["elkuldott"])

\* "over" has run together with the message before it, and was not looked at:
\* the child is gone and the parent reads the end of the file for ever.
Stuck ==
  /\ program = "nevcso2" /\ mem["merged"]
  /\ pc["child"] = "exited" /\ pipe["fifo"] = <<>> /\ pc["main"] \in {"while", "read"}
  /\ CString(mem["s"]) # Over

\* fork() has failed, and the parent waits in the child's open() for a reader.
LeftAlone == pc["main"] = "open_alone"
=============================================================================
