----------------------------- MODULE PipeStruct -----------------------------
(***************************************************************************)
(* Gyakorlas/pipe_struct.c: the parent sends the name of a job, the number *)
(* of workers, and the workers as an array of structures; the child reads   *)
(* the array into memory that it sizes by the number.                        *)
(***************************************************************************)
EXTENDS Zh

Processes == {"child", "main"}

\* What a write() puts into the pipe: its size (in numbers of what is sent) and
\* its content.  Three workers, 3012 bytes, are less than PIPE_BUF: one piece.
Name == [size |-> "char100", val |-> "Fertotlenites"]
Num(n) == [size |-> "int", val |-> n]
Workers(n) == [size |-> <<"worker", n>>, val |-> n]

daily_num_ready == 3

Init ==
  /\ pc = [p \in Processes |-> IF p = "main" THEN "fork1" ELSE "off"]
  /\ pending = FALSE /\ ready = 0 /\ reaped = {}
  /\ pipe = [d \in {"io_pipes_out"} |-> <<>>]
  /\ mem = [puffer |-> Name, daily_num |-> Num(0), data |-> Workers(0), j |-> 0]

\* Three reads, and every worker is printed.
child ==
  \/ Read("child", "start", "read_num", "io_pipes_out", "puffer")
  \/ Read("child", "read_num", "read_data", "io_pipes_out", "daily_num")
  \/ Read("child", "read_data", "while", "io_pipes_out", "data")
  \/ mem["j"] < mem["daily_num"].val /\ Assign("child", "while", "while", "j", mem["j"] + 1)
  \/ mem["j"] >= mem["daily_num"].val /\ Jump("child", "while", "exited")

Main ==
  \/ Fork("child", "fork1", "write_work")
  \/ Write("main", "write_work", "write_num", "io_pipes_out", Name)
  \/ Write("main", "write_num", "write_data", "io_pipes_out", Num(daily_num_ready))
  \/ Write("main", "write_data", "wait", "io_pipes_out", Workers(daily_num_ready))
  \/ Wait({"child"}, "wait", "done")

Next == Main \/ child

Spec == Init /\ [][Next]_zhVars

-----------------------------------------------------------------------------
(* Properties *)

TypeOK ==
  /\ DOMAIN pc = Processes /\ reaped \subseteq {"child"}
  /\ Len(pipe["io_pipes_out"]) \in 0..PipeCapacity

\* The child reads each item into memory of the size it was written from, and
\* prints as many workers as it was sent.
Framed ==
  /\ pc["child"] = "start" /\ pipe["io_pipes_out"] # <<>> =>
       Head(pipe["io_pipes_out"]).size = "char100"
  /\ pc["child"] = "read_num" /\ pipe["io_pipes_out"] # <<>> =>
       Head(pipe["io_pipes_out"]).size = "int"
  /\ pc["child"] = "read_data" /\ pipe["io_pipes_out"] # <<>> =>
       Head(pipe["io_pipes_out"]).size = Workers(mem["daily_num"].val).size
  /\ mem["j"] <= mem["data"].val
=============================================================================
