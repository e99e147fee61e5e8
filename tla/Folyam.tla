------------------------------- MODULE Folyam -------------------------------
(***************************************************************************)
(* Pipes and FIFOs as streams of bytes, whose ends are opened and closed.   *)
(* A read() takes what there is, up to the size it asks for: several writes *)
(* at once, or a part of one.  When nobody can write any more it takes       *)
(* nothing and leaves the buffer as it is, and the program goes on with what  *)
(* the buffer held before.                                                    *)
(***************************************************************************)
EXTENDS Zh, SequencesExt, FiniteSetsExt

\* Bytes are one-letter strings; a string in a buffer ends with NUL.
NUL == "NUL"

\* What is in the variable x that nobody has initialised
Garbage == "garbage"

\* A buffer after bytes have been put to its beginning
Overlay(bytes, buffer) ==
  [k \in 1..Max({Len(bytes), Len(buffer)}) |-> IF k <= Len(bytes) THEN bytes[k] ELSE buffer[k]]

\* The C string in a buffer, which goes on behind it when there is no NUL
Terminated(buffer) == Contains(buffer, NUL)
CString(buffer) ==
  IF Terminated(buffer) THEN SubSeq(buffer, 1, SelectInSeq(buffer, LAMBDA b : b = NUL) - 1)
                        ELSE buffer

\* mem["ends"] holds the open ends, <<process, pipe, "r" or "w">>, and
\* mem["opened"] those that have ever been open.  Who is gone has closed all.
Holds(p, d, e) == <<p, d, e>> \in mem["ends"] /\ Alive(p)
Somebody(d, e) == \E p \in DOMAIN pc : Holds(p, d, e)

\* Room for PipeCapacity writes of three bytes
PipeBytes == 3 * PipeCapacity

-----------------------------------------------------------------------------

\* write(), in one piece: without a reader it ends the process (SIGPIPE).
\* mem["merged"] is a history: a write() has found an earlier one in the pipe.
WriteBytes(p, from, to, d, bytes) ==
  /\ IF Somebody(d, "r")
       THEN /\ Len(pipe[d]) + Len(bytes) <= PipeBytes
            /\ Step(p, from, to)
            /\ pipe' = [pipe EXCEPT ![d] = @ \o bytes]
            /\ mem' = [mem EXCEPT !["merged"] = @ \/ pipe[d] # <<>>]
       ELSE Step(p, from, "exited") /\ UNCHANGED <<pipe, mem>>
  /\ UNCHANGED <<pending, ready, reaped>>

\* read() of up to size bytes into x: it waits for somebody to write, and
\* takes nothing at the end of the file.
ReadBytes(p, from, to, d, size, x) ==
  LET got == SubSeq(pipe[d], 1, Min({size, Len(pipe[d])}))
  IN  /\ Step(p, from, to)
      /\ pipe[d] # <<>> \/ ~Somebody(d, "w")
      /\ mem' = [mem EXCEPT ![x] = Overlay(got, @)]
      /\ pipe' = [pipe EXCEPT ![d] = SubSeq(@, Len(got) + 1, Len(@))]
      /\ UNCHANGED <<pending, ready, reaped>>

Close(p, from, to, d, e) ==
  Assign(p, from, to, "ends", mem["ends"] \ {<<p, d, e>>})

\* open() of a FIFO: the end is there at once,
OpenEnd(p, from, to, d, e) ==
  /\ Step(p, from, to)
  /\ mem' = [mem EXCEPT !["ends"] = @ \cup {<<p, d, e>>}, !["opened"] = @ \cup {e}]
  /\ UNCHANGED <<pending, ready, reaped, pipe>>

\* and the call returns when the other end has been opened as well.
AwaitEnd(p, from, to, e) == e \in mem["opened"] /\ Jump(p, from, to)
=============================================================================
