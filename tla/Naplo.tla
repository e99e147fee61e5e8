------------------------------- MODULE Naplo --------------------------------
(***************************************************************************)
(* The log that the two writers of fcntl.c promise: lines one after the     *)
(* other, those of each writer in their order and none missing, never more   *)
(* than Rounds of them, and never a line taken back.                         *)
(***************************************************************************)
EXTENDS Integers

CONSTANTS Writers, Rounds

VARIABLE lines    \* by where it ends: who wrote each line, and which of its lines

LinesOf(w) == {lines[k].line : k \in {m \in DOMAIN lines : lines[m].by = w}}

Init == lines = [k \in {} |-> "nothing"]

Add(w) == \E n \in 0..(Rounds - 1) :
  /\ LinesOf(w) = 0..(n - 1)
  /\ \E end \in DOMAIN lines' :
       /\ \A k \in DOMAIN lines : k < end
       /\ lines' = [k \in DOMAIN lines \cup {end} |->
                      IF k = end THEN [by |-> w, line |-> n] ELSE lines[k]]

Next == \E w \in Writers : Add(w)

Spec == Init /\ [][Next]_lines
=============================================================================
