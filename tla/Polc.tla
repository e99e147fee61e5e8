-------------------------------- MODULE Polc --------------------------------
(***************************************************************************)
(* The shelf both producer/consumer programs promise: a stock that starts  *)
(* empty, grows and shrinks by one, and never leaves 0..N.  A new run of a  *)
(* program starts again from an empty shelf.                                *)
(***************************************************************************)
EXTENDS Integers

CONSTANT N          \* the places on the shelf

VARIABLE keszlet    \* the goods on the shelf

Init == keszlet = 0

\* A producer puts one piece on a shelf that has room.
Be == keszlet < N /\ keszlet' = keszlet + 1

\* A consumer takes one piece from a shelf that has some.
Ki == keszlet > 0 /\ keszlet' = keszlet - 1

\* A run ends or a new one begins: the shelf is empty.
Kiurul == keszlet' = 0

Next == Be \/ Ki \/ Kiurul

Spec == Init /\ [][Next]_keszlet

=============================================================================
