------------------------- MODULE TermeloFogyasztoMC -------------------------
(***************************************************************************)
(* TermeloFogyaszto for TLC, with the source's three places.  Five rounds  *)
(* fill and empty the store and use every place again.                     *)
(***************************************************************************)
EXTENDS TermeloFogyaszto

ThreePlaces == 3
FiveRounds == 5
=============================================================================
