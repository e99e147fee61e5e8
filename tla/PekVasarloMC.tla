---------------------------- MODULE PekVasarloMC ----------------------------
(***************************************************************************)
(* PekVasarlo for TLC.  The source's shelf has ten places; four are enough *)
(* for it to be empty, partly full and full with both workers in between.  *)
(***************************************************************************)
EXTENDS PekVasarlo

FourPlaces == 4
TwoPlaces == 2
=============================================================================
