--------------------------- MODULE MCHabitScreens ---------------------------
(***************************************************************************)
(* Instances of HabitScreens for TLC.                                      *)
(***************************************************************************)
EXTENDS HabitScreens
=============================================================================
