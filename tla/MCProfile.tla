----------------------------- MODULE MCProfile -----------------------------
(***************************************************************************)
(* Instances of Profile, and so of Session, for TLC.                       *)
(***************************************************************************)
EXTENDS Profile
=============================================================================
