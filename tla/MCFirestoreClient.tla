------------------------- MODULE MCFirestoreClient -------------------------
(***************************************************************************)
(* Instances of FirestoreClient for TLC.                                   *)
(***************************************************************************)
EXTENDS FirestoreClient
=============================================================================
