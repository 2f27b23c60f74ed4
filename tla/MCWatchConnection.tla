------------------------- MODULE MCWatchConnection -------------------------
(***************************************************************************)
(* Instances of WatchConnection for TLC.  Home listens as long as the app  *)
(* runs, unless it is refused; two lookups ask for one document.           *)
(***************************************************************************)
EXTENDS WatchConnection

CONSTANTS home, lookup1, lookup2, habits, document

QueryOf ==
  [l \in Listener |-> IF l = home THEN habits ELSE document]
=============================================================================
