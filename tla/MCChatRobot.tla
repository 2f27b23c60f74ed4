---------------------------- MODULE MCChatRobot ----------------------------
(***************************************************************************)
(* Instances of ChatRobot for TLC.                                         *)
(***************************************************************************)
EXTENDS ChatRobot
=============================================================================
