---------------------------- MODULE MCChatStream ----------------------------
(***************************************************************************)
(* ChatStream for TLC.  Sends and sessions are interchangeable: no action  *)
(* and no property names one of them.                                      *)
(***************************************************************************)
EXTENDS ChatStream, TLC

Symmetry == Permutations(Sends) \cup Permutations(Sessions)
=============================================================================
