----------------------------- MODULE MCChatView -----------------------------
(***************************************************************************)
(* ChatView for TLC.  Replies and sessions are interchangeable.            *)
(***************************************************************************)
EXTENDS ChatView, TLC

Symmetry == Permutations(Messages) \cup Permutations(Sessions)
=============================================================================
