-------------------------- MODULE MCRefreshTokens --------------------------
(***************************************************************************)
(* RefreshTokens for TLC.  Tokens and requests are interchangeable.        *)
(***************************************************************************)
EXTENDS RefreshTokens, TLC

Symmetry == Permutations(Requests) \cup Permutations(Tokens)
=============================================================================
