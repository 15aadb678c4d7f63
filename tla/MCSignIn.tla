------------------------------ MODULE MCSignIn ------------------------------
(***************************************************************************)
(* SignIn for TLC: tokens presented from anywhere; one page with an API    *)
(* call and a sign-out; two pages.                                         *)
(***************************************************************************)
EXTENDS SignIn, TLC

CONSTANTS p1, p2, get, out, r1, r2, r3, t1, t2, t3

MCScenes ==
  {[pages |-> {},       refreshes |-> {},       actions |-> 0],
   [pages |-> {p1},     refreshes |-> {r1, r2}, actions |-> 5],
   [pages |-> {p1, p2}, refreshes |-> {r1, r2}, actions |-> 4]}
=============================================================================
