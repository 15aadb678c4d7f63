--------------------------- MODULE TokenFamilies ---------------------------
(***************************************************************************)
(* What refresh-token rotation promises, with a family named by the token  *)
(* its login issued: at any time at most one token of a family is valid,   *)
(* rotation replaces it by a token that was never valid before, and a      *)
(* family without a valid token never gets one again.                      *)
(***************************************************************************)
CONSTANT Tokens

VARIABLES current,  \* current[f]: the valid token of family f, as a set
          used      \* every token that was ever valid

familyVars == <<current, used>>

FamiliesInit == /\ current = [f \in Tokens |-> {}]
                /\ used = {}

StartFamily(f) == /\ f \notin used
                  /\ current' = [current EXCEPT ![f] = {f}]
                  /\ used' = used \cup {f}

RotateFamily(f, t, c) == /\ current[f] = {t}
                         /\ c \notin used
                         /\ current' = [current EXCEPT ![f] = {c}]
                         /\ used' = used \cup {c}

EndFamily(f) == /\ current' = [current EXCEPT ![f] = {}]
                /\ UNCHANGED used

FamiliesNext == \E f \in Tokens : \/ StartFamily(f)
                                  \/ EndFamily(f)
                                  \/ \E t, c \in Tokens : RotateFamily(f, t, c)

FamiliesSpec == FamiliesInit /\ [][FamiliesNext]_familyVars
=============================================================================
