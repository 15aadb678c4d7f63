--------------------------- MODULE MCBackOffice ---------------------------
(***************************************************************************)
(* BackOffice for TLC: two back-office requests over three users, then     *)
(* two extractions that may each find two facts, with room for two notes. *)
(***************************************************************************)
EXTENDS BackOffice, TLC

CONSTANTS f1, f2, f3, blank, a, b, c, r1, r2, j1, j2

MCPermissions == {"users_manage_status", "users_manage_role",
                  "users_manage_permissions"}
MCTables == {[role |-> (a :> "admin" @@ b :> "admin" @@ c :> "user"),
              active |-> (a :> TRUE @@ b :> TRUE @@ c :> TRUE)]}
MCChoices == {{}, {"users_manage_role"}}
MCAnswers == {[shape |-> "facts", values |-> <<f1, f2>>],
              [shape |-> "flat", values |-> <<blank, f3, f1>>],
              [shape |-> "else", values |-> <<f1>>]}
=============================================================================
