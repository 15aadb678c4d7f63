---------------------------- MODULE RevisionLog ----------------------------
(***************************************************************************)
(* What the artifact store promises for one session: the revisions of a    *)
(* file are an append-only list numbered from 1, each appended by one      *)
(* call, and a call ends once, with its revision in the list or without.   *)
(***************************************************************************)
EXTENDS Naturals

CONSTANTS Writers, Files

VARIABLES log,     \* log[f]: pairs of a revision number and its call
          ended    \* the calls that returned or threw

logVars == <<log, ended>>

LogInit == /\ log = [f \in Files |-> {}]
           /\ ended = {}

HasRevision(f, n) == \E e \in log[f] : e[1] = n

Successors(f) == {1} \cup {e[1] + 1 : e \in log[f]}

Append(w, f, n) ==
  /\ w \notin ended
  /\ ~ HasRevision(f, n)
  /\ log' = [log EXCEPT ![f] = @ \cup {<<n, w>>}]
  /\ ended' = ended \cup {w}

Refuse(w) == /\ w \notin ended
             /\ ended' = ended \cup {w}
             /\ UNCHANGED log

LogNext == \E w \in Writers :
             \/ Refuse(w)
             \/ \E f \in Files : \E n \in Successors(f) : Append(w, f, n)

LogSpec == LogInit /\ [][LogNext]_logVars
=============================================================================
