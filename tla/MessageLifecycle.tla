-------------------------- MODULE MessageLifecycle --------------------------
(***************************************************************************)
(* What a reader of the messages table may rely on, whatever handlers,     *)
(* crashes and page loads do: the life of the `streaming_status` column of *)
(* one assistant message.  A reply starts `streaming`, a page load may     *)
(* mark it interrupted (`error`), its own handler settles it at most once, *)
(* and a row of a deleted session never comes back.  In particular a       *)
(* `complete` or `stopped` row never changes again until it is deleted.    *)
(*                                                                         *)
(* ChatStream is shown to implement this specification (ChatStream.tla,    *)
(* operator Lifecycle).                                                    *)
(***************************************************************************)
CONSTANT Messages

VARIABLES status,   \* status[m]: the column, "none" before and "removed" after
          settled   \* messages whose handler has written its result

lifecycleVars == <<status, settled>>

Outcomes == {"complete", "error", "stopped"}

LifecycleInit == /\ status = [m \in Messages |-> "none"]
                 /\ settled = {}

(* The pending row appears, empty and `streaming`.                         *)
Start(m) == /\ status[m] = "none"
            /\ status' = [status EXCEPT ![m] = "streaming"]
            /\ UNCHANGED settled

(* A page load interrupts whatever still reads `streaming`.                *)
Interrupt == \E M \in SUBSET {m \in Messages : status[m] = "streaming"} :
                /\ status' = [m \in Messages |->
                                 IF m \in M THEN "error" ELSE status[m]]
                /\ UNCHANGED settled

(* The handler writes the result of the reply; nobody does so twice.       *)
Settle(m) == /\ m \notin settled
             /\ status[m] \in {"streaming", "error"}
             /\ \E result \in Outcomes : status' = [status EXCEPT ![m] = result]
             /\ settled' = settled \cup {m}

(* The rows of a deleted session go, for good.                             *)
Remove == \E M \in SUBSET {m \in Messages : status[m] # "none"} :
             /\ status' = [m \in Messages |->
                              IF m \in M THEN "removed" ELSE status[m]]
             /\ UNCHANGED settled

LifecycleNext == \/ \E m \in Messages : Start(m) \/ Settle(m)
                 \/ Interrupt
                 \/ Remove

LifecycleSpec == LifecycleInit /\ [][LifecycleNext]_lifecycleVars
=============================================================================
