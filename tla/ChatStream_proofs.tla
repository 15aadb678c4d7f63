-------------------------- MODULE ChatStream_proofs --------------------------
(***************************************************************************)
(* Proofs about ChatStream, for any number of sends, sessions and          *)
(* restarts: the inductive invariant, each safety property, and the        *)
(* implementation of MessageLifecycle.                                     *)
(***************************************************************************)
EXTENDS ChatStream, TLAPS

(* The conjunction of the checked invariants is inductive: stoppability    *)
(* and the absence of leaks need each other and the index; "no row         *)
(* outlives its session" needs to know which handlers have a row.          *)
ChatInv == /\ TypeOK
           /\ IndexAgrees
           /\ LiveStreamIsStoppable
           /\ RegistryHoldsOnlyLive
           /\ StoppedOnlyIfAborted
           /\ RowFollowsHandler
           /\ NoRowOutlivesSession

(* The program starts in the invariant.                                    *)
LEMMA ChatInvInit == Init => ChatInv
  BY ChatStreamAssumption
  DEF Init, ChatInv, TypeOK, IndexAgrees, LiveStreamIsStoppable,
      RegistryHoldsOnlyLive, StoppedOnlyIfAborted, RowFollowsHandler,
      NoRowOutlivesSession, Running, Finished, RowStatus, RowError, NoRow, Exists

(* Every step of every action preserves it.                                *)
LEMMA ChatInvStep == ChatInv /\ [Next]_vars => ChatInv'
<1> SUFFICES ASSUME ChatInv, [Next]_vars PROVE ChatInv'
  OBVIOUS
<1> USE ChatStreamAssumption
        DEF ChatInv, TypeOK, IndexAgrees, LiveStreamIsStoppable,
            RegistryHoldsOnlyLive, StoppedOnlyIfAborted, RowFollowsHandler,
            NoRowOutlivesSession, Running, Finished, RowStatus, RowError,
            NoRow, Exists, Goto, Alive, registry, handler, process
<1>1. ASSUME NEW h \in Sends, NEW s \in Sessions, Receive(h, s)
      PROVE  ChatInv'
  BY <1>1 DEF Receive
<1>2. ASSUME NEW h \in Sends, Admit(h)
      PROVE  ChatInv'
<2>1. PICK to \in {"rejected", "admitted"} : Goto(h, to)
  BY <1>2 DEF Admit
<2>2. QED
  BY <1>2, <2>1 DEF Admit
<1>3. ASSUME NEW h \in Sends, Prompt(h)
      PROVE  ChatInv'
  BY <1>3 DEF Prompt
<1>4. ASSUME NEW h \in Sends, CreatePending(h)
      PROVE  ChatInv'
  BY <1>4 DEF CreatePending, PendingRow
<1>5. ASSUME NEW h \in Sends, StartStream(h)
      PROVE  ChatInv'
  BY <1>5 DEF StartStream, RegisterStream
<1>6. ASSUME NEW h \in Sends, EndStream(h)
      PROVE  ChatInv'
  BY <1>6 DEF EndStream, EndedWith
<1>7. ASSUME NEW h \in Sends, FlushAndRelease(h)
      PROVE  ChatInv'
<2>1. /\ outcome' \in [Sends -> [status : {"complete", "error", "stopped"},
                                 error  : {"none", "failure"}]]
      /\ \A g \in Sends : outcome'[g].status = "stopped"
                            => outcome[g].status = "stopped"
  <3>1. CASE UNCHANGED outcome
    BY <3>1
  <3>2. CASE outcome' = [outcome EXCEPT ![h] = [status |-> "error",
                                               error  |-> "failure"]]
    BY <3>2
  <3>3. QED
    BY <1>7, <3>1, <3>2 DEF FlushAndRelease
<2>2. CASE h \in controllers
  <3>1. /\ controllers' = controllers \ {h}
        /\ bySession' = [bySession EXCEPT ![session[h]] = @ \ {h}]
    BY <1>7, <2>2 DEF FlushAndRelease, ReleaseStream
  <3>2. session[h] \in Sessions
    BY <1>7 DEF FlushAndRelease
  <3>3. IndexAgrees'
    BY <1>7, <3>1, <3>2 DEF FlushAndRelease
  <3>4. TypeOK'
    BY <1>7, <2>1, <3>1, <3>2 DEF FlushAndRelease
  <3>5. LiveStreamIsStoppable' /\ RegistryHoldsOnlyLive'
    BY <1>7, <3>1 DEF FlushAndRelease
  <3>6. StoppedOnlyIfAborted' /\ RowFollowsHandler' /\ NoRowOutlivesSession'
    BY <1>7, <2>1 DEF FlushAndRelease
  <3>7. QED
    BY <3>3, <3>4, <3>5, <3>6
<2>3. CASE h \notin controllers
  <3>1. UNCHANGED <<controllers, bySession>>
    BY <1>7, <2>3 DEF FlushAndRelease, ReleaseStream
  <3>2. TypeOK'
    BY <1>7, <2>1, <3>1 DEF FlushAndRelease
  <3>3. IndexAgrees' /\ LiveStreamIsStoppable' /\ RegistryHoldsOnlyLive'
    BY <1>7, <2>3, <3>1 DEF FlushAndRelease
  <3>4. StoppedOnlyIfAborted' /\ RowFollowsHandler' /\ NoRowOutlivesSession'
    BY <1>7, <2>1 DEF FlushAndRelease
  <3>5. QED
    BY <3>2, <3>3, <3>4
<2>4. QED
  BY <2>2, <2>3
<1>8. ASSUME NEW h \in Sends, Finalize(h)
      PROVE  ChatInv'
  BY <1>8 DEF Finalize, FinalizedRow
<1>9. ASSUME NEW h \in Sends, Fail(h)
      PROVE  ChatInv'
  BY <1>9 DEF Fail
<1>10. ASSUME NEW h \in Sends, StopRequest(h) \/ StopFire(h)
       PROVE  ChatInv'
  BY <1>10 DEF StopRequest, StopFire
<1>11. ASSUME NEW s \in Sessions, OpenSession(s)
       PROVE  ChatInv'
  BY <1>11 DEF OpenSession, InterruptedRow
<1>12. ASSUME NEW s \in Sessions, DeleteBegin(s)
       PROVE  ChatInv'
  BY <1>12 DEF DeleteBegin, StopAllForSession
<1>13. ASSUME NEW s \in Sessions, DeleteRow(s)
       PROVE  ChatInv'
  BY <1>13 DEF DeleteRow, RemovedRow
<1>14. CASE Shutdown
  BY <1>14 DEF Shutdown, ClearRegistry
<1>15. CASE Exit
  BY <1>15 DEF Exit, ClearRegistry, Abandon
<1>16. CASE Crash
  BY <1>16 DEF Crash, ClearRegistry, Abandon
<1>17. CASE Restart
  BY <1>17 DEF Restart
<1>18. CASE UNCHANGED vars
  BY <1>18 DEF vars
<1>19. QED
  BY <1>1, <1>2, <1>3, <1>4, <1>5, <1>6, <1>7, <1>8, <1>9, <1>10, <1>11,
     <1>12, <1>13, <1>14, <1>15, <1>16, <1>17, <1>18
  DEF Next, HandlerStep

(* ChatInv holds in every reachable state.                                 *)
THEOREM ChatInvAlways == Spec => []ChatInv
  BY ChatInvInit, ChatInvStep, PTL DEF Spec

(* Type correctness.                                                       *)
THEOREM TypeCorrect == Spec => []TypeOK
<1>1. ChatInv => TypeOK
  BY DEF ChatInv
<1>2. QED
  BY <1>1, ChatInvAlways, PTL

(* The registry's two maps agree, everything that streams is in them or    *)
(* was aborted, and nothing that is over is: no response is unreachable    *)
(* and no session stays locked, for any number of concurrent sends.        *)
THEOREM RegistryCorrect ==
  Spec => [](IndexAgrees /\ LiveStreamIsStoppable /\ RegistryHoldsOnlyLive)
<1>1. ChatInv => IndexAgrees /\ LiveStreamIsStoppable /\ RegistryHoldsOnlyLive
  BY DEF ChatInv
<1>2. QED
  BY <1>1, ChatInvAlways, PTL

(* `stopped` is only ever the result of an abort; rows and handlers agree; *)
(* no row outlives its session.                                            *)
THEOREM RowsCorrect ==
  Spec => [](StoppedOnlyIfAborted /\ RowFollowsHandler /\ NoRowOutlivesSession)
<1>1. ChatInv => StoppedOnlyIfAborted /\ RowFollowsHandler /\ NoRowOutlivesSession
  BY DEF ChatInv
<1>2. QED
  BY <1>1, ChatInvAlways, PTL

-----------------------------------------------------------------------------
(* Every step of ChatStream is a step of MessageLifecycle or stutters:     *)
(* CreatePending starts, Finalize settles, OpenSession interrupts,         *)
(* DeleteRow removes, everything else leaves row statuses and results be.  *)
LEMMA LifecycleStep ==
  ChatInv /\ [Next]_vars => [Lifecycle!LifecycleNext]_(Lifecycle!lifecycleVars)
<1> SUFFICES ASSUME ChatInv, [Next]_vars
             PROVE  [Lifecycle!LifecycleNext]_(Lifecycle!lifecycleVars)
  OBVIOUS
<1> USE DEF ChatInv, TypeOK, RowFollowsHandler, Running, Finished, RowStatus,
            RowError, NoRow, Exists, Goto, handler,
            Lifecycle!LifecycleNext, Lifecycle!lifecycleVars
<1>1. ASSUME NEW h \in Sends, NEW s \in Sessions, Receive(h, s)
      PROVE  UNCHANGED Lifecycle!lifecycleVars
  BY <1>1 DEF Receive
<1>2. ASSUME NEW h \in Sends, Admit(h)
      PROVE  UNCHANGED Lifecycle!lifecycleVars
  <2>1. PICK to \in {"rejected", "admitted"} : Goto(h, to)
    BY <1>2 DEF Admit
  <2>2. QED
    BY <1>2, <2>1 DEF Admit
<1>3. ASSUME NEW h \in Sends,
             Prompt(h) \/ StartStream(h) \/ EndStream(h) \/ FlushAndRelease(h)
               \/ Fail(h)
      PROVE  UNCHANGED Lifecycle!lifecycleVars
  BY <1>3 DEF Prompt, StartStream, EndStream, FlushAndRelease, Fail
<1>4. ASSUME NEW h \in Sends, CreatePending(h)
      PROVE  Lifecycle!Start(h)
  <2>1. row[h].status = "none"
    BY <1>4 DEF CreatePending
  <2>2. row' = [row EXCEPT ![h] = PendingRow]
    BY <1>4 DEF CreatePending
  <2>3. [g \in Sends |-> row'[g].status]
          = [[g \in Sends |-> row[g].status] EXCEPT ![h] = "streaming"]
    BY <2>2 DEF PendingRow
  <2>4. {g \in Sends : pc'[g] = "done"} = {g \in Sends : pc[g] = "done"}
    BY <1>4 DEF CreatePending
  <2>5. QED
    BY <2>1, <2>3, <2>4 DEF Lifecycle!Start
<1>5. ASSUME NEW h \in Sends, Finalize(h)
      PROVE  Lifecycle!Settle(h)
  <2>1. /\ pc[h] = "finalizing"
        /\ row[h].status \in {"streaming", "error"}
    BY <1>5 DEF Finalize
  <2>2. row' = [row EXCEPT ![h] = FinalizedRow(row[h], outcome[h])]
        /\ pc' = [pc EXCEPT ![h] = "done"]
    BY <1>5 DEF Finalize
  <2>3. outcome[h].status \in Lifecycle!Outcomes
    BY DEF Lifecycle!Outcomes
  <2>4. [g \in Sends |-> row'[g].status]
          = [[g \in Sends |-> row[g].status] EXCEPT ![h] = outcome[h].status]
    BY <2>2 DEF FinalizedRow
  <2>5. {g \in Sends : pc'[g] = "done"} = {g \in Sends : pc[g] = "done"} \cup {h}
    BY <2>2
  <2>6. QED
    BY <2>1, <2>3, <2>4, <2>5 DEF Lifecycle!Settle
<1>6. ASSUME NEW h \in Sends, StopRequest(h) \/ StopFire(h)
      PROVE  UNCHANGED Lifecycle!lifecycleVars
  BY <1>6 DEF StopRequest, StopFire
<1>7. ASSUME NEW s \in Sessions, OpenSession(s)
      PROVE  Lifecycle!Interrupt
  <2> DEFINE M == {h \in Sends : session[h] = s /\ row[h].status = "streaming"}
  <2>1. [h \in Sends |-> row'[h].status]
          = [h \in Sends |-> IF h \in M THEN "error" ELSE row[h].status]
    BY <1>7 DEF OpenSession, InterruptedRow
  <2>2. M \in SUBSET {h \in Sends : [g \in Sends |-> row[g].status][h] = "streaming"}
    OBVIOUS
  <2>3. UNCHANGED pc
    BY <1>7 DEF OpenSession
  <2>4. QED
    BY <2>1, <2>2, <2>3 DEF Lifecycle!Interrupt
<1>8. ASSUME NEW s \in Sessions, DeleteBegin(s)
      PROVE  UNCHANGED Lifecycle!lifecycleVars
  BY <1>8 DEF DeleteBegin
<1>9. ASSUME NEW s \in Sessions, DeleteRow(s)
      PROVE  Lifecycle!Remove
  <2> DEFINE M == {h \in Sends : session[h] = s /\ Exists(h)}
  <2>1. [h \in Sends |-> row'[h].status]
          = [h \in Sends |-> IF h \in M THEN "removed" ELSE row[h].status]
    BY <1>9 DEF DeleteRow, RemovedRow
  <2>2. M \in SUBSET {h \in Sends : [g \in Sends |-> row[g].status][h] # "none"}
    OBVIOUS
  <2>3. UNCHANGED pc
    BY <1>9 DEF DeleteRow
  <2>4. {h \in Sends : pc'[h] = "done"} = {h \in Sends : pc[h] = "done"}
    BY <2>3
  <2> HIDE DEF M
  <2>5. [h \in Sends |-> row'[h].status]
          = [h \in Sends |-> IF h \in M THEN "removed"
                             ELSE [g \in Sends |-> row[g].status][h]]
    BY <2>1
  <2>6. QED
    BY <2>2, <2>4, <2>5 DEF Lifecycle!Remove
<1>10. ASSUME Shutdown \/ Exit \/ Crash \/ Restart
       PROVE  UNCHANGED Lifecycle!lifecycleVars
  BY <1>10 DEF Shutdown, Exit, Crash, Restart, Abandon
<1>11. ASSUME UNCHANGED vars
       PROVE  UNCHANGED Lifecycle!lifecycleVars
  BY <1>11 DEF vars
<1>12. QED
  BY <1>1, <1>2, <1>3, <1>4, <1>5, <1>6, <1>7, <1>8, <1>9, <1>10, <1>11
  DEF Next, HandlerStep

(* ChatStream implements MessageLifecycle: one result per reply, and a     *)
(* complete or stopped row is final until its session is deleted.          *)
THEOREM ImplementsLifecycleAlways == Spec => ImplementsLifecycle
<1>1. Init => Lifecycle!LifecycleInit
  BY DEF Init, NoRow, Lifecycle!LifecycleInit
<1>2. QED
  BY <1>1, LifecycleStep, ChatInvAlways, PTL
  DEF Spec, ImplementsLifecycle, Lifecycle!LifecycleSpec
=============================================================================
