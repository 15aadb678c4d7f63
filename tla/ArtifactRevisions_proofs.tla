---------------------- MODULE ArtifactRevisions_proofs ----------------------
(***************************************************************************)
(* Proofs about ArtifactRevisions, for any number of calls, files and      *)
(* messages and any quotas.                                                *)
(***************************************************************************)
EXTENDS ArtifactRevisions, FiniteSetTheorems, TLAPS

(* What a call holds between its read and its commit: its latest row is a  *)
(* committed one of its file; the row it inserted follows that one; no     *)
(* other row has its key, and after a retry the row it read is as new as   *)
(* its attempts are many.                                                  *)
CallsConsistent ==
  \A w \in Writers :
    /\ pc[w] = "idle" => attempt[w] = 0
    /\ pc[w] # "idle" => file[w] \in Files /\ message[w] \in Messages
    /\ pc[w] \in {"inserting", "inserted"} =>
         /\ latest[w] # NoRow => latest[w] \in RevisionsOf(file[w])
         /\ attempt[w] > 0 => latest[w] # NoRow /\ revision[latest[w]] >= attempt[w]
    /\ pc[w] = "inserted" =>
         /\ revision[w] = NextRevision(w)
         /\ parent[w] = latest[w]
         /\ \A v \in Writers \ {w} : ~ HoldsKey(v, file[w], revision[w])

(* The checked invariants are inductive with CallsConsistent, which knows  *)
(* what the uncommitted rows will be.                                      *)
RevisionInv == /\ TypeOK
               /\ RevisionsContiguous
               /\ ParentIsPredecessor
               /\ RetryMeansProgress
               /\ CallsConsistent

(* The program starts in the invariant.                                    *)
LEMMA RevisionInvInit == Init => RevisionInv
  BY ArtifactRevisionsAssumption
  DEF Init, RevisionInv, TypeOK, RevisionsContiguous, ParentIsPredecessor,
      RetryMeansProgress, CallsConsistent, Committed, RevisionsOf, HoldsKey,
      NextRevision, InTransaction, Ended, LastAttempt

(* Every step of every action preserves it.                                *)
LEMMA RevisionInvStep == RevisionInv /\ [Next]_vars => RevisionInv'
<1> SUFFICES ASSUME RevisionInv, [Next]_vars PROVE RevisionInv'
  OBVIOUS
<1> USE ArtifactRevisionsAssumption
        DEF RevisionInv, TypeOK, RevisionsContiguous, ParentIsPredecessor,
            RetryMeansProgress, CallsConsistent, Committed, RevisionsOf,
            HoldsKey, NextRevision, InTransaction, Ended, LastAttempt, Goto,
            params
<1>1. ASSUME NEW w \in Writers, NEW f \in Files, NEW m \in Messages, Call(w, f, m)
      PROVE  RevisionInv'
<2>1. /\ pc[w] = "idle" /\ attempt[w] = 0 /\ revision[w] = 0
      /\ pc' = [pc EXCEPT ![w] = "counting"]
      /\ file' = [file EXCEPT ![w] = f]
      /\ message' = [message EXCEPT ![w] = m]
      /\ UNCHANGED <<attempt, latest, revision, parent>>
  BY <1>1 DEF Call
<2>2. TypeOK'
  BY <2>1
<2>3. RevisionsContiguous' /\ ParentIsPredecessor'
  BY <2>1
<2>4. RetryMeansProgress'
  BY <2>1
<2>5. CallsConsistent'
  BY <2>1
<2>6. QED
  BY <2>2, <2>3, <2>4, <2>5
<1>2. ASSUME NEW w \in Writers, CountMessage(w)
      PROVE  RevisionInv'
<2>1. PICK to \in {"quota", "counted"} : Goto(w, to)
    BY <1>2 DEF CountMessage
<2>2. QED
    BY <1>2, <2>1 DEF CountMessage
<1>3. ASSUME NEW w \in Writers, CountSession(w)
      PROVE  RevisionInv'
<2>1. PICK to \in {"quota", "reading"} : Goto(w, to)
    BY <1>3 DEF CountSession
<2>2. QED
    BY <1>3, <2>1 DEF CountSession
<1>4. ASSUME NEW w \in Writers, FindLatest(w)
      PROVE  RevisionInv'
  BY <1>4 DEF FindLatest, LatestAmong, Newest
<1>5. ASSUME NEW w \in Writers, InsertRow(w)
      PROVE  RevisionInv'
  BY <1>5 DEF InsertRow, MustWait, KeyTaken
<1>6. ASSUME NEW w \in Writers, InsertConflict(w)
      PROVE  RevisionInv'
<2>1. /\ pc[w] = "inserting"
      /\ UNCHANGED <<file, message, latest, revision, parent>>
  BY <1>6 DEF InsertConflict
<2>2. PICK v \in Committed : HoldsKey(v, file[w], NextRevision(w))
  BY <1>6 DEF InsertConflict, KeyTaken
<2>3. v \in RevisionsOf(file[w]) \ {w} /\ revision[v] >= attempt[w] + 1
  BY <2>1, <2>2
<2>4. CASE attempt[w] = LastAttempt
  <3>1. pc' = [pc EXCEPT ![w] = "conflict"] /\ UNCHANGED attempt
    BY <1>6, <2>4 DEF InsertConflict
  <3>2. TypeOK' /\ RevisionsContiguous' /\ ParentIsPredecessor' /\ CallsConsistent'
    BY <2>1, <3>1
  <3>3. RetryMeansProgress'
    BY <2>1, <2>3, <2>4, <3>1
  <3>4. QED
    BY <3>2, <3>3
<2>5. CASE attempt[w] # LastAttempt
  <3>1. /\ pc' = [pc EXCEPT ![w] = "counting"]
        /\ attempt' = [attempt EXCEPT ![w] = @ + 1]
    BY <1>6, <2>5 DEF InsertConflict
  <3>2. TypeOK' /\ RevisionsContiguous' /\ ParentIsPredecessor' /\ CallsConsistent'
    BY <2>1, <2>5, <3>1
  <3>3. RetryMeansProgress'
    BY <2>1, <2>3, <2>5, <3>1
  <3>4. QED
    BY <3>2, <3>3
<2>6. QED
  BY <2>4, <2>5
<1>7. ASSUME NEW w \in Writers, Commit(w)
      PROVE  RevisionInv'
  BY <1>7 DEF Commit
<1>8. ASSUME NEW w \in Writers, Fail(w)
      PROVE  RevisionInv'
  BY <1>8 DEF Fail
<1>9. CASE UNCHANGED vars
  BY <1>9 DEF vars
<1>10. QED
  BY <1>1, <1>2, <1>3, <1>4, <1>5, <1>6, <1>7, <1>8, <1>9 DEF Next, Progress

(* RevisionInv holds in every reachable state.                             *)
THEOREM RevisionInvAlways == Spec => []RevisionInv
  BY RevisionInvInit, RevisionInvStep, PTL DEF Spec

(* Type correctness.                                                       *)
THEOREM RevisionTypeCorrect == Spec => []TypeOK
<1>1. RevisionInv => TypeOK
  BY DEF RevisionInv
<1>2. QED
  BY <1>1, RevisionInvAlways, PTL

(* However many calls race, fail or are retried, the revisions of a file   *)
(* are 1, 2, 3 ... and each one's parent is the one before it.             *)
THEOREM ChainCorrect == Spec => [](RevisionsContiguous /\ ParentIsPredecessor)
<1>1. RevisionInv => RevisionsContiguous /\ ParentIsPredecessor
  BY DEF RevisionInv
<1>2. QED
  BY <1>1, RevisionInvAlways, PTL

(* A call is retried, or throws a conflict, only because others of the     *)
(* file succeeded.                                                         *)
THEOREM RetryCorrect == Spec => []RetryMeansProgress
<1>1. RevisionInv => RetryMeansProgress
  BY DEF RevisionInv
<1>2. QED
  BY <1>1, RevisionInvAlways, PTL

-----------------------------------------------------------------------------
(* Committed rows stay, so a set of committed rows that only depends on    *)
(* what never changes in them can only grow.                               *)
LEMMA CommittedGrows ==
  ASSUME RevisionInv, [Next]_vars
  PROVE  /\ Committed \subseteq Committed'
         /\ \A v \in Writers : pc[v] # "idle" => message'[v] = message[v]
         /\ \A v \in Writers : pc[v] # "idle" => pc'[v] # "idle"
<1> USE DEF RevisionInv, TypeOK, Committed, Goto, params, InTransaction
<1>1. CASE Next
  BY <1>1 DEF Next, Progress, Call, CountMessage, CountSession, FindLatest,
     InsertRow, InsertConflict, Commit, Fail
<1>2. CASE UNCHANGED vars
  BY <1>2 DEF vars
<1>3. QED
  BY <1>1, <1>2

(* A quota that was full stays full: the refusals stay justified.          *)
LEMMA QuotaStep ==
  RevisionInv /\ QuotaRefusalJustified /\ [Next]_vars => QuotaRefusalJustified'
<1> SUFFICES ASSUME RevisionInv, QuotaRefusalJustified, [Next]_vars,
                    NEW w \in Writers, pc'[w] = "quota"
             PROVE  \/ Cardinality({v \in Committed : message[v] = message[w]})'
                         >= MaxPerMessage
                    \/ Cardinality(Committed)' >= MaxPerSession
  BY DEF QuotaRefusalJustified
<1> DEFINE InMessage == {v \in Committed : message[v] = message[w]}
<1>1. pc[w] # "idle" /\ message'[w] = message[w]
  <2>1. pc[w] = "idle" => pc'[w] \in {"idle", "counting"}
    BY DEF RevisionInv, TypeOK, Goto, params, InTransaction, vars, Next,
       Progress, Call, CountMessage, CountSession, FindLatest, InsertRow,
       InsertConflict, Commit, Fail
  <2>2. QED
    BY <2>1, CommittedGrows
<1>2. Committed \subseteq Committed' /\ InMessage \subseteq InMessage'
  BY <1>1, CommittedGrows DEF Committed
<1>3. /\ IsFiniteSet(Committed) /\ IsFiniteSet(Committed')
      /\ IsFiniteSet(InMessage) /\ IsFiniteSet(InMessage')
  <2>1. /\ Committed \subseteq Writers /\ Committed' \subseteq Writers
        /\ InMessage \subseteq Writers /\ InMessage' \subseteq Writers
    BY DEF Committed
  <2>2. QED
    BY <2>1, FS_Subset, ArtifactRevisionsAssumption
<1>4. /\ Cardinality(Committed) <= Cardinality(Committed')
      /\ Cardinality(InMessage) <= Cardinality(InMessage')
      /\ Cardinality(Committed) \in Nat /\ Cardinality(Committed') \in Nat
      /\ Cardinality(InMessage) \in Nat /\ Cardinality(InMessage') \in Nat
  BY <1>2, <1>3, FS_Subset, FS_CardinalityType
<1>5. Cardinality(InMessage) >= MaxPerMessage \/ Cardinality(Committed) >= MaxPerSession
  <2>1. CASE pc[w] = "quota"
    BY <2>1 DEF QuotaRefusalJustified
  <2>2. CASE pc[w] # "quota"
    <3>1. CountMessage(w) \/ CountSession(w)
      <4>1. ASSUME NEW v \in Writers,
                   \/ \E f \in Files, m \in Messages : Call(v, f, m)
                   \/ FindLatest(v) \/ InsertRow(v) \/ InsertConflict(v)
                   \/ Commit(v) \/ Fail(v)
            PROVE  pc'[w] # "quota"
        BY <2>2, <4>1 DEF RevisionInv, TypeOK, Goto, Call, FindLatest,
           InsertRow, InsertConflict, Commit, Fail
      <4>2. ASSUME NEW v \in Writers \ {w}, CountMessage(v) \/ CountSession(v)
            PROVE  pc'[w] # "quota"
        BY <2>2, <4>2 DEF RevisionInv, TypeOK, Goto, CountMessage, CountSession
      <4>3. ASSUME UNCHANGED vars
            PROVE  pc'[w] # "quota"
        BY <2>2, <4>3 DEF vars
      <4>4. QED
        BY <4>1, <4>2, <4>3 DEF Next, Progress
    <3>2. QED
      BY <2>2, <3>1 DEF RevisionInv, TypeOK, Goto, CountMessage, CountSession
  <2>3. QED
    BY <2>1, <2>2
<1>6. QED
  BY <1>4, <1>5, ArtifactRevisionsAssumption

(* A refusal for the quota is never due to calls that failed or have not   *)
(* committed.                                                              *)
THEOREM QuotaCorrect == Spec => []QuotaRefusalJustified
<1>1. Init => QuotaRefusalJustified
  BY DEF Init, QuotaRefusalJustified
<1>2. QED
  BY <1>1, QuotaStep, RevisionInvAlways, PTL DEF Spec

-----------------------------------------------------------------------------
(* Every step is a step of RevisionLog or stutters: Commit appends, a      *)
(* refused, conflicting or failing call ends without a trace.              *)
LEMMA LogStep == RevisionInv /\ [Next]_vars => [Log!LogNext]_(Log!logVars)
<1> SUFFICES ASSUME RevisionInv, [Next]_vars PROVE [Log!LogNext]_(Log!logVars)
  OBVIOUS
<1> USE ArtifactRevisionsAssumption
        DEF RevisionInv, TypeOK, Committed, RevisionsOf, InTransaction, Ended,
            Goto, params, Log!logVars
<1> DEFINE Revisions(f) == {<<revision[w], w>> : w \in RevisionsOf(f)}
           log == [f \in Files |-> Revisions(f)]
           ended == {w \in Writers : pc[w] \in Ended}
<1>1. ASSUME NEW w \in Writers,
             pc[w] \notin Ended, pc' = [pc EXCEPT ![w] = "created"],
             Commit(w)
      PROVE  Log!LogNext
  <2>1. /\ pc[w] = "inserted"
        /\ file[w] \in Files
        /\ \A v \in Committed : ~ HoldsKey(v, file[w], revision[w])
        /\ \/ revision[w] = 1
           \/ \E v \in RevisionsOf(file[w]) : revision[w] = revision[v] + 1
    BY <1>1 DEF Commit, CallsConsistent, NextRevision
  <2>2. UNCHANGED <<file, revision>>
    BY <1>1 DEF Commit
  <2>3. ended' = ended \cup {w} /\ w \notin ended
    BY <1>1
  <2>4. ASSUME NEW f \in Files
        PROVE  RevisionsOf(f)' = IF f = file[w] THEN RevisionsOf(f) \cup {w}
                                               ELSE RevisionsOf(f)
    BY <1>1, <2>1, <2>2
  <2>5. ASSUME NEW f \in Files
        PROVE  Revisions(f)' = IF f = file[w]
                               THEN Revisions(f) \cup {<<revision[w], w>>}
                               ELSE Revisions(f)
    BY <2>2, <2>4
  <2>6. log' = [log EXCEPT ![file[w]] = @ \cup {<<revision[w], w>>}]
    <3>1. log' = [f \in Files |-> Revisions(f)']
      OBVIOUS
    <3> HIDE DEF Revisions
    <3>2. QED
      BY ONLY <2>1, <2>5, <3>1 DEF log
  <2>7. ~ \E e \in log[file[w]] : e[1] = revision[w]
    BY <2>1 DEF HoldsKey
  <2>8. revision[w] \in {1} \cup {e[1] + 1 : e \in log[file[w]]}
    <3>1. CASE revision[w] = 1
      BY <3>1
    <3>2. ASSUME NEW v \in RevisionsOf(file[w]), revision[w] = revision[v] + 1
          PROVE  \E e \in log[file[w]] : revision[w] = e[1] + 1
      <4>1. <<revision[v], v>> \in log[file[w]]
        BY <2>1, <3>2
      <4>2. <<revision[v], v>>[1] = revision[v]
        OBVIOUS
      <4>3. QED
        BY ONLY <3>2, <4>1, <4>2
    <3>3. QED
      BY ONLY <2>1, <3>1, <3>2
  <2>9. \E v \in Writers, f \in Files : \E n \in {1} \cup {e[1] + 1 : e \in log[f]} :
          /\ v \notin ended
          /\ ~ \E e \in log[f] : e[1] = n
          /\ log' = [log EXCEPT ![f] = @ \cup {<<n, v>>}]
          /\ ended' = ended \cup {v}
    <3> HIDE DEF log, ended, RevisionInv, Committed, RevisionsOf
    <3>1. QED
      BY ONLY <2>1, <2>3, <2>6, <2>7, <2>8
  <2>10. QED
    BY ONLY <2>9 DEF Log!LogNext, Log!Append, Log!HasRevision, Log!Successors
<1>2. ASSUME NEW w \in Writers, UNCHANGED <<file, message>>,
             pc[w] \in InTransaction,
             NEW to \in Ended \ {"created"}, pc' = [pc EXCEPT ![w] = to],
             \A v \in Writers \ {w} : revision'[v] = revision[v]
      PROVE  Log!LogNext
  <2>1. ended' = ended \cup {w} /\ w \notin ended
    BY <1>2
  <2>2. ASSUME NEW f \in Files
        PROVE  /\ RevisionsOf(f)' = RevisionsOf(f)
               /\ \A v \in RevisionsOf(f) : revision'[v] = revision[v]
    BY <1>2
  <2>3. ASSUME NEW f \in Files PROVE Revisions(f)' = Revisions(f)
    BY <2>2
  <2>4. log' = log
    BY <2>3
  <2>5. \E v \in Writers : v \notin ended /\ ended' = ended \cup {v} /\ log' = log
    BY <2>1, <2>4
  <2>6. QED
    BY ONLY <2>5 DEF Log!LogNext, Log!Refuse
<1>3. ASSUME NEW w \in Writers, pc[w] \notin Ended,
             NEW to \in {"idle"} \cup InTransaction, pc' = [pc EXCEPT ![w] = to],
             \A v \in Writers \ {w} : revision'[v] = revision[v]
                                     /\ file'[v] = file[v]
      PROVE  UNCHANGED Log!logVars
  <2>1. ended' = ended
    BY <1>3
  <2>2. ASSUME NEW f \in Files
        PROVE  /\ RevisionsOf(f)' = RevisionsOf(f)
               /\ \A v \in RevisionsOf(f) : revision'[v] = revision[v]
    BY <1>3
  <2>3. ASSUME NEW f \in Files PROVE Revisions(f)' = Revisions(f)
    BY <2>2
  <2>4. log' = log
    BY <2>3
  <2>5. QED
    BY <2>1, <2>4
<1>4. ASSUME NEW w \in Writers, NEW f \in Files, NEW m \in Messages, Call(w, f, m)
      PROVE  UNCHANGED Log!logVars
  BY <1>3, <1>4 DEF Call
<1>5. ASSUME NEW w \in Writers, CountMessage(w) \/ CountSession(w)
      PROVE  Log!LogNext \/ UNCHANGED Log!logVars
  <2>1. PICK to \in {"quota", "counted", "reading"} : pc' = [pc EXCEPT ![w] = to]
    BY <1>5 DEF CountMessage, CountSession
  <2>2. QED
    BY <1>2, <1>3, <1>5, <2>1 DEF CountMessage, CountSession
<1>6. ASSUME NEW w \in Writers, FindLatest(w) \/ InsertRow(w)
      PROVE  UNCHANGED Log!logVars
  BY <1>3, <1>6 DEF FindLatest, InsertRow
<1>7. ASSUME NEW w \in Writers, InsertConflict(w)
      PROVE  Log!LogNext \/ UNCHANGED Log!logVars
  BY <1>2, <1>3, <1>7 DEF InsertConflict
<1>8. ASSUME NEW w \in Writers, Fail(w)
      PROVE  Log!LogNext
  BY <1>2, <1>8 DEF Fail
<1>9. ASSUME NEW w \in Writers, Commit(w)
      PROVE  Log!LogNext
  BY <1>1, <1>9 DEF Commit
<1>10. ASSUME UNCHANGED vars
       PROVE  UNCHANGED Log!logVars
  BY <1>10 DEF vars
<1> HIDE DEF Log!logVars
<1>11. QED
  BY <1>4, <1>5, <1>6, <1>7, <1>8, <1>9, <1>10 DEF Next, Progress

(* createRevision implements an append-only list per file, for any number  *)
(* of concurrent calls.                                                    *)
THEOREM ImplementsLogAlways == Spec => ImplementsLog
<1>1. Init => Log!LogInit
  BY DEF Init, RevisionsOf, Committed, Ended, Log!LogInit
<1>2. QED
  BY <1>1, LogStep, RevisionInvAlways, PTL
  DEF Spec, ImplementsLog, Log!LogSpec
=============================================================================
