------------------------- MODULE ArtifactRevisions -------------------------
(***************************************************************************)
(* ArtifactsService.createRevision, called concurrently for one chat       *)
(* session: by the user's edits (artifact:edit, REST) and by the handler   *)
(* of a streaming reply.  Each call runs up to three transactions at READ  *)
(* COMMITTED: count, check the quotas, read the latest revision, insert    *)
(* the next one.                                                           *)
(*                                                                         *)
(* What the database contributes: a statement sees the rows committed when *)
(* it started; an INSERT whose (session, filename, revision) is taken by   *)
(* an uncommitted row waits for that transaction, and fails with P2002     *)
(* once the row that holds the key is committed.                           *)
(*                                                                         *)
(* A call inserts at most one row, so the row is named by its call.  Left  *)
(* out: content, language and origin, the checks of name and size made     *)
(* before the first transaction, and deletion of the session.              *)
(***************************************************************************)
EXTENDS Naturals, FiniteSets

CONSTANTS Writers,        \* calls of createRevision
          Files,          \* normalized filenames
          Messages,       \* messages the revisions are attached to
          NoRow,          \* no row, file or message
          MaxPerMessage,  \* MAX_ARTIFACT_REVISIONS_PER_MESSAGE
          MaxPerSession   \* MAX_ARTIFACT_REVISIONS_PER_SESSION

ASSUME ArtifactRevisionsAssumption ==
  /\ IsFiniteSet(Writers)
  /\ NoRow \notin Writers \cup Files \cup Messages
  /\ MaxPerMessage \in Nat
  /\ MaxPerSession \in Nat

VARIABLES
  pc,        \* where a call is
  attempt,   \* its attempt, from 0
  file,      \* its filename
  message,   \* its messageId
  latest,    \* the row it read as the latest of its file
  revision,  \* the revision number of the row it inserted, 0 before that
  parent     \* that row's parentArtifactId

params == <<file, message>>
vars   == <<pc, attempt, file, message, latest, revision, parent>>

LastAttempt == 2

Ended == {"created", "quota", "conflict", "failed"}

InTransaction == {"counting", "counted", "reading", "inserting", "inserted"}

Goto(w, to) == pc' = [pc EXCEPT ![w] = to]

(* What a statement of another transaction sees.                           *)
Committed == {w \in Writers : pc[w] = "created"}

RevisionsOf(f) == {w \in Committed : file[w] = f}

(* The revision an INSERT writes: (latest?.revision ?? 0) + 1.             *)
NextRevision(w) == IF latest[w] = NoRow THEN 1 ELSE revision[latest[w]] + 1

HoldsKey(v, f, n) == file[v] = f /\ revision[v] = n

Init ==
  /\ pc = [w \in Writers |-> "idle"]
  /\ attempt = [w \in Writers |-> 0]
  /\ file = [w \in Writers |-> NoRow]
  /\ message = [w \in Writers |-> NoRow]
  /\ latest = [w \in Writers |-> NoRow]
  /\ revision = [w \in Writers |-> 0]
  /\ parent = [w \in Writers |-> NoRow]

-----------------------------------------------------------------------------
Call(w, f, m) ==
  /\ pc[w] = "idle"
  /\ Goto(w, "counting")
  /\ file' = [file EXCEPT ![w] = f]
  /\ message' = [message EXCEPT ![w] = m]
  /\ UNCHANGED <<attempt, latest, revision, parent>>

(* The two counts are two statements; a full quota ends the call.          *)
CountMessage(w) ==
  /\ pc[w] = "counting"
  /\ Goto(w, IF Cardinality({v \in Committed : message[v] = message[w]})
                  >= MaxPerMessage
             THEN "quota" ELSE "counted")
  /\ UNCHANGED <<attempt, params, latest, revision, parent>>

(* Mutation: the check counts every call's row, committed or not.          *)
CountSessionDirty(w) ==
  /\ pc[w] = "counted"
  /\ Goto(w, IF Cardinality({v \in Writers : pc[v] # "idle"}) > MaxPerSession
             THEN "quota" ELSE "reading")
  /\ UNCHANGED <<attempt, params, latest, revision, parent>>

CountSession(w) ==
  /\ pc[w] = "counted"
  /\ Goto(w, IF Cardinality(Committed) >= MaxPerSession
             THEN "quota" ELSE "reading")
  /\ UNCHANGED <<attempt, params, latest, revision, parent>>

Newest(rows) == {v \in rows : \A u \in rows : revision[u] <= revision[v]}

LatestAmong(rows) == IF rows = {} THEN {NoRow} ELSE Newest(rows)

(* Mutations: the latest revision of any file is read; an uncommitted row  *)
(* is read.                                                                *)
FindLatestAnyFile(w) ==
  /\ pc[w] = "reading"
  /\ \E v \in LatestAmong(Committed) : latest' = [latest EXCEPT ![w] = v]
  /\ Goto(w, "inserting")
  /\ UNCHANGED <<attempt, params, revision, parent>>

FindLatestDirty(w) ==
  /\ pc[w] = "reading"
  /\ \E v \in LatestAmong({u \in Writers : file[u] = file[w] /\ revision[u] > 0}) :
       latest' = [latest EXCEPT ![w] = v]
  /\ Goto(w, "inserting")
  /\ UNCHANGED <<attempt, params, revision, parent>>

(* findFirst ... ORDER BY revision DESC                                    *)
FindLatest(w) ==
  /\ pc[w] = "reading"
  /\ \E v \in LatestAmong(RevisionsOf(file[w])) : latest' = [latest EXCEPT ![w] = v]
  /\ Goto(w, "inserting")
  /\ UNCHANGED <<attempt, params, revision, parent>>

(* The unique index makes the INSERT wait for an uncommitted row with the  *)
(* same key.                                                               *)
MustWait(w) == \E v \in Writers : pc[v] = "inserted"
                                  /\ HoldsKey(v, file[w], NextRevision(w))

KeyTaken(w) == \E v \in Committed : HoldsKey(v, file[w], NextRevision(w))

InsertRow(w) ==
  /\ pc[w] = "inserting"
  /\ ~ MustWait(w)
  /\ ~ KeyTaken(w)
  /\ revision' = [revision EXCEPT ![w] = NextRevision(w)]
  /\ parent' = [parent EXCEPT ![w] = latest[w]]
  /\ Goto(w, "inserted")
  /\ UNCHANGED <<attempt, params, latest>>

(* Mutations: only the INSERT is retried, for ever; one conflict counts as *)
(* two attempts.                                                           *)
RetryInsertOnly(w) ==
  /\ pc[w] = "inserting"
  /\ ~ MustWait(w)
  /\ KeyTaken(w)
  /\ UNCHANGED vars

RetryTwice(w) ==
  /\ pc[w] = "inserting"
  /\ ~ MustWait(w)
  /\ KeyTaken(w)
  /\ attempt' = [attempt EXCEPT ![w] = 2]
  /\ Goto(w, IF attempt[w] = LastAttempt THEN "conflict" ELSE "counting")
  /\ UNCHANGED <<params, latest, revision, parent>>

(* P2002 rolls the transaction back; the third one is thrown.              *)
InsertConflict(w) ==
  /\ pc[w] = "inserting"
  /\ ~ MustWait(w)
  /\ KeyTaken(w)
  /\ IF attempt[w] = LastAttempt
     THEN Goto(w, "conflict") /\ UNCHANGED attempt
     ELSE Goto(w, "counting") /\ attempt' = [attempt EXCEPT ![w] = @ + 1]
  /\ UNCHANGED <<params, latest, revision, parent>>

Commit(w) ==
  /\ pc[w] = "inserted"
  /\ Goto(w, "created")
  /\ UNCHANGED <<attempt, params, latest, revision, parent>>

(* Mutation: the row survives the failure of its transaction.              *)
FailKeepsRow(w) ==
  /\ pc[w] \in InTransaction
  /\ Goto(w, "failed")
  /\ UNCHANGED <<attempt, params, latest, revision, parent>>

(* Any other database error, or the transaction timeout: rolled back and   *)
(* thrown, not retried.                                                    *)
Fail(w) ==
  /\ pc[w] \in InTransaction
  /\ Goto(w, "failed")
  /\ revision' = [revision EXCEPT ![w] = 0]
  /\ parent' = [parent EXCEPT ![w] = NoRow]
  /\ UNCHANGED <<attempt, params, latest>>

Progress(w) == \/ CountMessage(w) \/ CountSession(w) \/ FindLatest(w)
               \/ InsertRow(w) \/ InsertConflict(w) \/ Commit(w)

Next == \E w \in Writers :
          \/ \E f \in Files, m \in Messages : Call(w, f, m)
          \/ Progress(w)
          \/ Fail(w)

Spec == Init /\ [][Next]_vars

(* Node and PostgreSQL carry every call on; no transaction has to fail.    *)
FairSpec == Spec /\ \A w \in Writers : WF_vars(Progress(w))

-----------------------------------------------------------------------------
(* Properties *)

(* Every variable keeps its type, and a row exists exactly while its       *)
(* transaction is open or committed.                                       *)
TypeOK ==
  /\ pc \in [Writers -> {"idle"} \cup InTransaction \cup Ended]
  /\ attempt \in [Writers -> 0..LastAttempt]
  /\ file \in [Writers -> Files \cup {NoRow}]
  /\ message \in [Writers -> Messages \cup {NoRow}]
  /\ latest \in [Writers -> Writers \cup {NoRow}]
  /\ revision \in [Writers -> Nat]
  /\ parent \in [Writers -> Writers \cup {NoRow}]
  /\ \A w \in Writers : revision[w] # 0 <=> pc[w] \in {"inserted", "created"}

(* The revisions of a file are numbered 1, 2, 3 ... without a gap or a     *)
(* repetition, whatever calls raced, were retried or failed (plan.md:369). *)
RevisionsContiguous ==
  \A w \in Committed :
    /\ \A v \in Committed \ {w} : ~ HoldsKey(v, file[w], revision[w])
    /\ revision[w] = 1 \/ \E v \in Committed : HoldsKey(v, file[w], revision[w] - 1)

(* The parent of a revision is the revision before it of the same file, so *)
(* the history a user is shown is one chain.                               *)
ParentIsPredecessor ==
  \A w \in Committed :
    IF revision[w] = 1
    THEN parent[w] = NoRow
    ELSE /\ parent[w] \in Committed
         /\ HoldsKey(parent[w], file[w], revision[w] - 1)

(* A call is turned away for the quota only when its message or the        *)
(* session is full of committed revisions: a failed or waiting call never  *)
(* uses up another's place.                                                *)
QuotaRefusalJustified ==
  \A w \in Writers : pc[w] = "quota" =>
    \/ Cardinality({v \in Committed : message[v] = message[w]}) >= MaxPerMessage
    \/ Cardinality(Committed) >= MaxPerSession

(* Each retry was lost to another revision of the file, so a call throws   *)
(* the conflict only when three other calls got their revisions in.        *)
RetryMeansProgress ==
  \A w \in Writers :
    LET lost == IF pc[w] = "conflict" THEN LastAttempt + 1 ELSE attempt[w]
    IN lost > 0 => \E v \in RevisionsOf(file[w]) \ {w} : revision[v] >= lost

(* Concurrent calls implement an append-only list per file.                *)
Log == INSTANCE RevisionLog
         WITH log   <- [f \in Files |->
                          {<<revision[w], w>> : w \in RevisionsOf(f)}],
              ended <- {w \in Writers : pc[w] \in Ended}

ImplementsLog == Log!LogSpec

(* No edit hangs: calls that wait for each other's rows all end.           *)
EveryCallEnds == \A w \in Writers : pc[w] # "idle" ~> pc[w] \in Ended

-----------------------------------------------------------------------------
(* What the code's own text and the plan say and the code does not do      *)

(* artifacts.service.ts:98: "A message may contain at most                 *)
(* MAX_ARTIFACT_REVISIONS_PER_MESSAGE artifact revisions".                 *)
QuotaHolds ==
  \A m \in Messages : Cardinality({w \in Committed : message[w] = m}) <= MaxPerMessage
=============================================================================
