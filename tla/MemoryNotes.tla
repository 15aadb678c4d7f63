---------------------------- MODULE MemoryNotes ----------------------------
(***************************************************************************)
(* What the application remembers of one user: after every exchange a      *)
(* background job asks a model for facts and stores each that is new, and  *)
(* evicts the oldest notes over a cap.  Jobs of several chats run at once; *)
(* the user erases notes meanwhile.  Every query is a step.                *)
(***************************************************************************)
EXTENDS Integers, Sequences, FiniteSets

CONSTANTS Jobs,        \* finished exchanges, each with its extraction
          Facts,       \* what a fact says, ignoring case and outer blanks
          Unfit,       \* facts that are blank or over MAX_MEMORY_NOTE_BYTES
          Answers,     \* what the model may answer: [shape, values]
          MaxFacts,    \* MAX_FACTS_PER_EXTRACTION
          MaxNotes,    \* MAX_MEMORY_NOTES_PER_USER
          MaxErasures  \* bound: deletions by the user

ASSUME NotesAssumption ==
  /\ MaxFacts \in Nat /\ MaxNotes \in Nat /\ MaxErasures \in Nat
  /\ \A answer \in Answers : answer.values \in Seq(Facts)

VARIABLES
  notes,     \* the rows of user_memory_notes: [id, fact], ids by createdAt
  made,      \* how many notes were ever created; the newest one's id
  evicted,   \* the ids evictOverflow deleted
  erasures,  \* deletions by the user so far
  step,      \* where a job is
  todo,      \* the facts it has still to store
  overflow,  \* how many notes it found too many
  victims    \* the ids it is about to delete

tableVars == <<notes, made, evicted>>
jobVars   == <<step, todo, overflow, victims>>
notesVars == <<tableVars, erasures, jobVars>>

(* parseFacts: the shape asked for, a bare array and a flat object of      *)
(* strings give their strings, anything else nothing.                      *)
Understood == {"facts", "array", "flat"}
ParseFacts(answer) == IF answer.shape \in Understood THEN answer.values ELSE << >>
Take(seq, n) == SubSeq(seq, 1, IF Len(seq) < n THEN Len(seq) ELSE n)
Ids(rows) == {n.id : n \in rows}
Without(ids) == {n \in notes : n.id \notin ids}

NotesInit ==
  /\ notes = {} /\ made = 0 /\ evicted = {} /\ erasures = 0
  /\ step = [j \in Jobs |-> "idle"]
  /\ todo = [j \in Jobs |-> << >>]
  /\ overflow = [j \in Jobs |-> 0]
  /\ victims = [j \in Jobs |-> {}]

Moves(j, from, to) == step[j] = from /\ step' = [step EXCEPT ![j] = to]

(* extractFromExchange and runExtraction: an answer that is not OK, or no  *)
(* base URL, is no facts; a time-out or an unreachable model throws        *)
(* (GiveUpJob).                                                            *)
RunExtraction(j) ==
  /\ Moves(j, "idle", "next")
  /\ \E answer \in Answers :
       todo' = [todo EXCEPT ![j] = Take(ParseFacts(answer), MaxFacts)]
  /\ UNCHANGED <<tableVars, erasures, overflow, victims>>

(* upsertNote: what cannot be stored is skipped; a known fact is skipped   *)
(* too.                                                                    *)
(* Mutation: the bounds on a note are forgotten.                           *)
TakesAnyFact(fact) == fact \in Facts
Storable(fact) == fact \notin Unfit
Known(fact) == \E n \in notes : n.fact = fact
NextFact(j) ==
  /\ todo[j] # << >>
  /\ \/ /\ ~Storable(Head(todo[j])) \/ Known(Head(todo[j]))
        /\ Moves(j, "next", "next")
        /\ todo' = [todo EXCEPT ![j] = Tail(@)]
     \/ /\ Storable(Head(todo[j])) /\ ~Known(Head(todo[j]))
        /\ Moves(j, "next", "create")
        /\ UNCHANGED todo
  /\ UNCHANGED <<tableVars, erasures, overflow, victims>>
Finish(j) == /\ todo[j] = << >> /\ Moves(j, "next", "done")
             /\ UNCHANGED <<tableVars, erasures, todo, overflow, victims>>

CreateNote(j) ==
  /\ Moves(j, "create", "count")
  /\ made' = made + 1
  /\ notes' = notes \cup {[id |-> made + 1, fact |-> Head(todo[j])]}
  /\ todo' = [todo EXCEPT ![j] = Tail(@)]
  /\ UNCHANGED <<evicted, erasures, overflow, victims>>

(* evictOverflow: count, find the oldest, delete them, each on its own     *)
Overflow == Cardinality(notes) - MaxNotes
CountNotes(j) ==
  /\ Moves(j, "count", IF Overflow > 0 THEN "find" ELSE "next")
  /\ overflow' = [overflow EXCEPT ![j] = IF Overflow > 0 THEN Overflow ELSE 0]
  /\ UNCHANGED <<tableVars, erasures, todo, victims>>
Page(n) == {rows \in SUBSET notes :
              Cardinality(rows) = IF Cardinality(notes) < n THEN Cardinality(notes)
                                                            ELSE n}
(* Mutation: the notes to evict are read newest first.                     *)
Newest(n) ==
  {rows \in Page(n) : \A new \in rows, old \in notes \ rows : old.id < new.id}
Oldest(n) ==
  {rows \in Page(n) : \A old \in rows, new \in notes \ rows : old.id < new.id}
FindOldest(j) ==
  /\ Moves(j, "find", "delete")
  /\ \E rows \in Oldest(overflow[j]) :
       victims' = [victims EXCEPT ![j] = Ids(rows)]
  /\ overflow' = [overflow EXCEPT ![j] = 0]
  /\ UNCHANGED <<tableVars, erasures, todo>>
DeleteOldest(j) ==
  /\ Moves(j, "delete", "next")
  /\ notes' = Without(victims[j])
  /\ evicted' = evicted \cup (victims[j] \cap Ids(notes))
  /\ victims' = [victims EXCEPT ![j] = {}]
  /\ UNCHANGED <<made, erasures, todo, overflow>>

(* Anything throws: extractFromExchange logs it, the job is over.          *)
GiveUpJob(j) ==
  /\ step[j] \notin {"done", "failed"} /\ Moves(j, step[j], "failed")
  /\ todo' = [todo EXCEPT ![j] = << >>]
  /\ overflow' = [overflow EXCEPT ![j] = 0]
  /\ victims' = [victims EXCEPT ![j] = {}]
  /\ UNCHANGED <<tableVars, erasures>>

(* DELETE settings/memory/:id and settings/memory                          *)
Erase(ids) == /\ erasures < MaxErasures /\ erasures' = erasures + 1
              /\ notes' = Without(ids)
              /\ UNCHANGED <<made, evicted, jobVars>>
EraseOne == \E id \in Ids(notes) : Erase({id})
EraseAll == notes # {} /\ Erase(Ids(notes))

JobStep(j) ==
  \/ RunExtraction(j) \/ NextFact(j) \/ Finish(j) \/ CreateNote(j)
  \/ CountNotes(j) \/ FindOldest(j) \/ DeleteOldest(j) \/ GiveUpJob(j)
NotesNext == (\E j \in Jobs : JobStep(j)) \/ EraseOne \/ EraseAll
NotesSpec == NotesInit /\ [][NotesNext]_notesVars

-----------------------------------------------------------------------------
NotesTypeOK ==
  /\ notes \subseteq [id : 1..made, fact : Facts \ Unfit] /\ made \in Nat
  /\ evicted \subseteq 1..made /\ erasures \in 0..MaxErasures
  /\ step \in [Jobs -> {"idle", "next", "create", "count", "find", "delete",
                        "done", "failed"}]
  /\ todo \in [Jobs -> Seq(Facts)] /\ overflow \in [Jobs -> Nat]
  /\ victims \in [Jobs -> SUBSET (1..made)]

Quiet == \A j \in Jobs : step[j] \in {"idle", "next", "done"}

(* However the counts, reads and deletions of several evictions mix, what  *)
(* stays is newer than whatever was evicted, and once no job is between    *)
(* creating and evicting, and none broke off, the cap holds                *)
(* (memory.service.ts:176).                                                *)
NewestNotesKept ==
  /\ \A id \in evicted, kept \in Ids(notes) : id < kept
  /\ Quiet => Cardinality(notes) <= MaxNotes
=============================================================================
