--------------------------- MODULE ArtifactStream ---------------------------
(***************************************************************************)
(* Files in a reply: ArtifactStreamParser splits the text of a reply into  *)
(* prose and fenced blocks while it arrives, and the gateway's             *)
(* handleSegments mirrors each block to the editors and saves it as a      *)
(* revision.                                                               *)
(*                                                                         *)
(* The text is a sequence of units: one backtick, the header with a file   *)
(* name that follows three of them (a header without one is like none, and *)
(* a header is held back the same wherever it is cut), the characters CR   *)
(* and LF, and other text, which does not continue a header.  The provider *)
(* cuts it between any two.  Saving is one step here: ArtifactRevisions    *)
(* models what happens inside it.                                          *)
(***************************************************************************)
EXTENDS Naturals, Sequences, FiniteSetsExt

CONSTANTS Named,      \* the file name in a header
          Home,       \* the session of the reply
          Sessions,
          MaxContent, \* MAX_ARTIFACT_CONTENT_BYTES, in units
          Scenes,     \* bound: the texts, and how much the user does
          NoArtifact

Units == {"tick", "name", "cr", "nl", "text"}

ASSUME ArtifactStreamAssumption ==
  /\ Home \in Sessions
  /\ Named \notin Nat
  /\ MaxContent \in Nat
  /\ Scenes \subseteq [text : Seq(Units), actions : Nat]
  /\ NoArtifact \notin [temp : Nat, file : Nat \cup {Named},
                        content : Seq(Units)]

VARIABLES
  scene,    \* bound: the text of this behaviour's reply
  received, \* how much of it has arrived
  buffer, inBlock, snippets, atMessageStart,  \* of the parser
  todo,     \* segments that handleSegments has still to handle
  phase,    \* "streaming", "flushing" (the finally block), "ended"
  failed,   \* something was thrown
  torn,     \* history: a closing line was cut where the parser misses it
  artifact, \* currentArtifact
  temps,    \* artifacts begun, which numbers them
  log,      \* every revision saved; the place is its id
  rooms,    \* of the tab's socket, at the server
  wire,     \* artifact events on their way to the editor
  missed    \* history: artifacts whose end never reaches the editor

parserVars == <<buffer, inBlock, snippets, atMessageStart>>
netVars    == <<rooms, wire, missed>>
streamVars == <<scene, received, parserVars, todo, phase, failed, torn,
                artifact, temps, log, netVars>>

(* A revision: `spoiled` records that its reply had failed or was torn.    *)
Revision(session, file, content, origin, spoiled) ==
  [session |-> session, file |-> file, content |-> content,
   origin |-> origin, spoiled |-> spoiled]

Prose(text) == [type |-> "prose", text |-> text]
Chunk(text) == [type |-> "artifact-chunk", text |-> text]
Start(file) == [type |-> "artifact-start", file |-> file]
EndMark     == [type |-> "artifact-end"]

StreamInit ==
  /\ scene \in Scenes
  /\ received = 0
  /\ buffer = <<>> /\ inBlock = FALSE /\ snippets = 0
  /\ atMessageStart = TRUE
  /\ todo = <<>> /\ phase = "streaming" /\ failed = FALSE /\ torn = FALSE
  /\ artifact = NoArtifact /\ temps = 0
  /\ log = <<>>
  /\ rooms = {} /\ wire = <<>> /\ missed = {}

Slice(text, first, last) == SubSeq(text, first, last)
NonEmpty(segment) == IF segment.text = <<>> THEN <<>> ELSE <<segment>>

Ticks == <<"tick", "tick", "tick">>

(* FENCE_CLOSE_RE and FENCE_OPEN_RE, word by word.                         *)
Closings == {<<"tick", "tick", "tick", "nl">>,
             <<"tick", "tick", "tick", "cr", "nl">>}
Openings == Closings \cup {<<"tick", "tick", "tick", "name", "nl">>,
                           <<"tick", "tick", "tick", "name", "cr", "nl">>}

IsAt(word, text, i) == /\ i \in 1 .. Len(text) + 1 - Len(word)
                       /\ \A k \in 1 .. Len(word) : text[i + k - 1] = word[k]
EndsWith(text, word) == IsAt(word, text, Len(text) + 1 - Len(word))

(* findAtLineStart: the start of the buffer counts as the start of a line, *)
(* also when the line's beginning was passed on already.                   *)
AtLineStart(text, i) == i = 1 \/ text[i - 1] = "nl"
Fences(text, words) == {i \in 1 .. Len(text) :
                          /\ AtLineStart(text, i)
                          /\ \E w \in words : IsAt(w, text, i)}

(* suspiciousTailLength: the longest end of the text that begins a marker. *)
SuspiciousTail(text, marker) ==
  Max({n \in 0 .. Len(marker) - 1 : EndsWith(text, Slice(marker, 1, n))})

(* pendingFenceHeaderLength: a header that still waits for its line break. *)
PendingHeader(text) ==
  LET pending == {h \in {Ticks, Append(Ticks, "name")} :
                    /\ EndsWith(text, h)
                    /\ AtLineStart(text, Len(text) + 1 - Len(h))}
  IN Max({0} \cup {Len(h) : h \in pending})

(* Mutation: inside a block only what follows a line break is held back.   *)
HeldBackBreaks(text, in, start) ==
  Max({SuspiciousTail(text, <<"nl">> \o Ticks),
       IF in THEN 0 ELSE PendingHeader(text),
       IF start THEN SuspiciousTail(text, Ticks) ELSE 0})

(* How much of the end may belong to a fence line.                         *)
HeldBack(text, in, start) ==
  Max({SuspiciousTail(text, <<"nl">> \o Ticks),
       IF in THEN IF EndsWith(text, Ticks) THEN 3 ELSE 0
       ELSE PendingHeader(text),
       IF ~in /\ start THEN SuspiciousTail(text, Ticks) ELSE 0})

(* push: a turn of its loop passes on what lies before the next fence, and *)
(* begins or ends a block there ...                                        *)
Turn(p) ==
  LET words  == IF p.inBlock THEN Closings ELSE Openings
      marks  == Fences(p.buffer, words)
      fence  == Min(marks)
      line   == CHOOSE w \in words : IsAt(w, p.buffer, fence)
      before == Slice(p.buffer, 1, fence - 1)
      naming == ~p.inBlock /\ line \in Closings
      number == IF naming THEN p.snippets + 1 ELSE p.snippets
  IN IF marks = {} THEN p
     ELSE [segments |->
             IF p.inBlock THEN Append(p.segments \o NonEmpty(Chunk(before)), EndMark)
             ELSE Append(p.segments \o NonEmpty(Prose(before)),
                         Start(IF naming THEN number ELSE Named)),
           buffer |-> Slice(p.buffer, fence + Len(line), Len(p.buffer)),
           inBlock |-> ~p.inBlock, snippets |-> number, start |-> FALSE]

(* ... and the turn that finds none all but what is held back.             *)
LastTurn(p) ==
  LET safe   == Len(p.buffer) - HeldBack(p.buffer, p.inBlock, p.start)
      passed == Slice(p.buffer, 1, safe)
  IN [segments |-> p.segments \o NonEmpty(IF p.inBlock THEN Chunk(passed)
                                          ELSE Prose(passed)),
      buffer |-> Slice(p.buffer, safe + 1, Len(p.buffer)),
      inBlock |-> p.inBlock, snippets |-> p.snippets,
      start |-> p.start /\ (p.inBlock \/ passed = <<>>)]

(* Each turn but the last takes four units at least.                       *)
Parse(text) ==
  LET turn[n \in 0 .. Len(text) \div 4] ==
        IF n = 0 THEN [segments |-> <<>>, buffer |-> text, inBlock |-> inBlock,
                       snippets |-> snippets, start |-> atMessageStart]
        ELSE Turn(turn[n - 1])
  IN LastTurn(turn[Len(text) \div 4])

(* Mutation: an open block is not ended when nothing of it is held back.   *)
FlushBuffer(text, in) ==
  IF text = <<>> THEN <<>>
  ELSE IF in THEN Append(NonEmpty(Chunk(text)), EndMark)
  ELSE NonEmpty(Prose(text))

(* flush: a block that is open ends, without the fence at its very end.    *)
Flush(text, in) ==
  LET content == IF EndsWith(text, Ticks) THEN Slice(text, 1, Len(text) - 3)
                 ELSE text
  IN IF in THEN Append(NonEmpty(Chunk(content)), EndMark)
           ELSE NonEmpty(Prose(text))

(* Whether a cut after r units splits a closing line where an open block   *)
(* does not hold the beginning back: between CR and LF, and after one or   *)
(* two backticks directly behind the line that opened a block.             *)
BadCut(text, r) ==
  \E i \in 1 .. r : \E m \in Closings :
    /\ IsAt(m, text, i) /\ AtLineStart(text, i)
    /\ r < i + Len(m) - 1
    /\ \/ text[r] = "cr"
       \/ r < i + 2 /\ \E w \in Openings : IsAt(w, text, i - Len(w))

(* A token event: the segments of a push.                                  *)
Push(upto) ==
  LET parsed == Parse(buffer \o Slice(scene.text, received + 1, upto))
  IN /\ phase = "streaming" /\ todo = <<>>
     /\ received' = upto
     /\ todo' = parsed.segments
     /\ buffer' = parsed.buffer
     /\ inBlock' = parsed.inBlock
     /\ snippets' = parsed.snippets
     /\ atMessageStart' = parsed.start
     /\ torn' = (torn \/ (parsed.inBlock /\ BadCut(scene.text, upto)))
     /\ UNCHANGED <<scene, phase, failed, artifact, temps, log, netVars>>

(* The finally block flushes the parser, however the stream came to end.   *)
Finally == /\ phase' = "flushing"
           /\ todo' = Flush(buffer, inBlock)
           /\ buffer' = <<>>
           /\ inBlock' = FALSE
           /\ UNCHANGED <<snippets, atMessageStart>>

(* The provider is done, fails, or is stopped.                             *)
StreamEnds == /\ phase = "streaming" /\ todo = <<>>
              /\ Finally
              /\ UNCHANGED <<scene, received, failed, torn, artifact, temps,
                             log, netVars>>

(* What is thrown ends handleSegments; the first time the parser is        *)
(* flushed all the same.                                                   *)
Throw == /\ failed' = TRUE
         /\ IF phase = "streaming" THEN Finally
            ELSE /\ phase' = "ended" /\ todo' = <<>>
                 /\ UNCHANGED parserVars
         /\ UNCHANGED <<scene, received, torn, temps, log, netVars>>

Handling(type) == todo # <<>> /\ Head(todo).type = type
Handled == /\ todo' = Tail(todo)
           /\ UNCHANGED <<scene, received, parserVars, phase, failed, torn>>

HandleProse == /\ Handling("prose")
               /\ Handled
               /\ UNCHANGED <<artifact, temps, log, netVars>>

EndsIn(events) == {e.temp : e \in {x \in events : x.type = "end"}}

(* server.to(room).emit(...): only who is in the room gets it.             *)
Tell(room, event) ==
  /\ IF room \in rooms
     THEN wire' = Append(wire, event) /\ UNCHANGED missed
     ELSE missed' = missed \cup EndsIn({event}) /\ UNCHANGED wire
  /\ UNCHANGED rooms

HandleStart ==
  LET file == Head(todo).file IN
  /\ Handling("artifact-start")
  /\ temps' = temps + 1
  /\ artifact' = [temp |-> temps + 1, file |-> file, content |-> <<>>]
  /\ Tell(Home, [type |-> "start", temp |-> temps + 1, session |-> Home,
                 file |-> file])
  /\ Handled
  /\ UNCHANGED log

(* normalizeArtifactFilename refuses the name.                             *)
RefuseName == /\ Handling("artifact-start")
              /\ Throw
              /\ UNCHANGED artifact

Grown == artifact.content \o Head(todo).text

(* Mutation: only the chunk is measured.                                   *)
ChunkFits == Len(Head(todo).text) <= MaxContent

Fits == Len(Grown) <= MaxContent

HandleChunk ==
  /\ Handling("artifact-chunk") /\ artifact # NoArtifact
  /\ Fits
  /\ artifact' = [artifact EXCEPT !.content = Grown]
  /\ Tell(Home, [type |-> "chunk", temp |-> artifact.temp,
                 delta |-> Head(todo).text])
  /\ Handled
  /\ UNCHANGED <<temps, log>>

(* Too long: the artifact is forgotten so that the flush does not save it. *)
Overrun == /\ Handling("artifact-chunk") /\ artifact # NoArtifact
           /\ ~Fits
           /\ artifact' = NoArtifact
           /\ Throw

(* Segments of a block whose start was never handled.                      *)
SkipOrphan == /\ Handling("artifact-chunk") \/ Handling("artifact-end")
              /\ artifact = NoArtifact
              /\ Handled
              /\ UNCHANGED <<artifact, temps, log, netVars>>

HandleEnd ==
  LET saved == Revision(Home, artifact.file, artifact.content, "ai",
                        failed \/ torn)
  IN /\ Handling("artifact-end") /\ artifact # NoArtifact
     /\ log' = Append(log, saved)
     /\ Tell(Home, [type |-> "end", temp |-> artifact.temp,
                    id |-> Len(log) + 1])
     /\ artifact' = NoArtifact
     /\ Handled
     /\ UNCHANGED temps

(* createRevision throws: the artifact stays current.                      *)
SaveFails == /\ Handling("artifact-end") /\ artifact # NoArtifact
             /\ Throw
             /\ UNCHANGED artifact

Ended == /\ phase = "flushing" /\ todo = <<>>
         /\ phase' = "ended"
         /\ UNCHANGED <<scene, received, parserVars, todo, failed, torn,
                        artifact, temps, log, netVars>>

Handle == \/ HandleProse \/ HandleStart \/ RefuseName \/ HandleChunk
          \/ Overrun \/ SkipOrphan \/ HandleEnd \/ SaveFails

Finishing  == StreamEnds \/ Handle \/ Ended
StreamStep == \/ \E upto \in received + 1 .. Len(scene.text) : Push(upto)
              \/ Finishing

(* A saved file is one stretch of the reply that follows an opening fence  *)
(* line and does not reach past the next closing line, whatever was held   *)
(* back between two tokens; it has the name that the fence gave it.        *)
(* Excepted are replies that failed (handleSegments then still has the     *)
(* first block as its current artifact and may mix it with the next), and  *)
(* those that the provider cut where the parser passes the beginning of a  *)
(* closing line on as content (BadCut).                                    *)
Opens(text, first, word) == IsAt(word, text, first - Len(word))

OneBlock(revision) ==
  \E last \in 0 .. received : \E first \in 1 .. last + 1 :
    /\ \E w \in Openings :
         /\ Opens(scene.text, first, w)
         /\ revision.file = Named <=> w \notin Closings
    /\ Fences(Slice(scene.text, first, last), Closings) = {}
    /\ revision.content = Slice(scene.text, first, last)

SavedIsOneBlock == \A id \in DOMAIN log :
                     log[id].origin = "ai" => log[id].spoiled \/ OneBlock(log[id])
=============================================================================
