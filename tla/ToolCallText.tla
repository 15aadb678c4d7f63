---------------------------- MODULE ToolCallText ----------------------------
(***************************************************************************)
(* Tool calls and the text they are found in: the two copies of            *)
(* text-tool-call-parser.ts.  A text is a sequence of pieces: prose, JSON  *)
(* that is no call, something that does not parse (a broken call, prose    *)
(* with an unpaired quote, brace or leading bracket), or a call of an      *)
(* offered tool written as JSON.  A call has a kind (the tool), its        *)
(* arguments, and the form the model gave these.                           *)
(***************************************************************************)
EXTENDS Naturals, Sequences

CONSTANTS ToolCalls,  \* calls a model may make, as records
          Prose, Data, Malformed

(* A JSON object with every required argument (numbers and booleans count  *)
(* as their text), the same encoded as a string, wrapped in the schema it  *)
(* was shown, or without a required argument.                              *)
Forms == {"object", "encoded", "envelope", "incomplete"}

ASSUME ToolCallTextAssumption == \A call \in ToolCalls : call.form \in Forms

(* parseArguments and the required arguments, in the backend and in the    *)
(* local agent.  Listing requires none.                                    *)
Readable(call)        == call.kind = "list" \/ call.form \in {"object", "encoded"}
ReadableByAgent(call) == Readable(call) \/ call.form = "envelope"

Pieces == ToolCalls \cup {Prose, Data, Malformed}

CallsIn(pieces) ==
  LET found[n \in 0 .. Len(pieces)] ==
        IF n = 0 THEN <<>>
        ELSE IF pieces[n] \in ToolCalls THEN Append(found[n - 1], pieces[n])
        ELSE found[n - 1]
  IN found[Len(pieces)]

Spoiled(pieces) == \E n \in DOMAIN pieces : pieces[n] \in {Data, Malformed}

Parts(pieces) == {SubSeq(pieces, i, j) : i, j \in DOMAIN pieces}

(* parseTextToolCalls: all the objects of the text when each is a call,    *)
(* prose between them ignored; otherwise those of a part of the text: a    *)
(* fenced or tagged block (embeddedBlocks), or what comes before an object *)
(* that is never closed.  It may find none.                                *)
ParseTextToolCalls(pieces) ==
  IF ~Spoiled(pieces) THEN {CallsIn(pieces)}
  ELSE {<<>>} \cup {CallsIn(part) : part \in {p \in Parts(pieces) : ~Spoiled(p)}}
=============================================================================
