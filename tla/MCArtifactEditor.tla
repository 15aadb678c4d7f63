-------------------------- MODULE MCArtifactEditor --------------------------
(***************************************************************************)
(* ArtifactEditor for TLC: every text of three words, alone and after an   *)
(* opening line, cut everywhere, while nobody looks; and two replies with  *)
(* a block of their own that are watched by a user who does up to four     *)
(* things.                                                                 *)
(***************************************************************************)
EXTENDS ArtifactEditor, SequencesExt

CONSTANTS named, s1, s2, typed

Open   == Append(Ticks, "name")
Words  == {Open, Ticks, <<"tick">>, <<"cr">>, <<"nl">>, <<"text">>}
Texts  == {FlattenSeq(words) : words \in [1 .. 3 -> Words]}
Opened == {Open \o <<"nl">> \o text : text \in Texts}

MCScenes == [text : Texts \cup Opened, actions : {0}]
              \cup {[text |-> Ticks \o <<"nl", "text">>, actions |-> 4],
                    [text |-> Open \o <<"nl", "text", "nl">> \o Ticks
                                \o <<"nl">>, actions |-> 2]}
=============================================================================
