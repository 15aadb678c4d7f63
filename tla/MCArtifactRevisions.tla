------------------------ MODULE MCArtifactRevisions ------------------------
(***************************************************************************)
(* ArtifactRevisions for TLC.  Calls, files and messages are               *)
(* interchangeable.                                                        *)
(***************************************************************************)
EXTENDS ArtifactRevisions, TLC

Symmetry == Permutations(Writers) \cup Permutations(Files)
              \cup Permutations(Messages)
=============================================================================
