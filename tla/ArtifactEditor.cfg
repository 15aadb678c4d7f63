SPECIFICATION FairEditorSpec
CONSTANTS
  named = named
  s1 = s1
  s2 = s2
  typed = typed
  Named = named
  Home = s1
  Sessions = {s1, s2}
  MaxContent = 5
  Scenes <- MCScenes
  NoArtifact = NoArtifact
  Files = {named, 1, 2, 3, 4}
  Typed = {typed}
  NoFile = NoFile
  NoSession = NoSession
INVARIANT EditorTypeOK
INVARIANT SavedIsOneBlock
INVARIANT OneSessionShown
PROPERTY StreamingFilesSettle
CHECK_DEADLOCK FALSE
