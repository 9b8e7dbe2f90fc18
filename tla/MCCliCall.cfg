SPECIFICATION FairCallSpec
CONSTANTS
  Flags = {"f1", "f2"}
  Words <- MCWords
  NoError = NoError
  PipeSize = 1
  Limit = 2
  Content = 2
  ClaudeSays <- MCClaudeSays
  CodexSays <- MCCodexSays
INVARIANTS
  ToolIsHeld
  AnswerIsClean
PROPERTIES
  RequestEnds
