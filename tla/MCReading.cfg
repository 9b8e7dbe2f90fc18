SPECIFICATION FairSpec
CONSTANTS
  Files <- MCFiles
  Words <- MCWords
  Turkish <- MCTurkish
  English <- MCEnglish
  Hard <- MCHard
  Ranks = {0, 1, 2}
  DenyRank = 1
  Spreading = {0}
  Letters <- MCLetters
  MinSpelling = 4
  Knows <- MCKnows
  Lists <- MCLists
  Settings <- MCSettings
  Verdicts <- MCVerdicts
  MinText = 2
  MinShare = 15
  MaxCells = 3
  MaxTable = 2
  MaxPart = 2
  MaxParts = 3
  MaxComments = 3
  Foot = 9
CHECK_DEADLOCK FALSE
INVARIANTS
  ApprovalIsEarned
  BlocksHoldTheFile
  AuditorIsTrusted
PROPERTIES
  RepairsHold
  UploadSettles
