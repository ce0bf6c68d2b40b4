SPECIFICATION Spec
CONSTANTS
  Windows = {w1, w2}
  Texts = {t}
  BatchSize = 2
  Pieces = 2
  MaxInputs = 2
  MaxBlocks = 1
  MaxLag = 1
INVARIANT
  TypeOK
  LiveMatchesReplay
  HistoryMeetsLive
  EachPromptOnce
CHECK_DEADLOCK FALSE
