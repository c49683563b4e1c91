SPECIFICATION FairSpec
CONSTANTS
  Lines <- MCLines
  MaxPids = 3
  MaxPipes = 2
  Items = 1
INVARIANTS
  TypeOK
  StagesEnded
  NoEarlyEnd
PROPERTY
  PromptReturns
CHECK_DEADLOCK FALSE
