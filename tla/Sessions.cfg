SPECIFICATION FairSpec
CONSTANTS
  MaxSessions = 2
  MaxId = 3
  MaxTexts = 3
  MaxConnections = 1
  inputHook = inputHook
  fkeyHook = fkeyHook
  InitHooks <- MCInitHooks
  UserHooks <- MCUserHooks
INVARIANTS
  CurrentExists
  FlushIsScheduled
  SentInOrder
PROPERTY QueueServes
