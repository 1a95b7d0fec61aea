SPECIFICATION TabSpec
CONSTANTS
  Word <- MCWord
  Lower <- MCLower
  Prefix <- MCPrefix
  Capacity = 3
  MaxResults = 2
  MinLength = 3
  MaxAdditions = 5
  Edited <- MCEdited
  MaxKeys = 2
  FirstCapacity = 2
  Heights <- MCHeights
  MaxLines = 2
INVARIANTS
  StructuresAgree
  CompletionsAgree
  BorrowIsCurrent
  CycleIsShown
  LayoutFits
PROPERTY RecentSpec
