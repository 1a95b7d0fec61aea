SPECIFICATION FairClientSpec
CONSTANTS
  Packets <- PromptPackets
  Descriptors <- MCDescriptors
  BufSize = 4
  MaxRetries = 1
  MaxSent = 8
INVARIANTS
  CopiesAgree
  SecretHidden
  ExitReleases
PROPERTIES
  CallsLegal
  HangUpNoticed
  QuitExits
CHECK_DEADLOCK FALSE
