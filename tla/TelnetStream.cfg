SPECIFICATION FairSSpec
CONSTANTS
  Packets <- MCEchoPackets
  Descriptors <- MCDescriptors
  BufSize = 3
  MaxRetries = 1
  MaxSent = 5
INVARIANTS
  InPlaceParse
  NoLeak
  FreshStart
  StateAgrees
  ParsedAsSent
PROPERTIES
  CallsReturn
