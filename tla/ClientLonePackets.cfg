SPECIFICATION ClientSpec
CONSTANTS
  Packets <- LonePackets
  Descriptors <- MCDescriptors
  BufSize = 4
  MaxRetries = 0
  MaxSent = 4
INVARIANT SecretHidden
CHECK_DEADLOCK FALSE
