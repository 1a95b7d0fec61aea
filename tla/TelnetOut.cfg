SPECIFICATION OSpec
CONSTANTS
  nothing = nothing
  NotString = nothing
  Lines <- MCLines
  Results <- MCResults
  Sizes <- MCSizes
  Room = 10
  MaxSends = 3
INVARIANTS
  CommandsStayHere
  ServerUnderstands
  LossIsConfined
