SPECIFICATION Spec
CONSTANTS
  f = f
  g = g
  h = h
  t = t
  u = u
  Handler <- MCHandler
  Priority <- MCPriority
  Text <- MCText
  Given <- MCGiven
  MaxCells = 4
  MaxDepth = 2
  MaxItems = 2
SYMMETRY Symmetric
INVARIANTS
  ListIsRegistered
  RunsWhatItFound
  TransformKeeps
