SPECIFICATION FairGraphSpec
CONSTANTS
  Vectors = {1, 2, 3, 4}
  Score <- MCScore
  M = 2
  EfConstruct = 2
  Breadths = {2, 4}
  MaxLevel = 1
  MaxPoints = 4
INVARIANTS GraphSound Converged FillsWindow
PROPERTY Ends
