SPECIFICATION Spec
CONSTANTS
  Ids = {1, 2}
  Vecs = {1, 2}
  Gone = Gone
  tag = tag
  size = size
  red = red
  Paths = {tag, size}
  Scalars <- MCScalars
  Fields <- MCFields
  Points <- MCPoints
  Conditions <- MCConditions
  Requests <- MCRequests
  Declarable <- MCDeclarable
  Threshold = 1
  Oversampling = 1
  MaxVersion = 3
INVARIANTS TypeOK IndexesAgree ExactIsBruteForce ApproximateIsSound
