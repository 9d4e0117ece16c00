SPECIFICATION Spec
CONSTANTS
  Inputs <- MCInputs
  MaxDepth = 2
  MaxAnalysis = 5
INVARIANTS
  AcceptsExactlyTheDocuments
  LastWholeAnalysis
  SuccessMeansWhole
