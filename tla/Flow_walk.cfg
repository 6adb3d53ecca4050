CONSTANTS
  a = a
  b = b
  NQuestions = 4
  Kind <- MCKind
  Conditions <- MCConditions
  MaxBranches = 2
SYMMETRY MCSymmetry
INIT Init
NEXT Next
INVARIANTS TypeOK NothingHiddenKept MapsAgree WalkIsKnown PrevLeadsHere MarkIsEarned
