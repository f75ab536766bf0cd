CONSTANTS
  N = 2
  Nil = Nil
SPECIFICATION Spec
INVARIANTS
  OpenBodiesAreAccounted
  WholeBody
  SuccessNeedsAnswer
PROPERTIES
  Answered
