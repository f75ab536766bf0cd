CONSTANTS
  N = 2
  Nil = Nil
SPECIFICATION Spec
INVARIANTS
  NoOpBodyArrives
