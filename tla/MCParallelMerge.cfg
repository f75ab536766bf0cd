SPECIFICATION FairSpec
CONSTANTS
  N = 3
  Filterable = {1, 2, 3}
  Key = {k1}
  Value = {v1, v2}
  NilData = NilData
  NilResponse = NilResponse
  NoError = NoError
INVARIANTS
  NoStragglers
PROPERTIES
  ImplementsForkJoin
  Answered
