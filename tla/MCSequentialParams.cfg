SPECIFICATION Spec
CONSTANTS
  N = 3
  Filterable = {1, 2, 3}
  k1 = k1
  Key = {k1}
  Value = {Empty, v1, v2}
  Empty = Empty
  Body = {v1}
  Unset = Unset
  FullBody = FullBody
  Endpoints <- MCEndpoints
  NilData = NilData
  NilResponse = NilResponse
  NoError = NoError
INVARIANT
  ParamIsFromNamedBackend
