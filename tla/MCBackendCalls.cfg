SPECIFICATION BackendSpec
CONSTANTS
  Request = {q1, q2}
  h1 = h1
  h2 = h2
  Host = {h1, h2}
  Lists <- MCLists
  LongList = 2
  Failure = Failure
  Torn = Torn
  ConcurrentCalls = 3
INVARIANTS
  WholeListOnly
  ServesLastGood
  EvenShares
  CompleteResponseWins
  NilNilOnlyIfParentDone
PROPERTIES
  AllServed
  Refreshed
  AllCallsEnd
