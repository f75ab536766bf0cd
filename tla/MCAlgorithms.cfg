SPECIFICATION Spec
CONSTANTS
  Scale = 3
  SRVTargets = {1, 2}
  Priorities = {1, 2}
  Weights = {0, 1, 2, 4}
  MaxRecords = 4
  Member = {"a", "b"}
  Depth = 3
  Data <- MCData
  Entries <- MCEntries
  NewNames <- MCNewNames
  Targets <- MCTargets
  MaxItems = 3
  Names <- MCNames
  Place <- MCPlace
  MaxSettings = 6
  MaxEndpoints = 2
  MaxSteps = 4
  RoutePath = {"/a", "/b"}
  MaxRoutes = 2
  Variable = {v1, v2}
  Absent = Absent
  Nil = Nil
  NilMap = NilMap
INVARIANTS
  SharesAreWeights
  OrderDoesNotMatter
  FiltersAreExact
  FormatIsExact
  SourcesAreFollowed
  AcceptsExactlyServable
  BackendsFollow
  PlaceholdersAreFilled
  HonestReply
  RoutesAreExact
  VariablesReachBackend
CHECK_DEADLOCK FALSE
