CONSTANTS
  N = 2
  HeaderName = {"h1", "h2"}
  HeaderFilters = {{}, {"h1"}}
  QueryFilters = {{}, {"q1"}}
  QueryName = {"q1", "q2"}
  NotSent = NotSent
  n1 = n1
  n2 = n2
  Namespace = {"request", "response"}
  Name = {n1, n2}
  NoValue = NoValue
  Default <- MCDefault
  Reader = {g}
  Loader = main
  Writer = {main, w}
  requestNamespace = "request"
  responseNamespace = "response"
  Plugins = 2
  Contents <- MCContents
  Broken = Broken
SPECIFICATION SharedSpec
INVARIANTS
  RaceFree
  RequestsAreOwn
  LoadIsAccounted
PROPERTIES
  ImplementsRegister
