CONSTANTS
  N = 2
  HeaderName = {"h1", "h2"}
  HeaderFilters = {{}, {"h1"}}
  QueryFilters = {{}, {"q1"}}
  QueryName = {"q1", "q2"}
  NotSent = NotSent
SPECIFICATION Spec
INVARIANT ClonesAreIndependent
