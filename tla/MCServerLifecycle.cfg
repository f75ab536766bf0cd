SPECIFICATION ServicesSpec
CONSTANTS
  r1 = r1
  Request = {r1, r2}
  Timeout = 2
  ShadowTimeouts = {0, 3}
  Unset = Unset
  MaxDuration = 3
  MaxBackends = 3
  Agents = 2
  Factories = 2
  Retries = {0, 1}
  MaxInt = 2
  Second = 2
  Strategies = {"linear", "linear-jitter"}
INVARIANTS
  GracefulShutdown
  AgentsAsConfigured
PROPERTIES
  ShadowIsDetached
  EverythingEnds
  AgentsEnd
