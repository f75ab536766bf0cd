SPECIFICATION Spec
CONSTANTS
  Request = {r1}
  Timeout = 0
  ShadowTimeouts = {}
  Unset = Unset
  MaxDuration = 0
  MaxBackends = 1
PROPERTIES
  AllServedAtShutdown
