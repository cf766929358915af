SPECIFICATION Spec
CONSTANTS
  Requests = {a1, a2, a3, b1, e1}
  WithKey = {a1, a2, a3, e1}
  Exempted = {e1}
  Host <- HostOf
  Key <- KeyOf
  Hosts = {h1}
  Keys = {k1}
  WrongKey = WrongKey
  NoKey = NoKey
  Auth = TRUE
  Max = 2
  Window = 2
  MaxBody = 1
  MaxTime = 5
  MaxRestarts = 1
\* The system may rest: every request is answered.
CHECK_DEADLOCK FALSE
SYMMETRY Symmetry
PROPERTIES
  LimiterSpec
