SPECIFICATION Spec
CHECK_DEADLOCK FALSE
CONSTANTS
  Threads = {t1, t2}
  Opened = {o1, o2}
  Control = control
  AltSettings = {0, 1}
  Addresses = {e1, e2}
  EndpointsOf <- MCEndpointsOf
  e1 = e1
  e2 = e2
  None = none
SYMMETRY Symmetry
INVARIANTS
  OpenEndpointsExist
