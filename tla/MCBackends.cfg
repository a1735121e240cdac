SPECIFICATION MCSpec
CONSTANTS
  Interfaces = {0, 1, 2}
  Function <- FunctionOfTwo
  Few = {0, 1}
  Alts = {0, 1}
  PipeAlts = {1}
  Configs = {1, 2}
  Tasks = {t1, t2}
  MaxObjects = 2
  Platforms = {"windows", "macos", "webusb"}
  Driven = {0}
  Numbers = {0, 1}
  Names = {l1, l2, l3}
  Buffers = {b1, b2, b3}
  Orphan = orphan
  EndpointPlatforms = {"windows", "macos", "webusb"}
  MaxFlying = 3
  Transfers = {x1, x2}
  LinuxBuffers = {c1, c2}
  EventThread = ev
  User = u
  NoTransfer = none
  NoBuffer = empty
  Modes = {"poll"}
  Outcomes = {"ok"}
  UsbDevices = {d1, d2}
  Ports = {1, 2}
  Systems = {"linux", "windows", "macos"}
  MaxPlugs = 3
SYMMETRY Symmetry
INVARIANTS
  BackendsTypeOK
  HandlesMatchClaims
  EventLoopRuns
  DriversReturn
  FreeMeansQuiescent
  Identified
PROPERTIES
  ImplementsClaims
  ImplementsQueue
CHECK_DEADLOCK FALSE
