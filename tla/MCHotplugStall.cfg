SPECIFICATION FairSpec
CONSTANTS
  Devices = {d1, d2}
  Platforms = {"windows"}
  MaxPlugs = 3
PROPERTY
  StreamIsComplete
CHECK_DEADLOCK FALSE
