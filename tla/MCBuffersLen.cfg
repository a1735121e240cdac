SPECIFICATION Spec
CONSTANTS
  Platforms = {"webusb"}
  MaxLen = 3
  MaxPacket = 2
INVARIANT LenIsReceived
CHECK_DEADLOCK FALSE
