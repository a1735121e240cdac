SPECIFICATION MCSpec
CONSTANTS
  Buffers = {b1, b2, b3}
  NoBuffer = none
  PacketSize = 1
  TransferSize = 2
  MaxTransfers = 2
  MaxSent = 4
  Ways = {"plain", "message", "cancel"}
  WritePacketSize = 2
  WriteTransferSize = 4
  MaxWritten = 6
  Platforms = {"linux", "windows", "macos", "webusb"}
  MaxLen = 3
  MaxPacket = 2
  MaxParts = 3
  Errors <- LengthErrors
SYMMETRY Symmetry
INVARIANTS
  DataTypeOK
  BytesInOrder
  NeverPanics
  MessageBoundaries
  BuffersAreSound
  ParsedAsDescribed
PROPERTIES
  FlushMeansSent
