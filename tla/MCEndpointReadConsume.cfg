SPECIFICATION Spec
CONSTANTS
  Buffers = {b1, b2}
  NoBuffer = none
  PacketSize = 1
  TransferSize = 2
  MaxTransfers = 2
  MaxSent = 4
  Ways = {"messageBuf"}
SYMMETRY Symmetry
INVARIANTS
  NeverPanics
