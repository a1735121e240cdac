SPECIFICATION BlockingSpec
CONSTANTS
  Transfers = {t1, t2}
  Buffers = {b1, b2}
  EventThread = ev
  User = u
  NoTransfer = none
  NoBuffer = empty
  Modes = {}
  Outcomes = {"ok"}
INVARIANTS
  NothingLeftPending
PROPERTIES
  AlwaysReturns
  CancelledTransfersEnd
  UnpluggedTransfersEnd
  DroppedEndpointIsReleased
