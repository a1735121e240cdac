SPECIFICATION MCSpec
CHECK_DEADLOCK FALSE
CONSTANTS
  Transfers = {t1, t2}
  EventThread = ev
  Nobody = nobody
  Timeouts = {1, 3}
  TickSize = 2
  MaxTime = 6
  Unlocked = unlocked
  Callback = callback
  Poisoned = poisoned
  Devices = {d1, d2}
  Platforms = {"linux", "windows", "macos", "webusb"}
  MaxPlugs = 3
INVARIANTS
  CallbacksTypeOK
  NothingStale
PROPERTIES
  NeverEarly
  TimeoutsEndTransfers
  MapConverges
