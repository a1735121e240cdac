SPECIFICATION FairSpec
CHECK_DEADLOCK FALSE
CONSTANTS
  Transfers = {t1, t2}
  EventThread = ev
  Nobody = nobody
  Timeouts = {0, 2}
  TickSize = 2
  MaxTime = 6
PROPERTIES
  DeadlineEndsTransfer
