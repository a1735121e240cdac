SPECIFICATION FairSpec
CONSTANTS
  Transfers = {t1, t2}
  EventThreads = {e1}
  User = u
  NoTransfer = none
INVARIANTS
  TypeOK
  NoDanglingPointer
  ExclusiveAccess
  NoOrphan
  NoPanic
PROPERTIES
  CompleteIsStable
  TimedWaitReturns
  AbandonedIsFreed
  TakenWakeIsDelivered
