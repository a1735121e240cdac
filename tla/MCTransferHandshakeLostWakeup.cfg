SPECIFICATION FairSpec
CONSTANTS
  Transfers = {t1}
  EventThreads = {e1}
  User = u
  NoTransfer = none
PROPERTIES
  CompletionWakes
