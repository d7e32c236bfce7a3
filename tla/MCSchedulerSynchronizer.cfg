CONSTANTS
  Notifiers <- Threads
  None = None
  Owner = Owner
SPECIFICATION FairSpec
PROPERTIES RefinesAtomicSleep WaitReturns
