CONSTANTS
  Sender = {s1, s2}
  MaxMessages = 5
  Configs <- BothConfigs
SPECIFICATION FairSpec
INVARIANTS OneWakeupPerMessage HandledOnce
PROPERTIES ImplementsChannel QueuedIsHandled
CHECK_DEADLOCK FALSE
