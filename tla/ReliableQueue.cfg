CONSTANTS
  c1 = c1
  c2 = c2
  Consumers <- MCConsumers
  MaxMsgs = 2
  MaxWaiters = 2
  MaxRetries = 2
  AckTimeout = 0
  Delays = {0, 1}
SPECIFICATION FairSpec
INVARIANTS
  OnePlace
  RetryBudget
  FirstDeliveryFIFO
PROPERTIES
  NoHastyRedelivery
  ImplementsLifecycle
  BlockedCallsReturn
  EventuallySettled
