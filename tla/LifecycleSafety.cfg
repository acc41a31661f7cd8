SPECIFICATION FairSpec
CONSTANTS
  NumCommands = 1
  BatchLimit = 2
  MaxDeliveries = 2
  LeaseTicks = 1
  TtlTicks = 3
  Slots = {1, 2, 3}
  MaxOrphans = 1
  MaxVerifiers = 2
  Transactional = {1}
  Transient = {}
  Unsupported = {1}
INVARIANTS TypeOK AtMostOnce SuccessWasExecuted
PROPERTIES OnlyFreshDelivered ContractKept EventuallySettled
