SPECIFICATION Spec
CONSTANTS
  NumCommands = 2
  BatchLimit = 2
  MaxDeliveries = 2
  LeaseTicks = 1
  TtlTicks = 3
  Slots = {1}
  MaxOrphans = 1
  MaxVerifiers = 2
  Transactional = {}
  Transient = {}
  Unsupported = {}
INVARIANT RunsOnlyConfirmed
