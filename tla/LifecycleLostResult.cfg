SPECIFICATION FairAgentSpec
CONSTANTS
  NumCommands = 1
  BatchLimit = 2
  MaxDeliveries = 2
  LeaseTicks = 1
  TtlTicks = 3
  Slots = {1}
  MaxOrphans = 0
  MaxVerifiers = 2
  Transactional = {}
  Transient = {}
  Unsupported = {}
PROPERTY ResultReachesServer
