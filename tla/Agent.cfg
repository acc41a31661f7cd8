SPECIFICATION MCSpec
CONSTANTS
  MaxVersion = 3
  MaxRestores = 3
  MaxCuts = 0
  Mishaps = {"install"}
  Downgrades = TRUE
  Capable = {"agent.update", "agent.rotate_token", "system.set_ntp", "agent.disconnect"}
  Selections = {{"agent.update", "agent.rotate_token", "agent.disconnect"}, {"system.set_ntp"}}
  MaxBuild = 2
  MaxRuns = 2
  Gaps = {"late", "cut", "killed"}
  NumCommands = 2
  BatchLimit = 2
  MaxDeliveries = 2
  LeaseTicks = 1
  TtlTicks = 2
  Slots = {1}
  MaxOrphans = 0
  MaxVerifiers = 1
  Transactional = {2}
  Transient = {1}
  Unsupported = {1}
  Policies = {"slow", "blocked"}
  Owned = {"blocked"}
  Requesters = {r1, r2}
  MaxJobs = 2
  MaxTries = 2
INVARIANTS Typed AgentStarts ErrorUndone NeverLaterLibraries RouterIsGivenBack
  BatchKeepsOrder AppliedIsInForce WantedIsAsked
PROPERTIES ResumeKeepsOthers
SYMMETRY Alike
CHECK_DEADLOCK FALSE
