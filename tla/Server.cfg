SPECIFICATION MCSpec
CONSTANTS
  MaxTokens = 5
  Grace = 2
  MaxClock = 5
  Lates = {1, 2}
  MaxEdits = 2
  OnlineTtl = 1
  RecentTtl = 2
  Retention = 2
  MaxTime = 5
  MaxBytes = 2
  Reporting = {1}
  Records = {1, 2}
  StaleAfter = 1
  OfflineDedupe = 0
  AlertDedupe = 1
  SnoozeFor = 1
  SessionIds = {1, 2}
  SomeCodes = {1, 2}
  SomeCalls = {1, 2}
  CodeCalls = {}
  CodeAccess = 2
  RenewalCodes = {}
  CallAccess = 4
  Clients = {1, 2}
  Keys = {1}
  Types = {1, 2}
  Routers = {1, 2}
  MaxCommands = 2
  MaxAsked = 3
  Cooldowns = {1, 2}
  Limits = {1}
  Hour = 2
  Reporters = {1, 2}
  RuleTime = 3
  MaxEvents = 3
  MaxChanges = 1
  Traffic = {0, 1}
  BufferLimit = 2
  Keep = 3
  KeepFor = 1
  Window = 1
  Target = 1
  ReportTime = 2
  MaxReports = 3
  MaxRestarts = 1
  Cpus = {1, 2}
  MaxOdd = 2
  Segments = {"guest", "iot"}
  Addresses = {0, 1, 3, 5}
  Sizes = {4, 8}
  Starts = {1, 2}
  Counts = {1, 2}
  Ports = {1, 2}
  VlanIds = {1}
  PlanCommands = 2
  MaxVersion = 3
  Legacy = 1
  MaxHour = 1
  MaxMoves = 1
  Paths = {"p1"}
  BackupRuns = {1, 2}
  MaxRows = 1
  MaxKills = 1
  MaxCopies = 1
INVARIANTS Typed OneLossSurvived SentIsSound ShownIsTrue RatesAreTrue
  OutageTold AlertTold
  CodesAreOneTime StaysIn RecordIsOne LimitsKept
PROPERTIES RevokedForGood
CHECK_DEADLOCK FALSE
