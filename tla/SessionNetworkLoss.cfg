SPECIFICATION SessionSpec
CONSTANTS
  SessionIds = {1, 2}
  Codes = {1, 2}
  Calls = {1, 2}
  MaxAccess = 3
INVARIANT OnlyRevokedEnds
CHECK_DEADLOCK FALSE
