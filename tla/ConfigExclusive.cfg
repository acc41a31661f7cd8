SPECIFICATION Spec
CONSTANTS
  NumTxs = 2
  Files = {"network", "dhcp", "wireless"}
  FilesOf <- DisjointFiles
  Sensitive = {1, 2}
  Timeout = 1
  MaxClock = 3
  MaxExits = 1
  Exits = {"reboot", "restart"}
INVARIANTS RolledBackIsUndone SuccessIsApplied
CHECK_DEADLOCK FALSE
