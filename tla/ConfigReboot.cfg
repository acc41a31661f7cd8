SPECIFICATION FairSpec
CONSTANTS
  NumTxs = 2
  Files = {"upnpd", "firewall"}
  FilesOf <- Overlapping
  Sensitive = {1}
  Timeout = 1
  MaxClock = 3
  MaxExits = 2
  Exits = {"reboot"}
INVARIANT VerdictMatchesState
PROPERTIES SettledForGood EventuallySettled
CHECK_DEADLOCK FALSE
