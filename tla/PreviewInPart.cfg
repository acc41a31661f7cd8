SPECIFICATION FormSpec
CONSTANTS
  Commands = {"network.set_segment", "network.set_vlan", "network.set_multiwan"}
  MaxEdits = 2
INVARIANT ToldTruly
CHECK_DEADLOCK FALSE
