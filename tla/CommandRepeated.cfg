SPECIFICATION RequestSpec
CONSTANTS
  Clients = {1, 2}
  Keys = {1}
  Types = {1, 2}
  Routers = {1, 2}
  MaxCommands = 3
  MaxAsked = 3
INVARIANT RepeatIsAnswered
CHECK_DEADLOCK FALSE
