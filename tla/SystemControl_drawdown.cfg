\* One controller, one command.
SPECIFICATION ControlFairSpec
CONSTANTS
  c1 = c1
  c2 = c2
  ex1 = ex1
  Controllers = {c1}
  Operators <- MCOperators
  Requests = {"STRICT"}
  Executors = {ex1}
  MaxDrifts = 1
  MaxWindows = 0
  MaxCommands = 1
  MaxControlFaults = 0
PROPERTIES
  DrawdownHalts
CHECK_DEADLOCK FALSE
