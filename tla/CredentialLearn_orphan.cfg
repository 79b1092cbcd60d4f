SPECIFICATION Spec
CONSTANTS
  a = a
  p = p
  q = q
  Nodes = {a}
  Users = {1, 2}
  Slots = {1, 2}
  Codes = {p, q}
  DefaultCode = p
  CcQueueSize = 2
  AppQueueSize = 5
  MaxCommands = 3
INVARIANT EveryOwnerExists
CHECK_DEADLOCK FALSE
