SPECIFICATION Spec
CONSTANTS
  a = a
  p = p
  q = q
  Nodes = {a}
  Users = {1, 2}
  Slots = {1, 2}
  Codes = {p, q}
  DefaultCode = p
  CcQueueSize = 2
  AppQueueSize = 5
  MaxCommands = 4
INVARIANT LearnTypeOK EndsOnce TimerOfSession NeverStranded
PROPERTY DeliveryKeepsOwners SessionEnds
CHECK_DEADLOCK FALSE
