SPECIFICATION Spec
CONSTANTS
  Users <- MCUsers
  PinSlots = 2
  PasswordSlots = 1
  Codes <- MCCodes
  CodeLength <- MCCodeLength
  DefaultCode = "3494"
  Capacity = 3
  ChunkEntries = 1
  MaxFaults = 0
INVARIANT TableStaysReadable
