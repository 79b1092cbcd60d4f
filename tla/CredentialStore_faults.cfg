SPECIFICATION Spec
CONSTANTS
  Users <- MCUsers
  PinSlots = 2
  PasswordSlots = 1
  Codes <- MCCodes
  CodeLength <- MCCodeLength
  DefaultCode = "3494"
  Capacity = 2
  ChunkEntries = 1
  MaxFaults = 1
INVARIANTS CredentialTypeOK DescriptorsSound CredentialsIntact NoOrphanCredentials UniqueCodes
PROPERTIES KeepsOthers SuccessMeansStored
