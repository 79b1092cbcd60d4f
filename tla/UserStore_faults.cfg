SPECIFICATION Spec
CONSTANTS
  MaxUsers = 3
  UserIds = {1, 2, 3, 4}
  Data = {"d"}
  Names = {"a"}
  NameLength <- MCNameLength
  ChunkEntries = 16
  Faults = {"io", "power"}
INVARIANT TypeOK
INVARIANT TableSound
INVARIANT NoImpossiblePath
