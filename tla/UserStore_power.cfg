SPECIFICATION Spec
CONSTANTS
  MaxUsers = 2
  UserIds = {1, 2, 3}
  Data = {"d", "e"}
  Names = {"a", "bb"}
  NameLength <- MCNameLength
  ChunkEntries = 16
  Faults = {"power"}
INVARIANT OwnObjects
PROPERTY OthersUntouched
PROPERTY ImplementsDirectory
INVARIANT WalkInOrder
