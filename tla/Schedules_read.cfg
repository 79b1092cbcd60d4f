SPECIFICATION SpecSchedules
CONSTANTS
  MaxUsers = 3
  UserIds = {1, 2}
  Data = {"regular"}
  Names = {"a"}
  NameLength <- MCNameLength
  ChunkEntries = 16
  Faults = {}
  YearDayPerUser = 1
  DailyRepeatingPerUser = 2
  YearDays <- MCYearDays
  Dailies <- MCDailies
  MetadataLengths = {0, 3}
  LearnModeResets = FALSE
PROPERTY GetKeepsSchedules
