SPECIFICATION SpecSchedules
CONSTANTS
  MaxUsers = 2
  UserIds = {1, 2}
  Data = {"regular"}
  Names = {"a"}
  NameLength <- MCNameLength
  ChunkEntries = 16
  Faults = {"io", "power"}
  YearDayPerUser = 1
  DailyRepeatingPerUser = 1
  YearDays <- MCYearDays
  Dailies <- MCDailies
  MetadataLengths = {0}
  LearnModeResets = TRUE
INVARIANT ScheduleTypeOK
INVARIANT StoredIsUsable
