CONSTANTS
  OclIds = {1, 2}
  People = {p}
  Files = {f1}
  DataRoom = DataRoom
  Levels = {"holder"}
  NoLevel = NoLevel
  Removed = Removed
  MAX_SQL_QUERY_LIMIT = 2
  DATA_ROOM_BATCH_SIZE = 2
  MaxFirstRows = 3
  MaxEvents = 2
  MaxCrashes = 1
SPECIFICATION MCSpec
PROPERTIES
  ListedProjectsAreLoaded
CHECK_DEADLOCK FALSE
