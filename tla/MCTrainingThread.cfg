CONSTANTS
  MaxTasks = 3
  MaxResets = 2
SPECIFICATION FairSpec
PROPERTIES
  AbandonedBeginNothing
  NewestBegins
  LastTaskIsTaken
  BlockReturns
  DestructorReturns
CHECK_DEADLOCK FALSE
