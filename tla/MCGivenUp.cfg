CONSTANTS
  EnabledChoices = {TRUE, FALSE}
  FrameLimits = {1, 2, NoLimit}
  SecondLimits = {2, NoLimit}
  ShotSizes = {0, 2}
  NoLimit = NoLimit
  MaxFrames = 8
  MaxRuns = 2
SPECIFICATION Spec
INVARIANTS
  ReferencesAlwaysKept
CHECK_DEADLOCK FALSE
