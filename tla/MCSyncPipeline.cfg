CONSTANTS
  Networks <- MCNetworks
SPECIFICATION FairSpec
PROPERTIES
  ImplementsFrameStreams
  RunReturns
CHECK_DEADLOCK FALSE
