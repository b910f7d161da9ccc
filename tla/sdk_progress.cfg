SPECIFICATION FairSpec
PROPERTIES
  NobodyWaitsForEver
CHECK_DEADLOCK FALSE
