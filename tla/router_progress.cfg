SPECIFICATION FairSpec
CONSTANT Nothing = Nothing
PROPERTIES
  EverybodyIsReleased
CHECK_DEADLOCK FALSE
