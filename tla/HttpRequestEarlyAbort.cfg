SPECIFICATION FairSpec
CONSTANTS
  Kinds = {"publish"}
  NTopics = 2
  DestroyAfterEnd = TRUE
PROPERTIES
  ConnectionReleased
CHECK_DEADLOCK FALSE
