SPECIFICATION Spec
CONSTANTS
  Kinds = {"subscribe"}
  NTopics = 2
  DestroyAfterEnd = TRUE
INVARIANTS
  EventsAfterHead
CHECK_DEADLOCK FALSE
