SPECIFICATION ClientSpec
CONSTANTS
  Kinds = {"publish", "subscribe", "other"}
  NTopics = 2
  DestroyAfterEnd = TRUE
  Clients = {1, 2}
  Topics = {"a", "b"}
  Handlers = {"h1", "h2"}
  TokenOf <- MCTokenOf
  Presubscribed = {"b"}
  Programs <- MCPrograms
CHECK_DEADLOCK FALSE
INVARIANTS
  EndedOnce
  TimersOnlyWhileOpen
  CalledOnlyWanted
  MapsAgree
PROPERTIES
  PatientReleased
  Answered
