SPECIFICATION HealthSpec
CONSTANTS
  Tasks <- Queries
  Cancelled = Cancelled
  Nothing = Nothing
  Responses <- MCResponses
CHECK_DEADLOCK FALSE
INVARIANTS
  NothingLeftRunning
  OriginalErrorRaised
  OkMeansRead
  SignalsSurvive
  BrokenAccessFails
