\* One request at a time through the lives of the agent.
SPECIFICATION FairSpec
CONSTANTS
  Requests = {r1}
  FiveSeconds = 6
  Options <- MCOptions
INVARIANTS
  TypeOK
  RuleRemoved
  RuleWhileServing
  DrainedBeforeExit
  FailsOnlyForCause
  OkOnlyFromServer
  RecoveryInTime
PROPERTIES
  RequestsAnswered
  SignalEnds
