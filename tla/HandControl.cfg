SPECIFICATION FairSpec
CONSTANT
  Capacity <- MCCapacity
INVARIANTS
  TypeOK
  ReadyMeansUnfaulted
  AtMostOneLateMove
  ValidTelemetryIsCurrent
  MoveOwnsSession
PROPERTIES
  OnlyLiveTargetsMove
  RecoverDiscoversAfresh
  RecoverCompletes
  StopCompletes
  KeepsSession
