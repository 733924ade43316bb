SPECIFICATION FairSpec
CONSTANTS
  TrackingTimeout <- MCTimeout
  CommandTimeout  <- MCTimeout
  Grace           <- MCGrace
  RequireTracking = TRUE
INVARIANTS
  ArmedInputsFresh
  DisarmedIsSilent
  GraceBounded
  RecoveryIsMotionFree
PROPERTIES
  OnlyLiveTargetsSent
  SendsFromFeedback
  GraceIsQuiet
  KeepsPromise
  GraceEnds
  RecoveryEnds
  FaultDisarms
  CountsOnSession
CHECK_DEADLOCK FALSE
