SPECIFICATION Spec
CONSTANTS
  TrackingTimeout = 1
  CommandTimeout  = 1
  Grace           = 1
  RequireTracking = FALSE
PROPERTY
  GraceIsQuiet
CHECK_DEADLOCK FALSE
