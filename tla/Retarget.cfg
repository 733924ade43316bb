SPECIFICATION Spec
CONSTANTS
  Joints = {flexion, spread}
  Broken = {spread}
  FixedPosition = 0
  Spread = {spread}
  Distal = {flexion}
  DistalMin = 0
  Angles = {0, 2}
  MaxCorrection = 1
  LateralMax = 0
  Velocity = 1
  LeastDt = 0
  MostDt = 1
  WatchdogPeriod = 1
  WatchdogTimeout = 2
  CommandTimeout = 3
  CtrlLow = 0
  CtrlHigh = 2
  MaxAge = 4
INVARIANTS
  FixedStaysFixed
  TrackingIsRecent
PROPERTIES
  TravelIsBounded
