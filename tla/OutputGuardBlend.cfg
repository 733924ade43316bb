SPECIFICATION Spec
CONSTANTS
  Top = 5
  MaxStep = 2
  MinSend = 1
  BlendTicks = 5
  TripHold = 1
  StallHold = 1
  StallError = 2
  Gap = 0
  ErrorDeg = 1
  Hold = 2
  Grace = 1
  ReleaseHold = 1
  Window = 9
  Preload = 1
  YieldStep = 1
  ResumeStep = 1
  ReleaseOpen = 2
VIEW View
PROPERTIES
  HardLoadFreezesBlends
