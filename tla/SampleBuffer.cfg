SPECIFICATION SpecBuffer
CONSTANTS
  raw = raw
  effective = effective
  Targets <- MCTargets
  MaxAge = 3
SYMMETRY MCSymmetry
INVARIANT
  HeardLossesSeparate
