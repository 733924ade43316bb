SPECIFICATION Spec
CONSTANTS
  raw = raw
  effective = effective
  Targets <- MCTargets
  MaxAge = 1
  MaxFrames = 2
  MaxEpisodes = 2
SYMMETRY MCSymmetry
INVARIANTS
  ManifestIsTrue
PROPERTIES
  SegmentsAreGapless
  SealedIsForever
