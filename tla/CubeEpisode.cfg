SPECIFICATION Spec
CONSTANTS
  thumb = thumb
  little = little
  Envs = {e1, e2}
  Joints = {thumb, little}
  Delay <- MCDelay
  LongestDelay = 2
  Actions <- MCActions
  ControlMode = "integrated_delta_position"
  Scale = 1
  Lower = 0
  Upper = 2
  Grasp = 1
  Errors = {0, 2}
  Tolerance = 1
  MinError = 2
  Required = 2
  MaxLength = 6
INVARIANTS
  DeliveredOnTime
PROPERTIES
  BonusIsEarned
