SPECIFICATION Spec
CONSTANT
  Capacity = 1
PROPERTY
  StartDiscoversAfresh
