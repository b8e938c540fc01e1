SPECIFICATION Spec
CONSTANTS
  Modulus <- MCModulus
  Multiplier <- MCMultiplier
  Increment <- MCIncrement
INVARIANTS
  TypeOK
  LoadIsFair
PROPERTY
  LoopEnds
\* The loop ends: its last state has no successor.
CHECK_DEADLOCK FALSE
