SPECIFICATION LocksSpec
CONSTANT
  Tasks = {handler, observer, timer}
INVARIANT
  SomebodyGoesOn
PROPERTY
  OperationsEnd
