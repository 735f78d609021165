SPECIFICATION Spec
CONSTANTS
  PulseLen = 3
  CycleLen = 8
  MaxLag = 2
INVARIANTS
  TypeOK
  OffWhenReset
PROPERTIES
  PulseShape
  KeepsPulsing
