SPECIFICATION Spec
CONSTANT Debounce = 5
INVARIANTS
  TypeOK
  DebouncesExactly
PROPERTY StatusFollowsLoops
