SPECIFICATION Spec
CONSTANT NULL = NULL
INVARIANTS
  
  IpcExact
  DevicesRight
PROPERTIES
  OthersUntouched
CHECK_DEADLOCK FALSE
