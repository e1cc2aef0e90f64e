SPECIFICATION Spec
CONSTANT NULL = NULL
INVARIANTS
  EvaluatorRight
  ScriptsParsedRight
  FirmwareRight
  JudgedByRule
  LibrariesRight
CHECK_DEADLOCK FALSE
