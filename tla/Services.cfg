SPECIFICATION Spec
CONSTANT NULL = NULL
INVARIANTS
  RepliesOwn
  ServersRight
  StreamsFaithful
  ImageExact
  
PROPERTIES
  InsertsReturn
  StartupCompletes
  JoinsReturn
  StartupsFinish
  CallsReturn
  EventsTaken
  DeviceRunsLatest
  
  ClientsServed
  DocumentServed
CHECK_DEADLOCK FALSE
