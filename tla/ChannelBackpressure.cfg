SPECIFICATION Spec
CONSTANTS
  client = client
  server = server
  a0 = a0
  a1 = a1
  b0 = b0
  b1 = b1
  Procs = {client, server}
  Ends = {a0, a1, b0, b1}
  Other <- MCOther
  Data = {1}
  QUEUE_LEN_MAX = 1
  TableMax = 3
  HandlesMax = 1
  BootTable <- MCBootTable
PROPERTIES
  BackpressureKeepsHandles
CHECK_DEADLOCK FALSE
