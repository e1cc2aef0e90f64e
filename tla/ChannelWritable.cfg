SPECIFICATION Spec
CONSTANTS
  client = client
  server = server
  a0 = a0
  a1 = a1
  b0 = b0
  b1 = b1
  Procs = {client, server}
  Ends = {a0, a1}
  Other <- MCOther
  Data = {1, 2}
  QUEUE_LEN_MAX = 2
  TableMax = 3
  HandlesMax = 2
  BootTable <- MCBootTable
INVARIANTS
  WritableMeansRoom
CHECK_DEADLOCK FALSE
