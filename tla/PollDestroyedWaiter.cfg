SPECIFICATION Spec
CONSTANTS
  main = main
  worker = worker
  p1 = p1
  p2 = p2
  ch = ch
  timer = timer
  irq = irq
  Threads = {main, worker}
  BootThreads = {main}
  Polls = {p1, p2}
  Channels = {}
  Timers = {timer}
  Irqs = {}
  Ids = {2, 3}
  Object <- MCObject
  Uses <- OwnPolls
  Masks <- MCMasks
  ReadyQueueMax = 1
INVARIANTS
  UnblockFindsBlocked
CHECK_DEADLOCK FALSE
