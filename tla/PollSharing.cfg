SPECIFICATION Spec
CONSTANTS
  main = main
  worker = worker
  p1 = p1
  p2 = p2
  ch = ch
  timer = timer
  irq = irq
  Threads = {main, worker}
  BootThreads = {main}
  Polls = {p1}
  Channels = {}
  Timers = {timer}
  Irqs = {}
  Ids = {2, 3}
  Object <- MCObject
  Uses <- SharedPoll
  Masks <- MCMasks
  ReadyQueueMax = 2
INVARIANTS
  OnePlace
  RunnableScheduled
  NoSelfDeadlock
CHECK_DEADLOCK FALSE
