SPECIFICATION Spec
CONSTANTS
  main = main
  worker = worker
  p1 = p1
  p2 = p2
  ch = ch
  timer = timer
  irq = irq
  Threads = {main, worker}
  BootThreads = {main}
  Polls = {p1}
  Channels = {ch}
  Timers = {}
  Irqs = {irq}
  Ids = {1, 3}
  Object <- MCObject
  Uses <- MainPoll
  Masks <- MCMasks
  ReadyQueueMax = 1
INVARIANTS
  TypeOK
  ListenersRegistered
  ReadyIsQueued
  ReadyQueueExact
CHECK_DEADLOCK FALSE
