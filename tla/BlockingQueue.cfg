SPECIFICATION Spec
CONSTANTS
  p1 = p1
  p2 = p2
  p3 = p3
  c1 = c1
  c2 = c2
  Producers <- MCProducers
  Consumers <- MCConsumers
  Capacity = 2
  PerProducer = 2
INVARIANTS
  TypeOK
  FifoExactlyOnce
  NoLostWakeup
  NobodySleepsWhenClosed
PROPERTIES
  RefinesBoundedQueue
  EveryPushReturns
  EveryConsumerReturns
CHECK_DEADLOCK FALSE
