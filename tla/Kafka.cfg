SPECIFICATION Spec
CONSTANTS
  MaxRecords = 4
  QueueCap = 2
  MaxGens = 3
INVARIANTS ConsumerExists OneWorker
PROPERTIES ImplementsDelivery
CHECK_DEADLOCK FALSE
