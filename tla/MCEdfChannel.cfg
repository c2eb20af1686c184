\* The homework 8 service: two ORB threads, four events.
SPECIFICATION FairSpec
CONSTANTS
  OrbThread = {t1, t2}
  Worker = Worker
  NoThread = NoThread
  Raw = Raw
  NoSupplier = NoSupplier
  NoEvent = NoEvent
  e1 = e1
  e2 = e2
  e3 = e3
  e4 = e4
  Supplier <- MCSupplier
  Event <- MCEvent
  Source <- MCSource
  StartTime <- MCStart
INVARIANTS
  WorkerInv
  OneWorker
PROPERTIES
  ImplementsEdf
  QueuedIsDelivered
\* The worker waits for ever once every event has been delivered.
CHECK_DEADLOCK FALSE
