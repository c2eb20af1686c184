\* The worker can miss the initialisation of its condition variable.
SPECIFICATION FairSpec
CONSTANTS
  OrbThread = {t1, t2}
  Worker = Worker
  NoThread = NoThread
  Raw = Raw
  NoSupplier = NoSupplier
  NoEvent = NoEvent
  e1 = e1
  e2 = e2
  e3 = e3
  e4 = e4
  Supplier <- FewSupplier
  Event <- FewEvent
  Source <- FewSource
  StartTime <- FewStart
PROPERTIES
  WorkerProcessesQueue
\* The worker waits for ever once every event has been delivered.
CHECK_DEADLOCK FALSE
