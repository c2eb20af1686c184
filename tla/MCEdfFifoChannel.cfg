\* The homework 7 service: its one ORB thread, four events.
SPECIFICATION FairSpec
CONSTANTS
  OrbThread = {t1}
  Worker = Worker
  NoThread = NoThread
  Raw = Raw
  NoSupplier = NoSupplier
  NoEvent = NoEvent
  e1 = e1
  e2 = e2
  e3 = e3
  e4 = e4
  Supplier <- MCSupplier
  Event <- MCEvent
  Source <- MCSource
  StartTime <- MCStart
INVARIANTS
  DrainInv
PROPERTIES
  ImplementsEdf
  ParkedUntilNextPush
\* The worker waits for ever once every event has been delivered.
CHECK_DEADLOCK FALSE
