\* The lab 2 service once its constructor is over before the tasks run.
SPECIFICATION CalmFairSpec
CONSTANTS
  p1 = p1
  p2 = p2
  m1 = m1
  m2 = m2
  m3 = m3
  m4 = m4
  NoThread = NoThread
  NoMsg = NoMsg
  NULL = NULL
  TaskOrder <- MCTaskOrder
  Publisher = {p1, p2}
  Msg <- MCMsg
  Stream <- MCStream
  TopicOf <- MCTopicOf
  Subscriber = {"s1", "s2"}
INVARIANTS
  TaskInv
PROPERTIES
  SlotStable
  ImplementsLatestValue
  NewestHandled
\* The tasks wait for ever once every message has been handled.
CHECK_DEADLOCK FALSE
