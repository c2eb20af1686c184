\* The lab 3 broker with its three strategies: three messages and one subscriber; two
\* messages and two subscribers; one message and three calls of Subscribe for two slots.
SPECIFICATION FairSpec
CONSTANTS
  p1 = p1
  p2 = p2
  m1 = m1
  m2 = m2
  m3 = m3
  s1 = s1
  s2 = s2
  s3 = s3
  Dispatcher = Dispatcher
  NoThread = NoThread
  NoMsg = NoMsg
  NoSubscriber = NoSubscriber
  NoTopic = NoTopic
  Setups <- MCSetups
  Publisher = {p1, p2}
  Msg <- MCMsg
  TopicOf <- MCTopicOf
  Timestamp <- MCStamp
  Period <- MCPeriod
  Subscriber = {s1, s2, s3}
  Wants <- MCWants
  MAX_SUBSCRIBERS = 2
  MaxClock = 2
INVARIANTS
  DispatchInv
  MessagesConserved
  FifoOrder
  SubscribersServed
PROPERTIES
  ImplementsEdf
  QueuedIsDispatched
\* The dispatcher waits for ever once every message has been dispatched.
CHECK_DEADLOCK FALSE
