\* The clients and the server may all have come to rest.
SPECIFICATION StreamFairSpec
CONSTANTS
  p1 = p1
  p2 = p2
  s1 = s1
  s2 = s2
  Publisher <- MCPublisher
  Subscriber <- MCSubscriber
  Section <- MCSection
  Nobody = Nobody
  Count = 2
INVARIANTS
  FinishedMeansHeard
  StreamInv
PROPERTIES
  PublishersEnd
  ForwardedIsReceived
CHECK_DEADLOCK FALSE
