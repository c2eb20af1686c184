\* Three threads, three calls of connect_push_supplier, any number of disconnects.
SPECIFICATION FairSpec
CONSTANTS
  t1 = t1
  t2 = t2
  t3 = t3
  s1 = s1
  s2 = s2
  s3 = s3
  Thread <- MCThread
  Supplier <- MCSupplier
  Nil = Nil
INVARIANTS
  MembersAgree
  ChannelKnows
PROPERTIES
  CallsReturn
  ImplementsSlot
