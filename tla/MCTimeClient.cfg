\* The time client, whose sleep may end too early, with calls that may throw.
SPECIFICATION FairSpec
CONSTANTS
  NumThreads = 2
  Rounds = 3
  MayFail = TRUE
INVARIANTS
  ClientInv
  NeverShutDownWhileUsed
PROPERTIES
  ServerShutDownIfWell
  RoundsDone
