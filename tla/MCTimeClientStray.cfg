\* A timer goes on after its thread was joined.
SPECIFICATION Spec
CONSTANTS
  NumThreads = 2
  Rounds = 2
  MayFail = FALSE
INVARIANTS
  KillsLiveThread
