\* The sleep may end at any time.  The process may end, with nothing left to do.
SPECIFICATION AppFairSpec
CONSTANTS
  N = 2
  Failures <- MCFailures
INVARIANTS
  StartInv
  KilledOnlyByBadThread
PROPERTIES
  HeardAgain
CHECK_DEADLOCK FALSE
