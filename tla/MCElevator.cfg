\* Both homeworks.
SPECIFICATION FairSpec
CONSTANTS
  Program <- MCProgram
  MaxPresses = 3
INVARIANTS
  ElevatorInv
  MeasuredInBounds
PROPERTIES
  PressAnswered
  AllCountedEnds
