\* Homework 3 and lab 2 with their protocols, lab 1 and homework 2.
SPECIFICATION Spec
CONSTANTS
  NoTask = NoTask
  Ceiling = 99
  Program <- MCProgram
INVARIANTS
  MutexInv
  HighestInTime
  ResponseBounded
PROPERTIES
  OnlyOwnerDelays
