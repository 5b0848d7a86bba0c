\* Two buffers, three frames, one hit, one failure.
SPECIFICATION GameSpec
CONSTANTS
  NaN = NaN
  Displacements <- MCDisplacements
  HalfWidth = 6 HalfHeight = 4 Reach = 2
  Shifts <- MCShifts
  Delta = 30
  Gap = 100
  Buffers = 2
  MaxFrames = 3
  MaxHits = 1
  MaxFaults = 1
CHECK_DEADLOCK FALSE
INVARIANTS  MotionOfOneFrame 
