\* Both tools on thirteen command lines, two buffers, three of them coming back with data,
\* one call that fails; a camera that takes every setting and one that refuses the effects.
SPECIFICATION AppsSpec
CONSTANTS
  Refusals <- MCRefusals
  Garbage = Garbage
  CommandLines <- MCCommandLines
  buffer_num = 2
  MaxFrames = 3
  MaxFaults = 1
CHECK_DEADLOCK FALSE
  
PROPERTIES Finishes
