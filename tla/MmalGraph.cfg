\* A pipeline of three components, with a header for each connection and an event of
\* the first; once the graph is destroyed nothing happens any more.
SPECIFICATION Spec
CONSTANTS
  a1 = a1 b1 = b1 e1 = e1 x1 = x1
  N = 2
  Headers <- MCHeaders
  Events <- MCEvents
  ClientBuffers = {x1}
  Ways = {"graph", "component"}
  Held = {2}
  EarlyEvents = FALSE
  MaxEnables = 1
  MaxEvents = 1
  MaxFaults = 1
  SemaMax = 2
  NoBuffer = NoBuffer
CHECK_DEADLOCK FALSE
INVARIANTS GraphInv  NoLostWakeup
