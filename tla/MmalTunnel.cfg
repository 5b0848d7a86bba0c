\* Controllers of the output end: one makes every call, the other disconnects the port
\* as the destruction of its component does.  Two headers, one event, one failure.
SPECIFICATION Spec
CONSTANTS
  c1 = c1 c2 = c2 p1 = p1 p2 = p2 b1 = b1 b2 = b2 e1 = e1
  Controllers = {c1, c2}
  Calls <- MCCalls
  Ends <- MCEnds
  Pools = {p1, p2}
  Headers <- MCHeaders
  Events = {e1}
  PoolAtOutput = TRUE
  MaxFaults = 1
  NoThread = NoThread
  NoPool = NoPool
  NoBuffer = NoBuffer
INVARIANTS TunnelInv
 
