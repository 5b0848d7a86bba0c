\* Two pools of one header each; one thread enables, disables and flushes, one pauses,
\* two send.
SPECIFICATION FairSpec
CONSTANTS
  b1 = b1 b2 = b2 b3 = b3 p1 = p1 p2 = p2 c1 = c1 f1 = f1 m1 = m1 s1 = s1 s2 = s2
  Buffers = {b1, b2}
  Pools = {p1, p2}
  Headers <- SinglePools
  Controllers = {c1}
  Flushers = {c1}
  Pausers = {m1}
  Senders = {s1, s2}
  ActionThread = ActionThread
  NoBuffer = NoBuffer
  NoThread = NoThread
INVARIANTS TypeOK TransitAccount SemaphoreToken ReturnHasCallback OwnedOnce NoneLost
PROPERTIES KeepsContract DisableReturns
