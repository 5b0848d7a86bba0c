\* One pool of three headers, so that a header taken from the pool still points to the next.
SPECIFICATION Spec
CONSTANTS
  b1 = b1 b2 = b2 b3 = b3 p1 = p1 p2 = p2 c1 = c1 f1 = f1 m1 = m1 s1 = s1 s2 = s2
  Buffers = {b1, b2, b3}
  Pools = {p1}
  Headers <- OnePool
  Controllers = {c1}
  Flushers = {c1}
  Pausers = {m1}
  Senders = {s1}
  ActionThread = ActionThread
  NoBuffer = NoBuffer
  NoThread = NoThread
INVARIANTS TransitNotNegative
