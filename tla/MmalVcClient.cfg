CONSTANTS
  t1 = t1
  t2 = t2
  w1 = w1
  b1 = b1
  b2 = b2
  Callers = {t1, t2}
  Waiters = {w1}
  Buffers = {b1, b2}
  MayFail = {"open", "message"}
  NoCaller = NoCaller
  NoWaiter = NoWaiter
  NoBuffer = NoBuffer
SPECIFICATION FairSpec
INVARIANTS ClientInv RepliesReachCallers BulkFollowsMessage
PROPERTIES InSync CallsReturn
