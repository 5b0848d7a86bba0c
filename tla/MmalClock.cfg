CONSTANTS
  c1 = c1
  c2 = c2
  s1 = s1
  s2 = s2
  ClockClients = {c1, c2}
  Slots = {s1, s2}
  Times = {1, 2}
  Scales <- Forward
  MIN_TIMER_DELAY = 0
  discont_threshold = 0
  discont_duration = 1
  MaxPosts = 3
  Worker = Worker
  NoHolder = NoHolder
  NoSlot = NoSlot
SPECIFICATION ClockFairSpec
INVARIANTS ClockInv
PROPERTIES Served DestroyReturns
