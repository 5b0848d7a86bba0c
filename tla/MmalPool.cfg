\* Two threads, three headers, every header's references with one thread at a time.
SPECIFICATION FairSpec
CONSTANTS
  b1 = b1 b2 = b2 b3 = b3
  HeaderArray <- ThreeHeaders
  Threads = {t1, t2}
  Shared = {}
  MaxRefs = 2
  NoHeader = NoHeader
  NoThread = NoThread
\* The system may stop: every thread waits in mmal_queue_wait() for a header of a pool
\* which a failed resize left without one.
CHECK_DEADLOCK FALSE
INVARIANTS PoolInv
PROPERTIES CallsReturn
