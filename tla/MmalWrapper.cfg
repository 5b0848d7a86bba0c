\* An input and an output port with one header each, and one event.
SPECIFICATION FairSpec
CONSTANTS
  in = in out = out
  a = a b = b
  Inputs = {in}
  Outputs = {out}
  Headers = {a, b}
  PortOf <- OneEach
  Events = {e}
  NoBuffer = NoBuffer
  MaxPosts = 2
INVARIANTS  NoLostWakeup PoolWhole
PROPERTIES CallsReturn
