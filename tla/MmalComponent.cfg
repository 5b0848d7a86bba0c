\* Two client threads and a component with one port; one thread enables and disables it.
SPECIFICATION FairSpec
CONSTANTS
  p1 = p1 p2 = p2
  Clients = {c1, c2}
  Starters = {c1}
  PortArray <- OnePort
  MaxRefs = 1
  MaxWakeups = 2
  Action = Action
  Transport = Transport
  NoThread = NoThread
  NoPort = NoPort
INVARIANTS  WakeupPending
PROPERTIES DisableReturns LastReleaseDestroys
