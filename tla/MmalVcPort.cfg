SPECIFICATION Spec
CONSTANTS
  c1 = c1 c2 = c2 i1 = i1 o1 = o1 o2 = o2 e1 = e1
  Controllers = {c1, c2}
  Calls <- Sequential
  InBuffers = {}
  OutBuffers = {o1, o2}
  Events = {e1}
  Kinds = {"short", "long"}
  Contexts = 2
  MaxFaults = 1
  NoThread = NoThread
INVARIANTS  FlushInOrder DisableGivesBack
