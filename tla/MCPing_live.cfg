SPECIFICATION Spec
CONSTANTS
  p1 = p1
  p2 = p2
  p3 = p3
  p4 = p4
  NoPop = NoPop
  Pops = {p1, p2, p3, p4}
  Pool = 2
  Silent = {p1}
INVARIANTS TypeOK QuitStops NeverStuck
PROPERTIES KeepsPromise ThreadsEnd
CHECK_DEADLOCK FALSE
