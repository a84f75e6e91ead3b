SPECIFICATION Spec
CONSTANTS
  c1 = c1
  c2 = c2
  c3 = c3
  t1 = t1
  t2 = t2
  Callbacks <- MCCallbacks
  Threads <- MCThreads
  MaxDepth = 3
SYMMETRY Symmetric
INVARIANTS
  TypeOK
  SafeToFree
  ConnectedMeansCalled
