\* A task of the loop and a thread, in-process engines that close on the loop or the pool.
CONSTANTS
  k1 = k1  k2 = k2  k3 = k3  k4 = k4
  a1 = a1  a2 = a2  b1 = b1  d1 = d1  e1 = e1
  NoVal = NoVal
  ds1 = ds1  ds2 = ds2
  Datasets = {ds1}
  DatasetOf <- MCDatasetOf
  KeyOf <- MCKeyOf
  Reaper = reaper
  Keys = {k1}
  Vals = {a1, a2}
  Callers = {c1, t1}
  LoopCallers = {c1}
  Subprocess = {}
  MaxSize = 1
  Slots = 0
SPECIFICATION FairSpec
INVARIANT InFlightIsVisible
PROPERTY ImplementsLifecycle
PROPERTY DetachedIsClosed
PROPERTY LoserIsClosed
PROPERTY WaitsEnd
CHECK_DEADLOCK FALSE
