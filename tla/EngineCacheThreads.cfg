\* Threads without a loop, one subprocess engine key, and the reaper.
CONSTANTS
  k1 = k1  k2 = k2  k3 = k3  k4 = k4
  a1 = a1  a2 = a2  b1 = b1  d1 = d1  e1 = e1
  NoVal = NoVal
  ds1 = ds1  ds2 = ds2
  Datasets = {ds1}
  DatasetOf <- MCDatasetOf
  Keys = {k1}
  Vals = {a1, a2}
  KeyOf <- MCKeyOf
  Callers = {t1, t2}
  LoopCallers = {}
  Reaper = reaper
  Subprocess = {k1}
  MaxSize = 1
  Slots = 0
SYMMETRY ThreadSymmetry
SPECIFICATION Spec
INVARIANT TypeOK
INVARIANT CloseOnce
INVARIANT LeaseKeepsOpen
CHECK_DEADLOCK FALSE
