\* Capacity: room for one key, one slot of the dataset queue, one task of the loop;
\* k1 and k2 are of one dataset, k3 of another, k4 of none.
CONSTANTS
  k1 = k1  k2 = k2  k3 = k3  k4 = k4
  a1 = a1  a2 = a2  b1 = b1  d1 = d1  e1 = e1
  NoVal = NoVal
  ds1 = ds1  ds2 = ds2
  Datasets = {ds1, ds2}
  DatasetOf <- MCDatasetOf
  KeyOf <- MCKeyOf
  Reaper = reaper
  Keys = {k1, k2, k3, k4}
  Vals = {a1, b1, d1, e1}
  Callers = {c1}
  LoopCallers = {c1}
  Subprocess = {}
  MaxSize = 1
  Slots = 1
SYMMETRY SameDataset
CONSTRAINT OneClose
SPECIFICATION Spec
INVARIANT OverflowBounded
CHECK_DEADLOCK FALSE
