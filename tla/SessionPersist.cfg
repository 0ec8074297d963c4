\* Three calls, two datasets, two turns and one failure.
CONSTANTS
  NoCall = NoCall  NoDataset = NoDataset
  Calls = {c1, c2, c3}
  Datasets = {d1, d2}
  Turns = {t1, t2}
  MaxFaults = 1
SPECIFICATION Spec
INVARIANT TypeOK
INVARIANT KeptArePersisted
INVARIANT NothingTwice
INVARIANT WatermarkFits
SYMMETRY PersistSymmetry
