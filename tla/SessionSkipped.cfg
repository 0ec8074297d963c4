\* Two calls on one dataset, two turns, no failure.
CONSTANTS
  NoCall = NoCall  NoDataset = NoDataset
  Calls = {c1, c2}
  Datasets = {d1}
  Turns = {t1, t2}
  MaxFaults = 0
SPECIFICATION Spec
INVARIANT CountedArePersisted
