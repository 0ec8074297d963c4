CONSTANTS
  p1 = p1
  p2 = p2
  w1 = w1
  w2 = w2
  op = op
  d1 = d1
  d2 = d2
  Procs = {p1}
  Writers = {w1}
  Operators = {}
  ProcOf <- MCSharedProcOf
  Datasets = {d1}
  Releases <- MCReleases
  HeadOf <- MCHeadOf
  Downgrades = FALSE
  Faults = {"sync"}
  NoRelease = NoRelease
  NoCaller = NoCaller
  NoDataset = NoDataset
SPECIFICATION Spec
INVARIANT WritersAreSynced
