CONSTANTS
  p1 = p1
  p2 = p2
  w1 = w1
  w2 = w2
  op = op
  d1 = d1
  d2 = d2
  Procs = {p1, p2}
  Writers = {w1}
  Operators = {op}
  ProcOf <- MCSharedProcOf
  Datasets = {d1}
  Releases <- MCReleases
  HeadOf <- MCHeadOf
  Downgrades = TRUE
  Faults = {"relational", "bookkeeping", "up", "sync", "down"}
  NoRelease = NoRelease
  NoCaller = NoCaller
  NoDataset = NoDataset
SPECIFICATION FairSpec
INVARIANT RevertedIsUnstamped
PROPERTY CallsEnd
