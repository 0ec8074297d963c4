CONSTANTS
  p1 = p1
  p2 = p2
  w1 = w1
  w2 = w2
  op = op
  d1 = d1
  d2 = d2
  Procs = {p1, p2}
  Writers = {w1, w2}
  Operators = {op}
  ProcOf <- MCSharedProcOf
  Datasets = {d1, d2}
  Releases <- MCReleases
  HeadOf <- MCHeadOf
  Downgrades = FALSE
  Faults = {"crash", "relational", "up", "stamp", "sync"}
  NoRelease = NoRelease
  NoCaller = NoCaller
  NoDataset = NoDataset
SPECIFICATION Spec
SYMMETRY DatasetSymmetry
INVARIANT TypeOK
INVARIANT OneMigrator
INVARIANT StampIsHonest
INVARIANT NoneNeglected
INVARIANT WritersAreMigrated
