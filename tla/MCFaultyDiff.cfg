SPECIFICATION Spec
CONSTANTS
  Files = {f1,f2}
  Md5s = {m1,m2}
  Tails = {t1,t2}
  Contents <- Bytes
  Md5Of <- OfHead
  Absent = Absent
  d = d
  u = u
  c = c
  Procs = {d}
  Mode <- ModeOf
  Faults = {"read_error", "insert_error", "early_crash", "late_crash", "clock_back"}
  MaxMinute = 2
  MaxRuns = 3
SYMMETRY Symmetric
INVARIANT ReadErrorOffersAll
INVARIANT FreshHashIsOffered
\* The runs are bounded.
CHECK_DEADLOCK FALSE
