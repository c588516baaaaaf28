SPECIFICATION Spec
CONSTANTS
  Files = {f1}
  Md5s = {m1,m2}
  Tails = {t1,t2}
  Contents <- Bytes
  Md5Of <- OfHead
  Absent = Absent
  d = d
  u = u
  c = c
  Procs = {d}
  Mode <- ModeOf
  Faults = {}
  MaxMinute = 2
  MaxRuns = 4
SYMMETRY Symmetric
INVARIANT ChangedFilesAreUploaded
\* The runs are bounded.
CHECK_DEADLOCK FALSE
