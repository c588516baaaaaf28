SPECIFICATION Spec
CONSTANTS
  Files = {f1,f2}
  Md5s = {m1,m2}
  Tails = {t1,t2}
  Contents <- Bytes
  Md5Of <- OfHead
  Absent = Absent
  d = d
  u = u
  c = c
  Procs = {d}
  Mode <- ModeOf
  Faults = {}
  MaxMinute = 2
  MaxRuns = 4
SYMMETRY Symmetric
INVARIANT TypeOK
INVARIANT DiffInv
PROPERTY MirrorSpec
INVARIANT UploadsCoverChanges
INVARIANT NoNeedlessUpload
\* The runs are bounded.
CHECK_DEADLOCK FALSE
