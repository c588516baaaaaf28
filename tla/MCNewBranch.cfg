SPECIFICATION Spec
CONSTANTS
  b1 = b1
  s = s
  f1 = f1
  m1 = m1
  m2 = m2
  x1 = x1
  x2 = x2
  x3 = x3
  d = d
  u = u
  c = c
  Branches = {b1, b2}
  Names = {b1, b2}
  Cut <- LastPart
  Empty = ""
  Default = b1
  Fetched = {b1}
  Files = {f1, f2}
  Contents = {x1, x2, x3}
  Md5s = {m1, m2}
  Md5Of <- HashOf
  Absent = Absent
  Output <- Sources
  Procs = {d}
  Opts <- OptsOf
  Faults = {}
  MaxCommits = 2
  MaxTriggers = 2
  MaxLaunches = 2
INVARIANT LastPushIsBuilt
\* Launches and triggers are bounded.
CHECK_DEADLOCK FALSE
