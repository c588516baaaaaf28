SPECIFICATION Spec
CONSTANTS
  Clients = {c1, c2}
  Wanted = {c1}
  MaxOpen = 2
  MaxFd = 4
  MaxEvents = 2
  MaxChanges = 1
  MaxDirs = 1
  Faults = {"reset","inherited_reset"}
INVARIANT OnlyResetIsDropped
CHECK_DEADLOCK FALSE
