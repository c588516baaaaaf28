SPECIFICATION FairSpec
CONSTANTS
  Clients = {c1, c2}
  Wanted = {c1}
  MaxOpen = 2
  MaxFd = 6
  MaxEvents = 2
  MaxChanges = 2
  MaxDirs = 1
  Faults = {"reset"}
INVARIANTS TypeOK NoStaleEvent OnlyResetIsDropped ExitTakesDeployments LoopInv
PROPERTIES EveryClientServed AnsweredIsDeployed
CHECK_DEADLOCK FALSE
