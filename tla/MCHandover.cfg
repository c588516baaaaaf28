SPECIFICATION FairSpec
CONSTANTS
  MaxTriggers = 5
  Torn = Torn
INVARIANTS TypeOK HandoverInv NoLostWakeup FreshBranch
PROPERTIES EventThreadProgress EveryTriggerDeployed QueueSpec ExitWaitsForTheSleeper
\* The process may end (exit).
CHECK_DEADLOCK FALSE
