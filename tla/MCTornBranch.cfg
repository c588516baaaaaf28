SPECIFICATION Spec
CONSTANTS
  MaxTriggers = 2
  Torn = Torn
INVARIANT CheckoutNamesABranch
\* The process may end (exit).
CHECK_DEADLOCK FALSE
