SPECIFICATION LockSpec
CONSTANTS
  Goroutines = {g1, g2, g3}
  Mix = {"start", "list", "retryExit", "restart"}
  Nobody = Nobody
SYMMETRY Interchangeable
INVARIANT NoDeadlock
CHECK_DEADLOCK FALSE
