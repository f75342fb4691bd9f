SPECIFICATION LockSpec
CONSTANTS
  Goroutines = {g1, g2, g3}
  Mix = {"start", "list", "stop", "reset", "output", "exit", "sweep", "set_pool", "shutdown", "connect"}
  Nobody = Nobody
SYMMETRY Interchangeable
INVARIANT NoDeadlock
CHECK_DEADLOCK FALSE
