SPECIFICATION DeliverySpec
CONSTANTS
  Conns = {c1, c2}
  Starter = c1
  Tasks = {t1, t2}
  Task = t1
  Actions = {build}
  Action = build
  MaxTaskEntries = 1
  ErrorThreshold = 2
  RingSize = 2
  MaxLines = 2
  MaxMoves = 2
  Free = Free
INVARIANTS DeliveryTypeOK NoGhost   PassReachesAll  TableSound
CHECK_DEADLOCK FALSE
