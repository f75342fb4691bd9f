SPECIFICATION FixedSpec
CONSTANTS
  c1 = c1  c2 = c2  c3 = c3  c4 = c4  c5 = c5  A = A  B = B
  Calls = {c1, c3, c4, c5}
  Actions = {A, B}
  Global = Global
  TaskOf <- MCTaskOf
  ActionOf <- MCActionOf
  ForcedCalls = {c3}
  InitConfig <- Displacing
  NewLimits = {}
  NewSizes = {}
  FailingCalls = {}
  Unset = Unset
  Detached = Detached
  NoQueue = NoQueue
INVARIANT QueuedIsHeld
CHECK_DEADLOCK FALSE
