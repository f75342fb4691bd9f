SPECIFICATION HubSpec
CONSTANTS
  c1 = c1  c2 = c2  c3 = c3  c4 = c4  c5 = c5  A = A  B = B  K = K
  Calls = {c1, c2, c3, c4}
  Actions = {A, B}
  Global = Global
  TaskOf <- SameTaskOf
  ActionOf <- MCActionOf
  ForcedCalls = {}
  InitConfig <- OneSlot
  NewLimits = {}
  NewSizes = {}
  FailingCalls = {c1}
  Unset = Unset
  Detached = Detached
  NoQueue = NoQueue
  RetryCalls = {}
  ErrorThreshold = 2
  NoTask = NoTask
  Fingerprint <- AllDiffer
  NoKey = NoKey
  Submitted = {}
  WindowedCalls = {}
INVARIANT OneProcess

CHECK_DEADLOCK FALSE
