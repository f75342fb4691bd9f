SPECIFICATION HubSpec
CONSTANTS
  c1 = c1  c2 = c2  c3 = c3  c4 = c4  c5 = c5  A = A  B = B  K = K
  Calls = {c1, c2, c3}
  Actions = {A, B}
  Global = Global
  TaskOf <- MCTaskOf
  ActionOf <- TwoActions
  ForcedCalls = {}
  InitConfig <- TwoSlots
  NewLimits = {1, 2}
  NewSizes = {1}
  FailingCalls = {c3}
  Unset = Unset
  Detached = Detached
  NoQueue = NoQueue
  RetryCalls = {c1, c2}
  ErrorThreshold = 2
  NoTask = NoTask
  Fingerprint <- MCFingerprint
  NoKey = NoKey
  Submitted = {c2}
  WindowedCalls = {c2}
INVARIANTS  QueuesSound NoSlotLeak HubTypeOK OneProcess Reachable ReservationHeld
PROPERTIES CancelledIsFinal StoppedStaysDown RequestsOwned ImplementsTaskLife
CHECK_DEADLOCK FALSE
