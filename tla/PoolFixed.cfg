SPECIFICATION FairFixedSpec
CONSTANTS
  c1 = c1  c2 = c2  c3 = c3  c4 = c4  c5 = c5  A = A  B = B
  Calls = {c1, c2, c3, c4, c5}
  Actions = {A, B}
  Global = Global
  TaskOf <- MCTaskOf
  ActionOf <- MCActionOf
  ForcedCalls = {c3}
  InitConfig <- SharedSlot
  NewLimits = {}
  NewSizes = {}
  FailingCalls = {c5}
  Unset = Unset
  Detached = Detached
  NoQueue = NoQueue
INVARIANTS QueuedIsHeld QueuesSound UpHoldsSlot NoSlotLeak GlobalCapacity NoStranding
PROPERTIES NoOvertaking CancelledIsFinal QueuedIsServedUnlessFailed ImplementsSlots
CHECK_DEADLOCK FALSE
