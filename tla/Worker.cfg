SPECIFICATION WorkerSpec
CONSTANTS
  Streams = {"stdout", "stderr"}
  Included = {"stdout", "stderr"}
  Filtered = {"stderr"}
  Stoppers = {k1, k2}
  MaxLines = 2
  RingSize = 3
INVARIANTS WorkerTypeOK StopIsIntentional StreamInOrder
PROPERTIES ExitIsLast ExitIsReported
CHECK_DEADLOCK FALSE
