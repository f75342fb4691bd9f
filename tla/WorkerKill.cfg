SPECIFICATION WorkerSpec
CONSTANTS
  Streams = {"stdout", "stderr"}
  Included = {"stdout", "stderr"}
  Filtered = {"stderr"}
  Stoppers = {k1}
  MaxLines = 2
  RingSize = 3

PROPERTY StopEnds
CHECK_DEADLOCK FALSE
