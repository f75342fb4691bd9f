SPECIFICATION ServerSpec
CONSTANTS
  Conns = {k1}
  Tasks = {t1, t2}
  RetryTasks = {t1}
  DelayedTasks = {t1}
  MaxWorkers = 2
INVARIANTS ServerTypeOK CleanShutdown ToldIsLast 
  
CHECK_DEADLOCK FALSE
