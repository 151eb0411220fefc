SPECIFICATION FairSpec
CONSTANTS
  Workers = {w1, w2}
  Callers = {main, net}
  Owner = main
  Tasks = {t1, t2, t3}
  None = none
  Interrupts = {"pause", "clear"}
CHECK_DEADLOCK FALSE
INVARIANTS TypeOK OneFate StopDrained WorkIsNoticed
PROPERTIES EveryTaskRuns ServesInOrder
