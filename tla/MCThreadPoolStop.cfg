SPECIFICATION FairSpec
CONSTANTS
  Workers = {w1}
  Callers = {main}
  Owner = main
  Tasks = {t1}
  None = none
  Interrupts = {}
CHECK_DEADLOCK FALSE
PROPERTIES StopReturns
