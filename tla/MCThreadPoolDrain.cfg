SPECIFICATION FairSpec
CONSTANTS
  Workers = {w1}
  Callers = {main}
  Owner = main
  Tasks = {t1}
  None = none
  Interrupts = {"pause"}
CHECK_DEADLOCK FALSE
PROPERTIES StopDrains
