SPECIFICATION Spec
CONSTANTS
  Endpoints = {e1}
  Threads = {t1}
  None = none
  MaxDatagrams = 2
CHECK_DEADLOCK FALSE
PROPERTIES StaleHasNothingOutstanding
