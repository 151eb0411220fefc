SPECIFICATION FairSpec
CONSTANTS
  Endpoints = {e1, e2}
  Threads = {t1}
  None = none
  MaxDatagrams = 2
CHECK_DEADLOCK FALSE
PROPERTIES SilentSessionEnds
