SPECIFICATION Spec
CONSTANTS
  Endpoints = {e1, e2}
  Threads = {t1, t2}
  None = none
  MaxDatagrams = 2
SYMMETRY Alike
CHECK_DEADLOCK FALSE
INVARIANTS TypeOK SeenMatchesStates DropsAreReportedOnce SessionIsWatched
PROPERTIES WatchesClients
