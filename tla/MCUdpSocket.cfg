SPECIFICATION FairSpec
CONSTANTS
  Workers = {w1, w2}
  Slots = {r1, r2}
  Sends = {s1}
  MaxFaults = 3
  MaxInits = 2
  None = none
CHECK_DEADLOCK FALSE
INVARIANTS TypeOK OneHolder SendReportedOnce FreedUnused IdleOnlyByRefusal
PROPERTIES EverySendSettles CallsReturn KeepsPromise
