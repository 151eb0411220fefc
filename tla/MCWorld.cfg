SPECIFICATION FairWorldSpec
CONSTANTS
  Ids = {p1}
  Workers = {w1, w2}
  MaxJoins = 2
  MaxWrites = 2
  MaxCommands = 2
  Circle = 5
  Nearness = 2
  Angles = {1, 3}
  None = none
INVARIANTS WorldTypeOK CommandsInOrder CommandPlayerIsLive BodyFollowsPlayer TurnsAddUp
PROPERTY EveryCommandRuns
