SPECIFICATION Spec
CONSTANTS
  Severities = {1, 2}
  ClearTime = 4
  BalloonTime = 2
  MaxDelay = 1
  MaxAlerts = 2
  MaxConditions = 1
  MaxFlips = 2
  MaxFaults = 1
INVARIANTS TypeOK ReplaysAreReal
PROPERTIES BalloonLasts FollowsList
