SPECIFICATION Spec
CONSTANTS
  MaxDongles = 2
  Tags = {"anon", "ES"}
  UserBands = {"UAT", "ES", "OGN"}
  MaxFaults = 1
  MaxChanges = 1
INVARIANTS TypeOK ExclusiveUse
PROPERTIES SdrKillEnds CrashIsRepaired
CHECK_DEADLOCK FALSE
