CONSTANTS
  Workers = {w1, w2}
  Schedules = {s1, s2}
  App <- OneApp
  DayLength = 2
  Keep = 2
  Retain = 1
  MaxActive = 2
  MaxTime = 7
  MaxBackups = 4
CONSTRAINT FewIncidents
SYMMETRY Symmetry
SPECIFICATION Spec
INVARIANT NoBurst
INVARIANT RetentionKeeps
CHECK_DEADLOCK FALSE
