SPECIFICATION ZoneSpec
CONSTANTS
  Pids = {p1, p2}
  Launchers = {l1, l2}
  MaxStarts = 3
  MaxFailures = 1
  MaxRestarts = 1
INVARIANTS PassExact
PROPERTIES ZoneFollowsJob
CHECK_DEADLOCK FALSE
