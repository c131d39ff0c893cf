CONSTANTS
  Pids = {p1, p2, p3}
  NoPid = NoPid
SPECIFICATION Spec
INVARIANTS
  TypeOK
  SubtreeKilled
PROPERTIES
  StrangersSpared
  JobLeavesNothing
  ShutdownEnds
