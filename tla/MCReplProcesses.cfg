CONSTANTS
  Sessions = {s1, s2}
  NoSession = NoSession
  Pids = {p1, p2}
  NoPid = NoPid
  Terminals <- AllTerminals
  Faults <- Crashes
SPECIFICATION Spec
INVARIANTS
  TypeOK
  SigkillHitsOwnGroup
  DeadMeansOver
  SupersededReplEnding
  DirOutlivesRepl
PROPERTIES
  StoppedReplEnds
  ImplementsContract
\* A closed tab whose processes have all ended has no next step.
CHECK_DEADLOCK FALSE
