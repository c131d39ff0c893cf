CONSTANTS
  Sessions = {s1, s2}
  NoSession = NoSession
  Pids = {p1, p2}
  NoPid = NoPid
  Terminals <- Detaching
  Faults <- NoFaults
SPECIFICATION Spec
PROPERTY NoOpWhileAlive
\* A closed tab whose processes have all ended has no next step.
CHECK_DEADLOCK FALSE
