CONSTANTS
  Tabs = {t1}
  Sessions = {s1, s2}
  NoSession = NoSession
  NoTab = NoTab
  Faults <- NoFaults
SPECIFICATION Spec
PROPERTY SpawnNoticesCrash
\* After the unload the runner process is gone and nothing is left to do.
CHECK_DEADLOCK FALSE
