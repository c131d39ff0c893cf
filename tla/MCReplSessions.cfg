CONSTANTS
  Tabs = {t1, t2}
  Sessions = {s1, s2}
  NoSession = NoSession
  NoTab = NoTab
  Faults <- AllFaults
SPECIFICATION Spec
INVARIANTS
  TypeOK
  OneWrapperPerTab
  NothingUnowned
  DirOutlivesItsUsers
  NoSessionForClosedTab
PROPERTIES
  LiveSessionKept
  CallsReturn
  ImplementsContract
\* After the unload the runner process is gone and nothing is left to do.
CHECK_DEADLOCK FALSE
