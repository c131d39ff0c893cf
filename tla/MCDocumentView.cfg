CONSTANTS
  Threads = {a, b}
  NoThread = NoThread
  Handles = {h1, h2}
  NoSnapshot = NoSnapshot
SPECIFICATION Spec
INVARIANTS
  TypeOK
  LookupRight
  OwnAnswer
  StuckOnlyInConversion
PROPERTIES
  ImplementsContract
  CallReturnsOrStuck
