SPECIFICATION Spec
CONSTANTS
  Bodies <- MCBodies
  EndInE <- MCEndInE
  Misleading <- MCMisleading
  MaxContacts = 2
CHECK_DEADLOCK FALSE
INVARIANTS
  TypeOK
  RecordedIsLeadingPart
  RefusalIsNotSuccess
PROPERTY
  EveryContactEnds
