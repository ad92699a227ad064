SPECIFICATION Spec
CONSTANTS
  Pages = {"list", "vdr"}
  MaxInputs = 3
  MaxFaults = 2
INVARIANTS
  TypeOK
  QueuedUntilOpen
  OneSessionPerPage
  NoLateSwitching
  PageKnown
PROPERTY
  BackOnline
CHECK_DEADLOCK FALSE
