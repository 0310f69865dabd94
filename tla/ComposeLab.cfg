SPECIFICATION Spec
CONSTANTS
  Rows <- MCRows
  Edits <- MCEdits
  Filters <- MCFilters
  Emits <- MCEmits
  MaxSteps = 4
INVARIANTS
  OKIsCaptured
PROPERTIES
  OnlyItsOwnProfile
\* The bound on steps is reached.
CHECK_DEADLOCK FALSE
