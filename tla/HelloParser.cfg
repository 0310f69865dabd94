SPECIFICATION ParserSpec
CONSTANTS
  Bytes = {0, 1, 2, 4, 255}
  U16s = {0, 1, 2, 4, 5, 9, 53, 54, 55, 300}
  U24s = {0, 33, 34, 35, 36, 37, 41, 49, 50, 51}
  Fixed = 34
INVARIANTS
  SlicesInBounds
  Positions
PROPERTIES
  Advances
\* analyze returns.
CHECK_DEADLOCK FALSE
