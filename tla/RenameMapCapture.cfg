\* Three texts without syntax errors.
SPECIFICATION MCMapSpec
CONSTANTS
  a = a
  b = b
  other = other
  Names = {a, b}
  Texts = {}
  Units = {1, 2, 3}
  MapNames = {a, b, other}
  Projects <- MCProjects
  MaxBroken = 0
INVARIANTS
  NothingCaptured
CHECK_DEADLOCK FALSE
