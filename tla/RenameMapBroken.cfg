\* Three texts, one of them broken at most.
SPECIFICATION MCMapSpec
CONSTANTS
  a = a
  b = b
  other = other
  Names = {a, b}
  Texts = {}
  Units = {1, 2, 3}
  MapNames = {a, b, other}
  Projects <- MCProjects
  MaxBroken = 1
INVARIANTS
  DeclarationRenamed
CHECK_DEADLOCK FALSE
