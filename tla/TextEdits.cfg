\* Every text of four symbols and two names; every project of three texts,
\* one of them broken at most; every layout of seven trees in widths that break
\* none or all of their groups; every file of the sets of MCLintFix.
SPECIFICATION TextSpec
CONSTANTS
  a = a
  b = b
  other = other
  Names = {a, b}
  Texts <- MCTexts
  Units = {1, 2, 3}
  MapNames = {a, b, other}
  Projects <- MCProjects
  MaxBroken = 1
  Size = 2
  Trees <- MCTrees
  Widths <- MCWidths
  Gaps <- MCGaps
  TextAt <- MCTextAt
  CommaPlaces <- MCCommaPlaces
  LayoutOf <- MCLayoutOf
  Closes <- MCCloses
  Files <- MCFiles
  Hosts <- MCHosts
  ImportNames <- MCImportNames
  Disks <- MCDisks
  ImportLists <- MCImportLists
  Replacements <- MCEdits
  Fixed <- MCFixed
  Applied <- MCApplied
  Bytes <- MCBytes
  MaxImports = 4
  MaxBytes = 5
  MaxWrites = 1
INVARIANTS
  ReadsPreserved
  Reversible
  UsersKeep
  NoOverfull
  OnlyCommasGo
  MeaningKept
  SuppressionKept
  CyclesEnd
  Converges
PROPERTY Idempotent
CHECK_DEADLOCK FALSE
