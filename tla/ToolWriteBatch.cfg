\* Two files against two edits: the races of replaceFile, the batch and its status;
\* and every scan of a small project.
SPECIFICATION MCSpec
CONSTANTS
  f1 = f1
  f2 = f2
  messy = messy
  mixed = mixed
  tidy = tidy
  warned = warned
  broken = broken
  NoText = NoText
  Inputs <- TwoFiles
  Texts <- LintTexts
  Output <- LintOutput
  Reported = {warned}
  MaxEdits = 2
  top = top
  outer = outer
  inner = inner
  leaf = leaf
  empty = empty
  modules = modules
  fa = fa
  fb = fb
  fc = fc
  fm = fm
  NoDir = NoDir
  Dirs = {top, outer, inner, leaf, empty, modules}
  Regular = {fa, fb, fc, fm}
  Top = top
  Parent <- TreeParent
  Chain <- TreeChain
  Tool = {fa, fc, fm}
  Skipped = {modules}
INVARIANTS NeverTorn ExitTruthful ListsVisible ReadsOnlyVisible FailsForSettings
PROPERTY OverwritesOnlyRead
CHECK_DEADLOCK FALSE
