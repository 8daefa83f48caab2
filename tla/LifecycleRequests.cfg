\* A request races with the edits, the validations and the close of its document.
SPECIFICATION SafeSpec
CONSTANTS
  plain = plain
  yaml = yaml
  NoHost = NoHost
  NoPublication = NoPublication
  Hosts <- PlainHost
  Yaml = {}
  Parts = {p1}
  Requests = {r1}
  MaxGeneration = 2
INVARIANTS
  FreshExec
  Settles
  TreesOwned
CHECK_DEADLOCK FALSE
