\* A mapping and a YAML document share the outbox; writes may fail.
SPECIFICATION Spec
CONSTANTS
  plain = plain
  yaml = yaml
  NoHost = NoHost
  NoPublication = NoPublication
  Hosts <- BothHosts
  Yaml = {yaml}
  Parts = {}
  Requests = {}
  MaxGeneration = 2
INVARIANTS
  TypeOK
  QueueDrains
PROPERTIES
  Shown
  TreesReleased
  ShutdownEnds
CHECK_DEADLOCK FALSE
