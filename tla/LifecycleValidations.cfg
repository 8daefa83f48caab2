\* Three generations of one YAML document: edits, watched files, closes, shutdown.
SPECIFICATION SafeSpec
CONSTANTS
  plain = plain
  yaml = yaml
  NoHost = NoHost
  NoPublication = NoPublication
  Hosts <- YamlHost
  Yaml = {yaml}
  Parts = {}
  Requests = {}
  MaxGeneration = 3
INVARIANTS
  Coherent
CHECK_DEADLOCK FALSE
