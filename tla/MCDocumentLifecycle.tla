------------------------ MODULE MCDocumentLifecycle -------------------------
\* Small instances of DocumentLifecycle for TLC.
EXTENDS DocumentLifecycle

CONSTANTS plain, yaml   \* a mapping file and a YAML file

PlainHost == {plain}
YamlHost == {yaml}
BothHosts == {plain, yaml}
=============================================================================
