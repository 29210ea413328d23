\* The same bodies: a key that names a container of the protocol is written in
\* the result of a tool.
SPECIFICATION Spec
CONSTANTS
  Keys <- MCKeys
  Types <- MCTypes
INVARIANT NothingForged
CHECK_DEADLOCK FALSE
