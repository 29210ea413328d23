\* One path down a body of the Messages API, of any depth, in the walk of the
\* request and in the walks of the answer it repeats.
SPECIFICATION Spec
CONSTANTS
  Keys <- MCKeys
  Types <- MCTypes
INVARIANTS
  TypeOK
  EchoAgrees
  ExemptionsInPlace
\* A path ends at a string.
CHECK_DEADLOCK FALSE
