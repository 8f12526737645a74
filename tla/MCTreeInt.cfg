SPECIFICATION Spec
CONSTANTS
  Key <- MCKey
  Random <- MCRandom
  NULL = NULL
  NONE = NONE
INVARIANTS
  TreeOK
  RedBlack
PROPERTY
  ImplementsKeySet
