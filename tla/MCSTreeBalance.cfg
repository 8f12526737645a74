SPECIFICATION Spec
CONSTANTS
  Key = {1, 2, 3, 4, 5, 6}
  NULL = NULL
  NONE = NONE
INVARIANT Balanced
