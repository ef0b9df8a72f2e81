SPECIFICATION Spec
CONSTANTS
  Values = {0, 1}
  Default = 0
  Null = null
  Tried = {"ms", "bool"}
INVARIANT GettersHaveTheRightType
