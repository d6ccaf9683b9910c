CONSTANTS
  Chars <- MCChars
  MaxLen = 6
  Defined <- MCDefined
  Caller = "instantiate"
  Value = "v"
  NoVar = "?"
SPECIFICATION Spec
CHECK_DEADLOCK FALSE
INVARIANTS ExpandsLikeTemplate
