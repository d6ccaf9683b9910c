CONSTANTS
  Chars <- MCChars
  MaxLen = 6
  Defined <- MCDefined
  Caller = "check"
  Value = "v"
  NoVar = "?"
SPECIFICATION Spec
CHECK_DEADLOCK FALSE
INVARIANTS DefinedVarsResolve
