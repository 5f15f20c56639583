SPECIFICATION Spec
CONSTANTS
  A = A
  B = B
  none = none
  x = x
  y = y
  z = z
  comma = comma
  bar = bar
  Unset = Unset
  NoMsg = none
  Msg <- MCMsg
  Name <- MCName
  FormatOption <- MCFormatOption
  FormatValue <- MCFormatValue
  BuiltinFormat <- MCBuiltinFormat
  Char <- MCChar
  Comma = comma
  BuiltinIndexSep <- MCIndexSep
  Tops = {A}
  MaxBound = 2
  Schemas <- StrictSchemas
INVARIANT RefusalIsJust
CHECK_DEADLOCK FALSE
