SPECIFICATION GenSpec
CONSTANTS
  A = A
  B = B
  C = C
  none = none
  x = x
  y = y
  z = z
  comma = comma
  bar = bar
  red = red
  blue = blue
  EnumTypes <- MCEnumTypes
  EnumSymbol <- MCEnumSymbol
  Omitting = {red}
  Unset = Unset
  NoMsg = none
  Msg <- MCMsg
  Name <- MCName
  FormatOption <- MCFormatOption
  FormatValue <- MCFormatValue
  BuiltinFormat <- MCBuiltinFormat
  Char <- MCChar
  Comma = comma
  BuiltinIndexSep <- MCIndexSep
  Tops = {}
  FileOrder <- MCFileOrder
  MaxBound = 2
  Schemas <- ForcedSchemas
INVARIANT ExhaustedStaysNested
CHECK_DEADLOCK FALSE
