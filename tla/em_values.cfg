SPECIFICATION Spec
CONSTANTS
  Kilo = 4
  Word = 128
  NoOneof = "none"
  KeySets <- MCKeySets
  PbLevels <- MCPbLevels
  Info <- MCInfo
  Cases <- MCCases
  MapOrders <- MCMapOrders
  SpreadKey <- MCSpreadKey
INVARIANTS PresenceDecides BranchesExclusive MergeResolves ShapeAsChecked OffersFitPlan
  Deterministic TimesReadBack FailureHasCause PickReadsStruct
CHECK_DEADLOCK FALSE
