SPECIFICATION Spec
CONSTANTS
  Segments <- MCSegments
  Affixes <- MCAffixes
  MaxDepth = 2
  Separators <- MCSeparators
  Indices <- MCIndices
INVARIANTS AffixesNest CasingKeepsText CasingStable NamesStayApart StripLeavesName
CHECK_DEADLOCK FALSE
