SPECIFICATION Spec
CONSTANTS
  Tags = {"a", "b"}
  Comparisons <- MCComparisons
  TagValues = {"x", "y", ""}
  MaxTokens = 7
INVARIANTS
  AcceptsWellFormed
  RuleMeansText
CHECK_DEADLOCK FALSE
