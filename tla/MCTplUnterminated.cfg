CONSTANTS
  VarRule <- MCVarRule
  Texts <- Literals
  RulesFor <- LiteralRules
  MaxMatches = 1
  Char <- MCChar
  Pattern <- MCPattern
  Text <- MCText
  Width = {0}
  Label <- MCLabel
  Variable <- MCVariable
  Program <- MCProgram
SPECIFICATION MCSpec
INVARIANT RepetitionAdvances
CHECK_DEADLOCK FALSE
