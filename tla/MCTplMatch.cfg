CONSTANTS
  VarRule <- MCVarRule
  Texts <- MCTexts
  RulesFor <- MCRulesFor
  MaxMatches = 2
  Char <- MCChar
  Pattern <- MCPattern
  Text <- MCText
  Width = {0, 4}
  Label <- MCLabel
  Variable <- MCVariable
  Program <- MCProgram
SPECIFICATION MCSpec
INVARIANTS
  MatchesDerivation
  DeclarationsRead
  TokensTakeLongest
  TableLongest
  ProgramsCompute
PROPERTIES
  ImplementsSearch
  FinderReturns
  FindsFirst
  CallsReturn
CHECK_DEADLOCK FALSE
