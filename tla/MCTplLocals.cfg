\* Nothing but two procedures with locals of their own, one of which calls the
\* other, both begun with proc(l, args...).
CONSTANTS
  VarRule <- MCVarRule
  Texts <- MCTexts
  RulesFor <- MCRulesFor
  MaxMatches = 1
  Char <- MCChar
  Pattern <- MCPattern
  Text <- MCText
  Width = {0}
  Label <- MCLabel
  Variable <- MCVariable
  Program <- Together
SPECIFICATION MCSpec
INVARIANT VariablesAddressed
CHECK_DEADLOCK FALSE
