SPECIFICATION TextSpec
CONSTANTS
  Alphabet = {"NUMBER", "IDENTIFIER", "STAR", "MINUS", "OR", "LPAREN", "RPAREN", "COMMA"}
  MaxLength = 6
INVARIANTS
  AcceptsExpressions
  TreeIsByPrecedence
  ConsumesOrReports
CHECK_DEADLOCK FALSE
