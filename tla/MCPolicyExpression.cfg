SPECIFICATION Spec
CONSTANTS
  Lexeme <- MCLexeme
  Str <- MCStr
  Context <- MCContext
  MaxLen = 5
INVARIANTS
  ParserFollowsGrammar
  RewritesAgree
CHECK_DEADLOCK FALSE
