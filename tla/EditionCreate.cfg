\* One item over three sync runs, two of them retained.
SPECIFICATION Spec
CONSTANTS
  MaxRuns = 3
  Retention = 2
  MaxTokens = 2
INVARIANTS TypeOK MatchIsVerified AnswersAreHonest
PROPERTIES ImplementsEditionLedger TokenKept
CHECK_DEADLOCK FALSE
