\* RecoverEditionAssociation is said to be idempotent; it is not for an
\* import that was anchored to an existing book.
SPECIFICATION Spec
CONSTANTS
  MaxRuns = 1
  Retention = 1
  MaxTokens = 1
INVARIANT RecoveryIsIdempotent
CHECK_DEADLOCK FALSE
