SPECIFICATION FairSpec
CONSTANTS
  Callers = {c1, c2, c3}
  MaxConcurrent = 2
  MinRate = 1
  MaxBackoff = 2
  MaxDailyWait = 4
  BackoffFactors = {2}
  Answers <- MCAnswers
  NoAnswer = NoAnswer
  MaxRequests = 3
  Horizon = 5
CHECK_DEADLOCK FALSE
INVARIANTS
  PermitsBalance
  NoOversleep
PROPERTIES
  AdmissionsPaced
  PausesKept
  RequestsEnd
