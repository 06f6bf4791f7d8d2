SPECIFICATION Spec
CONSTANTS
  a = a
  b = b
  Clients = {a, b}
  Rate = 1
  Burst = 1
  ExpiresIn = 1
  MaxNow = 2
  q1 = q1
  q2 = q2
  q3 = q3
  Requests = {q1, q2, q3}
  Traffic <- MCTraffic
  NotPassed = NotPassed
INVARIANTS
  TypeOK
  BudgetIsShared
  RecordMatchesAnswer
  RootTakesEveryMethod
PROPERTIES
  AnswerComes
