CONSTANTS
  a1 = a1
  a2 = a2
  Agencies = {a1, a2}
  Outcomes <- AnyOutcomes
  Second = 3
  Window <- MCWindow
  Lag = 1
  MaxTime = 13
SPECIFICATION FairSpec
INVARIANTS
  TypeOK
  ScoreIsAverage
  ScoreIsValid
  PromptAnswersCount
  AtMostOneLateScore
  EndsWithWindow
PROPERTY CheckEnds
