SPECIFICATION Spec
CONSTANTS
  MaxChallenges = 2
  MaxLines = 3
INVARIANTS
  CaptchaTypeOK
  OneReport
  LateReportsAreLost
PROPERTIES
  EverySolveEnds
CHECK_DEADLOCK FALSE
