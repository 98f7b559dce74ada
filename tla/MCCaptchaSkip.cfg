SPECIFICATION Spec
CONSTANTS
  MaxChallenges = 2
  MaxLines = 3
INVARIANT SkipSkipsThisServer
CHECK_DEADLOCK FALSE
