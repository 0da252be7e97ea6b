SPECIFICATION Spec
CONSTANT ReplayLines = 2
CONSTANT MaxLines = 4
CONSTANT MaxSessions = 2
CHECK_DEADLOCK FALSE
INVARIANT ReportedSurvives
INVARIANT SelfContained
