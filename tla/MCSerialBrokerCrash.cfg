\* Both connections end at about the same time.
CONSTANT MaxMsgs = 1
SPECIFICATION Spec
INVARIANT ServerSurvives
CHECK_DEADLOCK FALSE
