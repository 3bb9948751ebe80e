SPECIFICATION Spec
CONSTANT MaxLines = 5
INVARIANT FailedScrollIsHandled
CHECK_DEADLOCK FALSE
