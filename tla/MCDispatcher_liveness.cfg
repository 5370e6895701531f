SPECIFICATION Spec
CHECK_DEADLOCK FALSE
PROPERTY ReadyJobsProceed
