SPECIFICATION Spec
INVARIANT AluDivides
CHECK_DEADLOCK FALSE
