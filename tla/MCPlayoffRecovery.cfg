\* A correction and the preparations of a later match (expected: violated).
SPECIFICATION PlayoffSpec
INVARIANT RecoverableIsRecovered
CHECK_DEADLOCK FALSE
