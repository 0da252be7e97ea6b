SPECIFICATION FairSpec
CONSTANT MaxConnection = 3
INVARIANT StreamExclusive
INVARIANT GateIsEarned
INVARIANT SerialGateAgrees
PROPERTY SerialVerdictPersists
PROPERTY AttemptsSpec
PROPERTY CheckDecides
