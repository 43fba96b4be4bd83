CONSTANTS
  Runners = {r1, r2, r3}
  Overwriting = {}
  Nobody = Nobody
  Lines = 3

SPECIFICATION Spec
CHECK_DEADLOCK FALSE
INVARIANT OneRunnerPerAttempt
PROPERTY WrittenStays
PROPERTY ImplementsWriteOnce
