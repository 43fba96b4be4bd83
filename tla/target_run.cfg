CONSTANTS
  Units = {"success", "fail"}
  MaxOut = 3
  Caps = {1, 2}
  Chunk = 2
  PipeRoom = 1
  CanEscape = FALSE
  Tasks <- MCTasks

SPECIFICATION Spec
INVARIANT LimitIsExact
INVARIANT KillHasAReason
INVARIANT NoProcessLeft
INVARIANT AcceptedRunIsComplete
PROPERTY CallReturns
