CONSTANTS
  Units = {"line"}
  MaxOut = 3
  Caps = {1, 2}
  Chunk = 2
  PipeRoom = 2
  CanEscape = FALSE

SPECIFICATION Spec
INVARIANT PartialIsSignalled
