CONSTANTS
  ByteXor <- MCXor
  Table <- Swapped
  HalfWord = 1024
  Word = 32768
  Mult = 11
  Salt = 7
  Moduli = {3}
  Lookahead = 14
  Flags <- MCFlags
  Keys = {19}
  Kind <- MCKind
  Pools <- MCPools
  Compiled <- MCCompiled
  Rows <- MCRows
  MaxStarts = 2
  Inputs <- MCInputs
  None = None

SPECIFICATION PoolSpec
CHECK_DEADLOCK FALSE
INVARIANT AcceptsOnlyTheFlag
INVARIANT PassedPoolAgrees
INVARIANT LostTrapIsNoticed
INVARIANT SoundPoolPasses
