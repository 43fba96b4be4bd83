CONSTANTS
  NormName <- SameName
  EntryNames = {"main"}
  Window = 1
  MaxSpan = 100
  Size = 6
  Programs <- MCPrograms

SPECIFICATION Spec
CHECK_DEADLOCK FALSE
INVARIANT NoSilentGuard
PROPERTY AnswersEnd
