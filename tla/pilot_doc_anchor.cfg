CONSTANTS
  Versions = {"v1", "v2"}
  Images = {"image"}
  Arms = {"A0", "A2"}
  MaxEdits = 1
  None = None

SPECIFICATION PilotSpec
CHECK_DEADLOCK FALSE
INVARIANT DriftFailsClosed
