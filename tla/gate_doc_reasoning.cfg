CONSTANTS
  Empty = ""
  Values = {"good"}
  Short = {}
  InArtifact = {}
  HasArtifact = TRUE
  ActionTypes = {"manual_trace_through"}
  KnownActionTypes = {"manual_trace_through"}
  CitedSteps = {0, 1}
  Texts = {"site", "site and guard"}
  Reasoning = {"site", "guard"}
  Outputs <- Parts
  MaxSteps = 6
  MaxBlocks = 2
  RequireDerivation = TRUE
  RequireLedger = TRUE
  RequireTerminality = TRUE
  RequireReachability = TRUE
  ConsumerObserved <- MCConsumerObserved
  GuardsAccounted <- MCGuardsAccounted

SPECIFICATION Spec
CHECK_DEADLOCK FALSE
INVARIANT RecordedReasoningCounts
