CONSTANTS
  Empty = ""
  Values = {"good", "tiny", ""}
  Short = {"tiny", ""}
  InArtifact = {"tiny", ""}
  HasArtifact = TRUE
  ActionTypes = {"manual_trace_through"}
  KnownActionTypes = {"manual_trace_through"}
  CitedSteps = {0}
  Texts = {"full", "thin"}
  Reasoning = {"idea"}
  Outputs <- MCOutputs
  MaxSteps = 4
  MaxBlocks = 1
  RequireDerivation = TRUE
  RequireLedger = TRUE
  RequireTerminality = TRUE
  RequireReachability = TRUE
  ConsumerObserved <- StubConsumerObserved
  GuardsAccounted <- StubGuardsAccounted
  Arms = {"A0", "A1", "A2"}
  Accepts = {"good", "tiny"}
  Costs = {0, 2}
  MaxTokens = 5
  NoAnswer = NoAnswer

SPECIFICATION FairLoopSpec
CHECK_DEADLOCK FALSE
INVARIANT ReasonMatchesTrace
INVARIANT TokensOvershootOnce
INVARIANT ArmsDifferOnlyByTheGate
INVARIANT ScriptsAgree
INVARIANT GatedLedgerIsComplete
INVARIANT CameBackWithEvidence
PROPERTY ImplementsOneShot
PROPERTY TraceIsWritten
