CONSTANTS
  Empty = ""
  Values = {"good", "tiny", "decoy"}
  Short = {"tiny"}
  InArtifact = {"decoy", "tiny"}
  HasArtifact = TRUE
  ActionTypes = {"manual_trace_through"}
  KnownActionTypes = {"manual_trace_through"}
  CitedSteps <- Citations
  Texts = {"nothing", "site"}
  Reasoning = {"guard"}
  Outputs <- Listings
  MaxSteps = 4
  MaxBlocks = 1
  RequireDerivation = TRUE
  RequireLedger = TRUE
  RequireTerminality = TRUE
  RequireReachability = TRUE
  ConsumerObserved <- MCConsumerObserved
  GuardsAccounted <- MCGuardsAccounted

SPECIFICATION Spec
CHECK_DEADLOCK FALSE
INVARIANT TypeOK
INVARIANT MeritDecides
INVARIANT AuditNamesEarlierWork
INVARIANT AbstentionIsEarned
INVARIANT ReplayUpholdsAdmission
INVARIANT LiftedForAReason
INVARIANT ShadowDisagreesOnlyOnRepair
PROPERTY AdmissionIsPermanent
PROPERTY OnlyEvidenceLiftsABlock
