CONSTANTS
  Providers = {"claude", "openai"}
  PolicyArms = {"A0", "A1", "A2"}
  Hypotheses = {"", "encode", "transform", "rodata", "plugh"}
  NoText = ""
  Cards <- MCCards
  Retrieved <- MCRetrieved
  RetryCount = 1
  MaxTurns = 4

SPECIFICATION FairPolicySpec
CHECK_DEADLOCK FALSE
INVARIANT EveryCallAnsweredOnce
INVARIANT CardsInForce
INVARIANT EventKeyedOnEarlierHypothesis
PROPERTY RequestsOnlyGrow
PROPERTY TurnEnds
