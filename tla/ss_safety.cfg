SPECIFICATION FairSpec
CONSTANTS
  c1 = c1
  c2 = c2
  i1 = i1
  i2 = i2
  ChainId <- MCChainId
  Identity <- MCIdentity
  ChainOf <- MCChainOf
  NoChain = nochain
  Requests = {r1, r2}
  Adds = {a1, a2}
INVARIANTS
  OnlyAuthorizedIsAccepted
  AnswersAreTruthful
  RefusedOnlyByOverlap
PROPERTIES
  CallsAreAnswered
CHECK_DEADLOCK FALSE
