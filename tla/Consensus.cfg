SPECIFICATION Spec
CONSTANTS
  Points <- SomePoints
  Weights <- SomeWeights
  MaxCandidates = 5
  Reach = 10
  Stray = 100
INVARIANTS TypeOK ElectedIsNear VotersAreNoOutliers AgreementIsKept HeaviestGroupDecides
CHECK_DEADLOCK FALSE
